-------------------------- MODULE TcpSocketProofs --------------------------
(***************************************************************************)
(* TcpInv is an invariant of the TCP socket for every size of the rings,   *)
(* the chip's buffers and the scratch buffers and for any number of        *)
(* connections; the conservation, order and teardown properties follow     *)
(* for a link that stays up and scratch buffers that hold a full ring.     *)
(***************************************************************************)
EXTENDS TcpSocket, SequenceTheorems, TLAPS

-----------------------------------------------------------------------------
(* Facts about sequences and about the bytes of a connection.              *)

(* The smaller of two numbers, as receive, transmit and the ring's write   *)
(* use it.                                                                 *)
LEMMA MinPair ==
    ASSUME NEW a \in Int, NEW b \in Int
    PROVE  /\ Min({a, b}) \in Int
           /\ Min({a, b}) <= a /\ Min({a, b}) <= b
           /\ Min({a, b}) = a \/ Min({a, b}) = b
  <1>1. \E x \in {a, b} : \A y \in {a, b} : x =< y
    OBVIOUS
  <1>2. /\ Min({a, b}) \in {a, b}
        /\ \A y \in {a, b} : Min({a, b}) =< y
    BY <1>1, Zenon DEF Min
  <1>. QED
    BY <1>2

(* A sequence is cut in two anywhere and put together again.               *)
LEMMA Cut ==
    ASSUME NEW S, NEW s \in Seq(S), NEW n \in 0..Len(s)
    PROVE  /\ Front(s, n) \in Seq(S) /\ Len(Front(s, n)) = n
           /\ Rest(s, n) \in Seq(S) /\ Len(Rest(s, n)) = Len(s) - n
           /\ Front(s, n) \o Rest(s, n) = s
  <1>1. Front(s, n) \in Seq(S) /\ Len(Front(s, n)) = n
    BY SubSeqProperties DEF Front
  <1>2. Rest(s, n) \in Seq(S) /\ Len(Rest(s, n)) = Len(s) - n
    BY SubSeqProperties DEF Rest
  <1>3. Front(s, n) \o Rest(s, n) = SubSeq(s, 1, Len(s))
    <2>1. 1 \in 1..(Len(s) + 1) /\ n \in (1 - 1)..Len(s) /\ Len(s) \in n..Len(s)
      BY LenProperties
    <2>2. SubSeq(s, 1, n) \o SubSeq(s, n + 1, Len(s)) = SubSeq(s, 1, Len(s))
      BY ONLY <2>1, s \in Seq(S), ConcatAdjacentSubSeq
    <2>. QED
      BY <2>2 DEF Front, Rest
  <1>. QED
    BY <1>1, <1>2, <1>3, SubSeqFull

(* All of a sequence is its own front, and nothing can be taken from an    *)
(* empty one.                                                              *)
LEMMA CutWhole ==
    ASSUME NEW S, NEW s \in Seq(S)
    PROVE  /\ Front(s, Len(s)) = s
           /\ Front(s, 0) = <<>>
           /\ \A n \in Nat : Rest(<<>>, n) = <<>>
  BY SubSeqFull, SubSeqEmpty DEF Front, Rest

(* The stream of a connection and its length.                              *)
LEMMA BytesLen ==
    ASSUME NEW c, NEW n \in Nat
    PROVE  /\ Bytes(c, n) \in Seq({c} \X Nat)
           /\ Len(Bytes(c, n)) = n
           /\ \A k \in 1..n : Bytes(c, n)[k] = <<c, k>>
  BY DEF Bytes

(* A part of the stream from its start is a stream itself.                 *)
LEMMA BytesPrefix ==
    ASSUME NEW S, NEW a \in Seq(S), NEW b \in Seq(S), NEW c, NEW n \in Nat,
           a \o b = Bytes(c, n)
    PROVE  a = Bytes(c, Len(a)) /\ Len(a) + Len(b) = n
  <1>0. Len(a \o b) = Len(a) + Len(b) /\ Len(a) \in Nat /\ Len(b) \in Nat
    BY ConcatProperties, LenProperties
  <1>1. Len(a) + Len(b) = n
    BY <1>0, BytesLen
  <1>2. ASSUME NEW i \in 1..Len(a) PROVE a[i] = <<c, i>>
    <2>1. i \in 1..n /\ i \in 1..Len(a) + Len(b)
      BY <1>0, <1>1
    <2>2. (a \o b)[i] = a[i]
      BY <1>0, <2>1, ConcatProperties
    <2>. QED
      BY <2>1, <2>2, BytesLen
  <1>3. a = [i \in 1..Len(a) |-> a[i]]
    BY LenProperties
  <1>. QED
    BY <1>1, <1>2, <1>3 DEF Bytes

(* The next byte extends the stream.                                       *)
LEMMA BytesNext ==
    ASSUME NEW c, NEW n \in Nat
    PROVE  Append(Bytes(c, n), <<c, n + 1>>) = Bytes(c, n + 1)
  BY DEF Bytes

(* Nothing of a connection yet.                                            *)
LEMMA BytesNone == ASSUME NEW c PROVE Bytes(c, 0) = <<>>
  BY DEF Bytes

(* What the ring keeps of a write: no more than fits, and all that fits.   *)
LEMMA RingWriteKeeps ==
    ASSUME NEW S, NEW s \in Seq(S), NEW d \in Seq(S), Len(s) <= RingCap
    PROVE  /\ RingWrite(s, d) \in Seq(S)
           /\ Len(RingWrite(s, d)) <= RingCap
           /\ Len(s) + Len(d) <= RingCap => RingWrite(s, d) = s \o d
  <1>. DEFINE n == Min({Len(d), RingCap - Len(s)})
  <1>1. Len(s) \in Nat /\ Len(d) \in Nat /\ RingCap \in Nat
    BY LenProperties, SizesAssumption
  <1>2. /\ n \in 0..Len(d) /\ n <= RingCap - Len(s)
        /\ Len(s) + Len(d) <= RingCap => n = Len(d)
    <2>1. RingCap - Len(s) \in Int /\ Len(d) \in Int
      BY <1>1
    <2>2. /\ n \in Int /\ n <= Len(d) /\ n <= RingCap - Len(s)
          /\ n = Len(d) \/ n = RingCap - Len(s)
      BY <2>1, MinPair
    <2>. HIDE DEF n
    <2>. QED
      BY <1>1, <2>2
  <1>3. Front(d, n) \in Seq(S) /\ Len(Front(d, n)) = n
    BY <1>2, Cut
  <1>4. Front(d, Len(d)) = d
    BY CutWhole
  <1>5. RingWrite(s, d) = s \o Front(d, n)
    BY DEF RingWrite
  <1>. HIDE DEF n
  <1>6. s \o Front(d, n) \in Seq(S) /\ Len(s \o Front(d, n)) = Len(s) + n
    BY <1>3, ConcatProperties
  <1>7. Len(s) + Len(d) <= RingCap => Front(d, n) = d
    BY <1>2, <1>4
  <1>8. Len(s) + n <= RingCap
    BY <1>1, <1>2
  <1>. QED
    BY <1>5, <1>6, <1>7, <1>8

(* The amounts receive, transmit and the flush of handle_close move are    *)
(* there at one end and fit at the other.                                  *)
LEMMA Amounts ==
    ASSUME TypeOK
    PROVE  /\ ToRead \in 0..Len(chipRx) /\ ToRead <= RingCap - Len(rx)
           /\ ToSend \in 0..Len(tx) /\ ToSend <= ChipCap - Len(chipTx)
  <1>1. /\ Len(chipRx) \in Nat /\ Len(chipTx) \in Nat /\ Len(rx) \in Nat /\ Len(tx) \in Nat
        /\ RingCap \in Nat /\ ChipCap \in Nat
        /\ Len(rx) <= RingCap /\ Len(chipTx) <= ChipCap
    BY LenProperties, SizesAssumption DEF TypeOK
  <1>2. RingCap - Len(rx) \in Nat /\ ChipCap - Len(chipTx) \in Nat
    BY <1>1
  <1>3. /\ ToRead \in Int /\ ToRead <= Len(chipRx) /\ ToRead <= RingCap - Len(rx)
        /\ ToRead = Len(chipRx) \/ ToRead = RingCap - Len(rx)
    <2>1. Len(chipRx) \in Int /\ RingCap - Len(rx) \in Int
      BY <1>1
    <2>. QED
      BY <2>1, MinPair DEF ToRead
  <1>4. /\ ToSend \in Int /\ ToSend <= Len(tx) /\ ToSend <= ChipCap - Len(chipTx)
        /\ ToSend = Len(tx) \/ ToSend = ChipCap - Len(chipTx)
    <2>1. Len(tx) \in Int /\ ChipCap - Len(chipTx) \in Int
      BY <1>1
    <2>. QED
      BY <2>1, MinPair DEF ToSend
  <1>. QED
    BY <1>1, <1>2, <1>3, <1>4

-----------------------------------------------------------------------------
(* Types and Room, for every action and with link-loss resets.             *)

\* The part of the state that only moving bytes changes.
dataVars == <<rx, tx, bulk, chipRx, chipTx, got, peerGot, resets, conn, sent, written>>

\* The parts of TypeOK about the other variables, and about the bytes.
ControlType ==
    /\ mode \in Modes
    /\ st \in Status \cup {"Free"}
    /\ err \in BOOLEAN /\ close \in BOOLEAN /\ release \in BOOLEAN
    /\ asked \in BOOLEAN /\ timeout \in BOOLEAN
    /\ link \in BOOLEAN
    /\ pc \in {"idle", "service", "run", "sr"}
    /\ seen \in {"Other", "Established", "Terminal"}
    /\ sr \in SR /\ cr \in CR

DataType ==
    /\ rx \in Seq(ByteType) /\ tx \in Seq(ByteType)
    /\ chipRx \in Seq(ByteType) /\ chipTx \in Seq(ByteType)
    /\ got \in Seq(ByteType) /\ peerGot \in Seq(ByteType)
    /\ Len(rx) <= RingCap /\ Len(tx) <= RingCap
    /\ Len(chipRx) <= ChipCap /\ Len(chipTx) <= ChipCap
    /\ bulk \in [kind : {"None", "Receive", "Transmit"}, data : Seq(ByteType)]
    /\ resets \in 0..MaxResets /\ conn \in 0..MaxConns
    /\ sent \in 0..MaxBytes /\ written \in 0..MaxBytes

(* A tick ends in a proper status and command.                             *)
LEMMA AnswerType ==
    ASSUME TypeOK, NEW s \in Status, NEW c \in CR, Answer(s, c)
    PROVE  /\ st' \in Status \cup {"Free"} /\ cr' \in CR /\ pc' = "idle"
           /\ release' \in BOOLEAN /\ err' \in BOOLEAN
  <1>1. st' \in Status \cup {"Free"} /\ cr' \in CR /\ pc' = "idle"
    BY DEF Answer, Settle
  <1>2. release' \in BOOLEAN
    BY DEF TypeOK, Answer, Settle
  <1>3. err' \in BOOLEAN
    BY Zenon DEF TypeOK, Answer
  <1>. QED
    BY <1>1, <1>2, <1>3

(* Only service looks at the link.                                         *)
LEMMA LinkKept == Peer \/ ChipCommand \/ App \/ Tick \/ DmaComplete => UNCHANGED link
  <1>1. Peer => UNCHANGED link
    BY DEF Peer, PeerSyn, PeerConnects, PeerSends, PeerTakes, PeerFin, CloseEnds, PeerFails
  <1>2. App => UNCHANGED link
    BY DEF App, Open, AppStatus, AppRead, AppWrite, AppClose, Reconnect, Rearm, Drop
  <1>3. Tick => UNCHANGED link
    BY DEF Tick, HandleClose, HandleInit, HandleOpening, HandleListening, ReadInterrupts,
           ConnectPending, ConnectingStatus, Receive, Transmit, EstablishedIdle,
           HandleClosing, RunIdle
  <1>4. ChipCommand \/ DmaComplete => UNCHANGED link
    BY DEF ChipCommand, DmaComplete
  <1>. QED
    BY <1>1, <1>2, <1>3, <1>4

(* Every step leaves mode, flags, status and registers in their types.     *)
LEMMA ControlTypeStep == TypeOK /\ [Next]_vars => ControlType'
  <1>. SUFFICES ASSUME TypeOK, [Next]_vars
                PROVE  ControlType'
    OBVIOUS
  <1>. USE DEF TypeOK, ControlType, Status, Closing, Terminal, SR, CR,
               drvVars, ringVars, appVars, chipVars, peerVars, ChipCloses
  <1>1. CASE Peer
    <2>1. ASSUME NEW late \in BOOLEAN, PeerFails(late) PROVE ControlType'
      BY <2>1 DEF PeerFails
    <2>. QED
      BY <1>1, <2>1, SMTT(30) DEF Peer, PeerSyn, PeerConnects, PeerSends, PeerTakes,
         PeerFin, CloseEnds
  <1>2. CASE ChipCommand
    BY <1>2 DEF ChipCommand
  <1>3. CASE App
    <2>1. CASE Open
      BY <2>1 DEF Open
    <2>2. CASE AppStatus
      BY <2>2 DEF AppStatus
    <2>3. CASE AppWrite \/ \E n \in 1..RingCap : AppRead(n)
      BY <2>3 DEF AppWrite, AppRead
    <2>4. CASE AppClose \/ Drop
      <3>1. CASE AppClose
        BY <3>1 DEF AppClose
      <3>2. CASE Drop
        BY <3>2 DEF Drop
      <3>. QED
        BY <2>4, <3>1, <3>2
    <2>5. CASE Reconnect
      <3>1. /\ st' = "Init" /\ err' = FALSE /\ close' = FALSE
            /\ seen' = "Other" /\ asked' = FALSE
            /\ UNCHANGED <<mode, link, release, pc, chipVars>>
        BY <2>5 DEF Reconnect, Rearm
      <3>2. /\ err' \in BOOLEAN /\ close' \in BOOLEAN /\ release' \in BOOLEAN
            /\ asked' \in BOOLEAN /\ timeout' \in BOOLEAN /\ link' \in BOOLEAN
        BY <3>1
      <3>3. /\ mode' \in Modes /\ st' \in Status /\ pc' = pc
            /\ seen' = "Other" /\ sr' \in SR /\ cr' \in CR
        BY <3>1
      <3>. QED
        BY <3>2, <3>3, Zenon
    <2>. QED
      BY <1>3, <2>1, <2>2, <2>3, <2>4, <2>5 DEF App
  <1>4. CASE Service \/ DmaComplete
    <2>1. CASE Service
      BY <2>1 DEF Service
    <2>2. CASE DmaComplete
      BY <2>2 DEF DmaComplete
    <2>. QED
      BY <1>4, <2>1, <2>2
  <1>5. CASE Tick
    <2>1. CASE HandleClose
      <3>1. \E s \in Status, c \in CR : Answer(s, c)
        BY <2>1 DEF HandleClose
      <3>. QED
        BY <2>1, <3>1, AnswerType, ZenonT(30) DEF HandleClose
    <2>2. CASE HandleInit
      <3>1. \E s \in Status, c \in CR : Answer(s, c)
        BY <2>2 DEF HandleInit
      <3>. QED
        BY <2>2, <3>1, AnswerType DEF HandleInit, InitSocket
    <2>3. CASE HandleOpening
      <3>1. \E s \in Status, c \in CR : Answer(s, c)
        BY <2>3 DEF HandleOpening
      <3>. QED
        BY <2>3, <3>1, AnswerType DEF HandleOpening
    <2>4. CASE HandleListening
      <3>1. \E s \in Status, c \in CR : Answer(s, c)
        BY <2>4 DEF HandleListening
      <3>2. timeout' \in BOOLEAN
        BY <2>4, Zenon DEF HandleListening
      <3>. QED
        BY <2>4, <3>1, <3>2, AnswerType DEF HandleListening
    <2>5. CASE ReadInterrupts \/ ConnectPending
      <3>1. CASE ConnectPending
        BY <3>1 DEF ConnectPending
      <3>2. CASE ReadInterrupts /\ timeout
        <4>1. \E s \in Status, c \in CR : Answer(s, c)
          BY <3>2 DEF ReadInterrupts
        <4>. QED
          BY <3>2, <4>1, AnswerType DEF ReadInterrupts
      <3>3. CASE ReadInterrupts /\ ~timeout
        BY <3>3 DEF ReadInterrupts
      <3>. QED
        BY <2>5, <3>1, <3>2, <3>3
    <2>6. CASE ConnectingStatus
      <3>1. \E s \in Status, c \in CR : Answer(s, c)
        BY <2>6 DEF ConnectingStatus
      <3>. QED
        BY <2>6, <3>1, AnswerType DEF ConnectingStatus
    <2>7. CASE Receive \/ Transmit
      <3>1. err' \in BOOLEAN
        BY <2>7 DEF Receive, Transmit
      <3>2. pc' = "idle" /\ UNCHANGED <<mode, link, st, close, release, appVars, chipVars>>
        BY <2>7 DEF Receive, Transmit
      <3>. QED
        BY <3>1, <3>2
    <2>8. CASE EstablishedIdle
      <3>1. \E s \in Status, c \in CR : Answer(s, c)
        BY <2>8 DEF EstablishedIdle
      <3>. QED
        BY <2>8, <3>1, AnswerType DEF EstablishedIdle
    <2>9. CASE HandleClosing
      <3>1. \E s \in Status, c \in CR : Answer(s, c)
        BY <2>9 DEF HandleClosing, Finished
      <3>. QED
        BY <2>9, <3>1, AnswerType DEF HandleClosing
    <2>10. CASE RunIdle
      <3>1. st' \in Status \cup {"Free"}
        BY <2>10 DEF RunIdle, Settle
      <3>2. release' \in BOOLEAN
        BY <2>10 DEF RunIdle, Settle
      <3>. QED
        BY <2>10, <3>1, <3>2 DEF RunIdle
    <2>. QED
      BY <1>5, <2>1, <2>2, <2>3, <2>4, <2>5, <2>6, <2>7, <2>8, <2>9, <2>10 DEF Tick
  <1>6. ASSUME NEW kind \in {"whole", "torn"}, LinkReset(kind) PROVE ControlType'
    <2>1. /\ err' \in {err, FALSE} /\ close' \in {close, FALSE} /\ release' \in {release, FALSE}
          /\ st' \in {st, "Init", "Free"}
      BY <1>6 DEF LinkReset
    <2>2. /\ sr' = "Closed" /\ cr' = "none" /\ timeout' = FALSE /\ link' = FALSE
          /\ pc' = "idle" /\ UNCHANGED <<mode, appVars>>
      BY <1>6 DEF LinkReset
    <2>3. /\ err' \in BOOLEAN /\ close' \in BOOLEAN /\ release' \in BOOLEAN
          /\ asked' \in BOOLEAN /\ timeout' \in BOOLEAN /\ link' \in BOOLEAN
      BY <2>1, <2>2
    <2>4. /\ mode' \in Modes /\ st' \in Status \cup {"Free"} /\ pc' = "idle"
          /\ seen' \in {"Other", "Established", "Terminal"} /\ sr' \in SR /\ cr' \in CR
      BY <2>1, <2>2
    <2>. QED
      BY <2>3, <2>4, Zenon
  <1>7. CASE UNCHANGED vars
    BY <1>7 DEF vars
  <1>. QED
    BY <1>1, <1>2, <1>3, <1>4, <1>5, <1>6, <1>7 DEF Next

\* The steps that move no byte and make no connection.
Quiet ==
    \/ PeerSyn \/ PeerFin \/ AppStatus \/ AppClose \/ Drop \/ Service
    \/ HandleInit \/ HandleOpening \/ HandleListening \/ ReadInterrupts
    \/ ConnectPending \/ ConnectingStatus \/ EstablishedIdle \/ HandleClosing
    \/ RunIdle \/ UNCHANGED vars

(* What these steps leave alone.                                           *)
LEMMA QuietKeepsData == Quiet => UNCHANGED dataVars
  <1>. USE DEF dataVars, vars, drvVars, ringVars, appVars, chipVars, peerVars
  <1>1. PeerSyn \/ PeerFin \/ AppStatus \/ AppClose \/ Drop \/ Service => UNCHANGED dataVars
    BY DEF PeerSyn, PeerFin, AppStatus, AppClose, Drop, Service
  <1>2. HandleInit \/ HandleOpening \/ HandleListening \/ ReadInterrupts
          \/ ConnectPending => UNCHANGED dataVars
    BY DEF HandleInit, HandleOpening, HandleListening, ReadInterrupts, ConnectPending
  <1>3. ConnectingStatus \/ EstablishedIdle \/ HandleClosing \/ RunIdle \/ UNCHANGED vars
          => UNCHANGED dataVars
    BY DEF ConnectingStatus, EstablishedIdle, HandleClosing, RunIdle
  <1>. QED
    BY <1>1, <1>2, <1>3 DEF Quiet

(* Every step is one of these or one of the steps that move bytes.         *)
LEMMA NextCases ==
    ASSUME [Next]_vars
    PROVE  \/ Quiet
           \/ PeerConnects \/ PeerSends \/ PeerTakes \/ CloseEnds
           \/ \E late \in BOOLEAN : PeerFails(late)
           \/ ChipCommand
           \/ Open \/ (\E n \in 1..RingCap : AppRead(n)) \/ AppWrite \/ Reconnect
           \/ HandleClose \/ Receive \/ Transmit \/ DmaComplete
           \/ \E kind \in {"whole", "torn"} : LinkReset(kind)
  BY DEF Next, Peer, App, Tick, Quiet

(* The bytes a write accepts and the peer sends are of their type.         *)
LEMMA NextByte ==
    ASSUME NEW c \in 0..MaxConns, NEW n \in 0..MaxBytes, n < MaxBytes
    PROVE  <<c, n + 1>> \in ByteType /\ n + 1 \in 0..MaxBytes
  BY LimitsAssumption DEF ByteType

(* Every buffer holds bytes, and no more than it has room for.             *)
LEMMA DataTypeStep ==
    ASSUME TypeOK, Room, [Next]_vars
    PROVE  DataType' /\ Room'
  <1>0. DataType /\ Room /\ NoBulk \in [kind : {"None", "Receive", "Transmit"}, data : Seq(ByteType)]
    BY EmptySeq DEF TypeOK, DataType, NoBulk
  <1>a. RingCap \in Nat /\ ChipCap \in Nat
    BY SizesAssumption
  <1>b. /\ Len(rx) \in Nat /\ Len(tx) \in Nat /\ Len(chipRx) \in Nat /\ Len(chipTx) \in Nat
        /\ bulk.data \in Seq(ByteType) /\ Len(bulk.data) \in Nat
    BY <1>0, LenProperties DEF DataType
  <1>c. <<>> \in Seq(ByteType) /\ Len(<<>>) = 0
    BY EmptySeq
  <1>. USE DEF drvVars, ringVars, appVars, chipVars, peerVars, ChipCloses
  <1>1. CASE Quiet
    <2>1. UNCHANGED dataVars
      BY <1>1, QuietKeepsData
    <2>2. pc' # "idle" => bulk = NoBulk
      BY <1>0, <1>1 DEF Room, Quiet, PeerSyn, PeerFin, AppStatus, AppClose, Drop, Service,
           HandleInit, HandleOpening, HandleListening, ReadInterrupts, ConnectPending,
           ConnectingStatus, EstablishedIdle, HandleClosing, RunIdle, vars, Answer, Ticking
    <2>. QED
      BY <1>0, <2>1, <2>2 DEF dataVars, DataType, Room
  <1>2. CASE PeerConnects
    <2>1. conn' \in 0..MaxConns /\ sent' \in 0..MaxBytes /\ written' \in 0..MaxBytes
      BY <1>2, LimitsAssumption DEF TypeOK, PeerConnects
    <2>. QED
      BY <1>0, <1>c, <1>2, <2>1 DEF PeerConnects, DataType, Room
  <1>3. CASE PeerSends
    <2>1. <<conn, sent + 1>> \in ByteType /\ sent' \in 0..MaxBytes
      BY <1>3, NextByte DEF PeerSends, TypeOK
    <2>2. chipRx' \in Seq(ByteType) /\ Len(chipRx') = Len(chipRx) + 1
      BY <1>3, <2>1, AppendProperties DEF PeerSends, TypeOK
    <2>3. Len(chipRx') <= ChipCap
      BY <1>3, <1>a, <1>b, <2>2 DEF PeerSends
    <2>. QED
      BY <1>0, <1>3, <2>1, <2>2, <2>3 DEF PeerSends, DataType, Room
  <1>4. CASE PeerTakes
    <2>1. /\ Head(chipTx) \in ByteType
          /\ chipTx' \in Seq(ByteType) /\ Len(chipTx') = Len(chipTx) - 1
      BY <1>4, HeadTailProperties DEF PeerTakes, TypeOK
    <2>2. peerGot' \in Seq(ByteType)
      BY <1>4, <2>1, AppendProperties DEF PeerTakes, TypeOK
    <2>3. /\ Len(chipTx') <= ChipCap
          /\ bulk.kind = "Transmit" => Len(chipTx') + Len(bulk.data) <= ChipCap
      BY <1>0, <1>a, <1>b, <2>1, SMTT(30) DEF DataType, Room
    <2>. QED
      BY <1>0, <1>4, <2>1, <2>2, <2>3 DEF PeerTakes, DataType, Room
  <1>5. CASE CloseEnds \/ \E late \in BOOLEAN : PeerFails(late)
    <2>1. /\ chipRx' = <<>> /\ chipTx' = <<>>
          /\ UNCHANGED <<rx, tx, got, peerGot, bulk, pc, resets, conn, sent, written>>
      BY <1>5 DEF CloseEnds, PeerFails
    <2>2. bulk.kind = "Transmit" => 0 + Len(bulk.data) <= ChipCap
      BY <1>0, <1>a, <1>b DEF Room
    <2>. QED
      BY <1>0, <1>a, <1>c, <2>1, <2>2 DEF DataType, Room
  <1>6. CASE ChipCommand
    <2>1. /\ chipRx' \in {chipRx, <<>>} /\ chipTx' \in {chipTx, <<>>}
          /\ UNCHANGED <<rx, tx, got, peerGot, bulk, pc, resets, conn, sent, written>>
      BY <1>6 DEF ChipCommand
    <2>2. /\ Len(chipRx') <= ChipCap /\ Len(chipTx') <= ChipCap
          /\ bulk.kind = "Transmit" => Len(chipTx') + Len(bulk.data) <= ChipCap
      BY <1>0, <1>a, <1>b, <1>c, <2>1, SMTT(30) DEF DataType, Room
    <2>. QED
      BY <1>0, <1>c, <2>1, <2>2 DEF DataType, Room
  <1>7. CASE Open \/ Reconnect
    <2>1. /\ rx' = <<>> /\ tx' = <<>>
          /\ UNCHANGED <<chipRx, chipTx, got, peerGot, bulk, pc, resets, conn, sent, written>>
      BY <1>7 DEF Open, Reconnect, Rearm
    <2>. QED
      BY <1>0, <1>a, <1>c, <2>1 DEF DataType, Room
  <1>8. ASSUME NEW n \in 1..RingCap, AppRead(n) PROVE DataType' /\ Room'
    <2>1. n \in 0..Len(rx)
      BY <1>8, <1>b DEF AppRead
    <2>2. /\ Front(rx, n) \in Seq(ByteType) /\ Len(Front(rx, n)) = n
          /\ Rest(rx, n) \in Seq(ByteType) /\ Len(Rest(rx, n)) = Len(rx) - n
      BY <1>0, <2>1, Cut DEF DataType
    <2>3. got' \in Seq(ByteType)
      BY <1>0, <1>8, <2>2, ConcatProperties DEF AppRead, DataType
    <2>4. rx' \in Seq(ByteType) /\ Len(rx') <= RingCap
      BY <1>0, <1>8, <1>a, <1>b, <2>1, <2>2 DEF AppRead, DataType
    <2>. QED
      BY <1>0, <1>8, <2>3, <2>4 DEF AppRead, DataType, Room
  <1>9. CASE AppWrite
    <2>1. <<conn, written + 1>> \in ByteType /\ written' \in 0..MaxBytes
      BY <1>9, NextByte DEF AppWrite, TypeOK
    <2>2. << <<conn, written + 1>> >> \in Seq(ByteType)
      BY <2>1
    <2>3. tx' \in Seq(ByteType) /\ Len(tx') <= RingCap
      BY <1>0, <1>9, <2>2, RingWriteKeeps DEF AppWrite, DataType
    <2>. QED
      BY <1>0, <1>9, <2>1, <2>3 DEF AppWrite, DataType, Room
  <1>10. CASE HandleClose
    <2>1. bulk = NoBulk /\ bulk' = bulk /\ UNCHANGED <<rx, chipRx, got, peerGot, resets, conn, sent, written>>
      BY <1>0, <1>10 DEF HandleClose, Room
    <2>2. CASE st # "Established"
      BY <1>0, <1>10, <2>1, <2>2 DEF HandleClose, DataType, Room, NoBulk
    <2>3. CASE st = "Established"
      <3>1. /\ ToSend \in 0..Len(tx) /\ ToSend <= ChipCap - Len(chipTx)
        BY Amounts
      <3>2. /\ tx' = Rest(tx, ToSend)
            /\ chipTx' = IF sr \in Online THEN chipTx \o Front(tx, ToSend) ELSE chipTx
        BY <1>10, <2>3 DEF HandleClose, ToSend
      <3>3. /\ Front(tx, ToSend) \in Seq(ByteType) /\ Len(Front(tx, ToSend)) = ToSend
            /\ Rest(tx, ToSend) \in Seq(ByteType) /\ Len(Rest(tx, ToSend)) = Len(tx) - ToSend
        BY <1>0, <3>1, Cut DEF DataType
      <3>4. /\ chipTx \o Front(tx, ToSend) \in Seq(ByteType)
            /\ Len(chipTx \o Front(tx, ToSend)) = Len(chipTx) + ToSend
        <4>1. chipTx \in Seq(ByteType)
          BY <1>0 DEF DataType
        <4>. QED
          BY ONLY <3>3, <4>1, ConcatProperties
      <3>5. Len(tx') <= RingCap /\ tx' \in Seq(ByteType)
        BY <1>0, <1>a, <1>b, <3>1, <3>2, <3>3 DEF DataType
      <3>6. Len(chipTx') <= ChipCap /\ chipTx' \in Seq(ByteType)
        BY <1>0, <1>a, <1>b, <3>1, <3>2, <3>4 DEF DataType
      <3>. QED
        BY <1>0, <2>1, <3>5, <3>6 DEF DataType, Room, NoBulk
    <2>. QED
      BY <2>2, <2>3
  <1>11. CASE Receive
    <2>1. ToRead \in 0..Len(chipRx)
      BY Amounts
    <2>2. Front(chipRx, ToRead) \in Seq(ByteType)
      BY <1>0, <2>1, Cut DEF DataType
    <2>3. /\ pc' = "idle" /\ bulk = NoBulk
          /\ UNCHANGED <<rx, tx, chipRx, chipTx, got, peerGot, resets, conn, sent, written>>
      BY <1>0, <1>11 DEF Receive, Room
    <2>4. bulk' = NoBulk \/ bulk' = [kind |-> "Receive", data |-> Front(chipRx, ToRead)]
      BY <1>11, <2>3 DEF Receive
    <2>5. bulk' \in [kind : {"None", "Receive", "Transmit"}, data : Seq(ByteType)]
      BY <1>0, <2>2, <2>4
    <2>6. bulk'.kind # "Transmit" /\ (bulk'.kind = "None" => bulk' = NoBulk)
      BY <2>4 DEF NoBulk
    <2>. QED
      BY <1>0, <2>3, <2>5, <2>6 DEF DataType, Room
  <1>12. CASE Transmit
    <2>1. ToSend \in 0..Len(tx) /\ ToSend <= ChipCap - Len(chipTx)
      BY Amounts
    <2>2. /\ Front(tx, ToSend) \in Seq(ByteType) /\ Len(Front(tx, ToSend)) = ToSend
          /\ Rest(tx, ToSend) \in Seq(ByteType) /\ Len(Rest(tx, ToSend)) = Len(tx) - ToSend
      BY <1>0, <2>1, Cut DEF DataType
    <2>3. /\ pc' = "idle" /\ bulk = NoBulk
          /\ UNCHANGED <<rx, chipRx, chipTx, got, peerGot, resets, conn, sent, written>>
      BY <1>0, <1>12 DEF Transmit, Room
    <2>4. CASE bulk' = NoBulk /\ tx' = tx
      BY <1>0, <2>3, <2>4 DEF DataType, Room, NoBulk
    <2>5. CASE bulk' = [kind |-> "Transmit", data |-> Front(tx, ToSend)] /\ tx' = Rest(tx, ToSend)
      <3>1. Len(tx') <= RingCap /\ tx' \in Seq(ByteType)
        BY <1>0, <1>a, <1>b, <2>1, <2>2, <2>5, SMTT(30) DEF DataType
      <3>2. bulk' \in [kind : {"None", "Receive", "Transmit"}, data : Seq(ByteType)]
        BY <2>2, <2>5
      <3>3. bulk'.kind = "Transmit" /\ Len(chipTx) + Len(bulk'.data) <= ChipCap
        BY <1>a, <1>b, <2>1, <2>2, <2>5
      <3>. QED
        BY <1>0, <2>3, <3>1, <3>2, <3>3 DEF DataType, Room
    <2>. QED
      BY <1>12, <2>3, <2>4, <2>5 DEF Transmit
  <1>13. CASE DmaComplete
    <2>1. /\ bulk' = NoBulk /\ bulk # NoBulk
          /\ UNCHANGED <<tx, got, peerGot, resets, conn, sent, written>>
      BY <1>13 DEF DmaComplete
    <2>2. CASE bulk.kind = "Receive"
      <3>1. rx' \in Seq(ByteType) /\ Len(rx') <= RingCap
        BY <1>0, <1>13, <1>b, <2>2, RingWriteKeeps DEF DmaComplete, DataType
      <3>2. chipRx' \in Seq(ByteType) /\ Len(chipRx') <= ChipCap
        <4>1. chipRx' = SubSeq(chipRx, Len(bulk.data) + 1, Len(chipRx))
          BY <1>13, <2>2 DEF DmaComplete, Rest
        <4>2. \A i \in (Len(bulk.data) + 1)..Len(chipRx) : chipRx[i] \in ByteType
          BY <1>0, <1>b, ElementOfSeq DEF DataType
        <4>3. /\ chipRx' \in Seq(ByteType)
              /\ Len(chipRx') = IF Len(bulk.data) + 1 <= Len(chipRx)
                                THEN Len(chipRx) - (Len(bulk.data) + 1) + 1 ELSE 0
          <5>1. Len(bulk.data) + 1 \in Int /\ Len(chipRx) \in Int
            BY <1>b
          <5>. DEFINE m == Len(bulk.data) + 1
          <5>2. /\ SubSeq(chipRx, m, Len(chipRx)) \in Seq(ByteType)
                /\ Len(SubSeq(chipRx, m, Len(chipRx)))
                     = IF m <= Len(chipRx) THEN Len(chipRx) - m + 1 ELSE 0
            <6>. HIDE DEF m
            <6>1. m \in Int /\ \A i \in m..Len(chipRx) : chipRx[i] \in ByteType
              BY <4>2, <5>1 DEF m
            <6>. QED
              BY <5>1, <6>1, SubSeqProperties
          <5>. QED
            BY <4>1, <5>2
        <4>. QED
          BY <1>0, <1>a, <1>b, <4>3 DEF DataType
      <3>3. chipTx' = chipTx
        BY <1>13, <2>2 DEF DmaComplete
      <3>. QED
        BY <1>0, <2>1, <3>1, <3>2, <3>3 DEF DataType, Room, NoBulk
    <2>3. CASE bulk.kind # "Receive"
      <3>1. bulk.kind = "Transmit" /\ Len(chipTx) + Len(bulk.data) <= ChipCap
        BY <1>0, <2>1, <2>3 DEF DataType, Room
      <3>2. /\ rx' = rx /\ chipRx' = chipRx
            /\ chipTx' = chipTx \/ chipTx' = chipTx \o bulk.data
        BY <1>13, <2>3 DEF DmaComplete
      <3>3. /\ chipTx \o bulk.data \in Seq(ByteType)
            /\ Len(chipTx \o bulk.data) = Len(chipTx) + Len(bulk.data)
        BY <1>0, <1>b, ConcatProperties DEF DataType
      <3>4. chipTx' \in Seq(ByteType) /\ Len(chipTx') <= ChipCap
        BY <1>0, <3>1, <3>2, <3>3 DEF DataType
      <3>. QED
        BY <1>0, <2>1, <3>2, <3>4 DEF DataType, Room, NoBulk
    <2>. QED
      BY <2>2, <2>3
  <1>14. ASSUME NEW kind \in {"whole", "torn"}, LinkReset(kind) PROVE DataType' /\ Room'
    <2>1. /\ chipRx' = <<>> /\ chipTx' = <<>> /\ bulk = NoBulk
          /\ UNCHANGED <<rx, tx, got, peerGot, bulk, conn, sent, written>>
      BY <1>14 DEF LinkReset
    <2>2. resets' \in 0..MaxResets
      BY <1>14, LimitsAssumption DEF LinkReset, TypeOK
    <2>. QED
      BY <1>0, <1>a, <1>c, <2>1, <2>2 DEF DataType, Room, NoBulk
  <1>. QED
    BY <1>1, <1>2, <1>3, <1>4, <1>5, <1>6, <1>7, <1>8, <1>9, <1>10, <1>11, <1>12, <1>13,
       <1>14, NextCases

-----------------------------------------------------------------------------
(* The state machine against the chip: Phase, Fresh and Session while no   *)
(* reset has happened.                                                     *)

(* Steps of the chip and the peer. *)
LEMMA ChipControl ==
    ASSUME TypeOK, Room, Phase, Fresh, Session, RingCap <= Scratch, Peer \/ ChipCommand
    PROVE  Phase' /\ Fresh' /\ Session'
  <1>. USE DEF TypeOK, Room, Phase, Fresh, Session, Status, Terminal, Closing, SR, CR,
               Online, drvVars, ringVars, appVars, chipVars, peerVars
  <1>1. CASE PeerSyn
    BY <1>1 DEF PeerSyn
  <1>2. CASE PeerConnects
    BY <1>2 DEF PeerConnects
  <1>3. CASE PeerSends
    BY <1>3 DEF PeerSends
  <1>4. CASE PeerTakes
    BY <1>4 DEF PeerTakes
  <1>5. CASE PeerFin
    BY <1>5 DEF PeerFin
  <1>6. CASE CloseEnds
    BY <1>6 DEF CloseEnds, ChipCloses
  <1>7. ASSUME NEW late \in BOOLEAN, PeerFails(late) PROVE Phase' /\ Fresh' /\ Session'
    BY <1>7 DEF PeerFails, ChipCloses
  <1>8. CASE ChipCommand
    BY <1>8 DEF ChipCommand, ChipCloses
  <1>. QED
    BY <1>1, <1>2, <1>3, <1>4, <1>5, <1>6, <1>7, <1>8 DEF Peer

(* Steps of the application. *)
LEMMA AppControl ==
    ASSUME TypeOK, Room, Phase, Fresh, Session, RingCap <= Scratch, App
    PROVE  Phase' /\ Fresh' /\ Session'
  <1>. USE DEF TypeOK, Room, Phase, Fresh, Session, Status, Terminal, Closing, SR, CR,
               Online, drvVars, ringVars, appVars, chipVars, peerVars
  <1>1. CASE Open
    BY <1>1 DEF Open
  <1>2. CASE AppStatus
    BY <1>2 DEF AppStatus, AppRuns
  <1>3. CASE AppWrite
    BY <1>3 DEF AppWrite, AppRuns
  <1>4. CASE AppClose
    BY <1>4 DEF AppClose, AppRuns
  <1>5. CASE Reconnect
    BY <1>5 DEF Reconnect, Rearm, AppRuns
  <1>6. CASE Drop
    BY <1>6 DEF Drop, AppRuns
  <1>7. ASSUME NEW n \in 1..RingCap, AppRead(n) PROVE Phase' /\ Fresh' /\ Session'
    BY <1>7 DEF AppRead, AppRuns
  <1>. QED
    BY <1>1, <1>2, <1>3, <1>4, <1>5, <1>6, <1>7 DEF App

(* Steps of a tick. *)
LEMMA TickControl ==
    ASSUME TypeOK, Room, Phase, Fresh, Session, RingCap <= Scratch, Tick
    PROVE  Phase' /\ Fresh' /\ Session'
  <1>. USE DEF TypeOK, Room, Phase, Fresh, Session, Status, Terminal, Closing, SR, CR,
               Online, drvVars, ringVars, appVars, chipVars, peerVars
  <1>1. CASE HandleClose
    BY <1>1 DEF HandleClose, Answer, Settle
  <1>2. CASE HandleInit
    BY <1>2 DEF HandleInit, Answer, Settle, Ticking, InitSocket
  <1>3. CASE HandleOpening
    BY <1>3 DEF HandleOpening, Answer, Settle, Ticking, CommandPending
  <1>4. CASE HandleListening
    BY <1>4 DEF HandleListening, Answer, Settle, Ticking, CommandPending
  <1>5. CASE ReadInterrupts
    BY <1>5 DEF ReadInterrupts, Answer, Settle, Ticking, CommandPending
  <1>6. CASE ConnectPending
    BY <1>6 DEF ConnectPending, Ticking, CommandPending
  <1>7. CASE ConnectingStatus
    BY <1>7 DEF ConnectingStatus, Answer, Settle
  <1>8. CASE Receive
    <2>1. ToRead <= Scratch
      BY Amounts, SizesAssumption, LenProperties, SMTT(30)
    <2>. QED
      BY <1>8, <2>1 DEF Receive
  <1>9. CASE Transmit
    <2>1. ToSend <= Scratch
      BY Amounts, SizesAssumption, LenProperties, SMTT(30)
    <2>. QED
      BY <1>9, <2>1 DEF Transmit
  <1>10. CASE EstablishedIdle
    BY <1>10 DEF EstablishedIdle, Answer, Settle
  <1>11. CASE HandleClosing
    BY <1>11 DEF HandleClosing, Answer, Settle, Finished
  <1>12. CASE RunIdle
    BY <1>12 DEF RunIdle, Settle
  <1>. QED
    BY <1>1, <1>2, <1>3, <1>4, <1>5, <1>6, <1>7, <1>8, <1>9, <1>10, <1>11, <1>12 DEF Tick

(* The end of a transfer. *)
LEMMA DmaControl ==
    ASSUME TypeOK, Room, Phase, Fresh, Session, DmaComplete
    PROVE  Phase' /\ Fresh' /\ Session'
  <1>. USE DEF TypeOK, DmaComplete, Terminal, Online, drvVars, appVars, peerVars
  <1>1. bulk.data \in Seq(ByteType) /\ Len(bulk.data) \in Nat
    BY LenProperties
  <1>2. Rest(<<>>, Len(bulk.data)) = <<>>
    BY <1>1, CutWhole
  <1>3. Phase'
    BY DEF Phase
  <1>4. Fresh'
    BY <1>2 DEF Fresh, Phase, Session
  <1>5. Session'
    BY <1>2 DEF Session, Phase, Fresh
  <1>. QED
    BY <1>3, <1>4, <1>5

(* Every step but a reset.                                                 *)
LEMMA ControlStep ==
    ASSUME TypeOK, Room, Phase, Fresh, Session, RingCap <= Scratch,
           [Next]_vars, resets' = 0
    PROVE  Phase' /\ Fresh' /\ Session'
  <1>1. CASE Peer \/ ChipCommand
    BY <1>1, ChipControl
  <1>2. CASE App
    BY <1>2, AppControl
  <1>3. CASE Tick
    BY <1>3, TickControl
  <1>4. CASE DmaComplete
    BY <1>4, DmaControl
  <1>5. CASE Service
    BY <1>5 DEF Service, Phase, Fresh, Session, drvVars, ringVars, appVars, chipVars
  <1>6. CASE UNCHANGED vars
    BY <1>6 DEF vars, Phase, Fresh, Session, drvVars, ringVars, appVars, chipVars
  <1>7. ASSUME NEW kind \in {"whole", "torn"}, LinkReset(kind) PROVE FALSE
    BY <1>7 DEF LinkReset, TypeOK
  <1>. QED
    BY <1>1, <1>2, <1>3, <1>4, <1>5, <1>6, <1>7 DEF Next

-----------------------------------------------------------------------------
(* The bytes: Streams while no reset has happened.                         *)

(* A piece moved across a boundary of the chain: what a transfer, a read   *)
(* or a flush has moved is still in its place.                             *)
LEMMA Shift ==
    ASSUME NEW S, NEW a \in Seq(S), NEW b \in Seq(S), NEW c \in Seq(S), NEW d \in Seq(S)
    PROVE  /\ a \o (b \o c) \o <<>> \o d = a \o b \o c \o d
           /\ a \o (b \o c) \o <<>> = a \o b \o c
           /\ a \o b \o c \in Seq(S)
  <1>1. b \o c \in Seq(S) /\ a \o b \in Seq(S)
    BY ConcatProperties
  <1>2. a \o (b \o c) = a \o b \o c /\ a \o b \o c \in Seq(S)
    BY <1>1, ConcatAssociative, ConcatProperties, SMTT(30)
  <1>. QED
    BY <1>2, ConcatEmptySeq

(* The same for a piece cut off a sequence.                                *)
LEMMA ShiftCut ==
    ASSUME NEW S, NEW a \in Seq(S), NEW b \in Seq(S), NEW s \in Seq(S), NEW n \in 0..Len(s)
    PROVE  a \o b \o Front(s, n) \o Rest(s, n) = a \o b \o <<>> \o s
  <1>. DEFINE f == Front(s, n)
              r == Rest(s, n)
              p == a \o b
  <1>1. f \in Seq(S) /\ r \in Seq(S)
    BY Cut
  <1>s. f \o r = s
    BY Cut
  <1>2. p \in Seq(S)
    BY ConcatProperties
  <1>. HIDE DEF f, r, p
  <1>3. p \o f \o r = p \o (f \o r)
    BY <1>1, <1>2, ConcatAssociative, SMTT(30)
  <1>4. p \o <<>> = p
    BY <1>2, ConcatEmptySeq
  <1>. QED
    BY <1>s, <1>3, <1>4 DEF f, r, p

(* Taking the head of one piece to the end of the piece before it.         *)
LEMMA TakeHead ==
    ASSUME NEW S, NEW a \in Seq(S), NEW s \in Seq(S), s # <<>>
    PROVE  Append(a, Head(s)) \o Tail(s) = a \o s
  <1>1. Head(s) \in S /\ Tail(s) \in Seq(S)
    BY HeadTailProperties
  <1>2. Append(a, Head(s)) = a \o <<Head(s)>> /\ <<Head(s)>> \in Seq(S)
    BY <1>1, AppendIsConcat
  <1>3. <<Head(s)>> \o Tail(s) = s
    <2>1. 1 \in 1..Len(s) /\ Len(s) \in 1..Len(s)
      BY EmptySeq
    <2>2. SubSeq(s, 1, Len(s)) = <<s[1]>> \o SubSeq(s, 1 + 1, Len(s))
      BY <2>1, SubSeqRecursiveFirst
    <2>3. SubSeq(s, 1, Len(s)) = s /\ Tail(s) = SubSeq(s, 2, Len(s)) /\ Head(s) = s[1]
      BY SubSeqFull, TailIsSubSeq
    <2>. QED
      BY <2>2, <2>3
  <1>. QED
    BY <1>1, <1>2, <1>3, ConcatAssociative

(* A byte that arrives at the end does not change the bytes in front.      *)
LEMMA FrontAppend ==
    ASSUME NEW S, NEW s \in Seq(S), NEW e \in S, NEW n \in 0..Len(s)
    PROVE  Front(Append(s, e), n) = Front(s, n)
  BY DEF Front

(* The types of all pieces, and what is in flight without a transfer.      *)
LEMMA Pieces ==
    ASSUME TypeOK
    PROVE  /\ got \in Seq(ByteType) /\ rx \in Seq(ByteType) /\ chipRx \in Seq(ByteType)
           /\ peerGot \in Seq(ByteType) /\ chipTx \in Seq(ByteType) /\ tx \in Seq(ByteType)
           /\ Arriving \in Seq(ByteType) /\ InFlight \in Seq(ByteType)
           /\ <<>> \in Seq(ByteType) /\ Len(<<>>) = 0
           /\ bulk = NoBulk => Arriving = <<>> /\ InFlight = <<>>
           /\ sent \in Nat /\ written \in Nat
  <1>1. <<>> \in Seq(ByteType) /\ Len(<<>>) = 0
    BY EmptySeq
  <1>2. Arriving \in Seq(ByteType) /\ InFlight \in Seq(ByteType)
    BY <1>1 DEF TypeOK, Arriving, InFlight
  <1>3. bulk = NoBulk => Arriving = <<>> /\ InFlight = <<>>
    BY DEF Arriving, InFlight, NoBulk
  <1>. QED
    BY <1>1, <1>2, <1>3 DEF TypeOK

(* What the application has read is a prefix of the stream.                *)
LEMMA GotStream ==
    ASSUME TypeOK, Streams
    PROVE  got = Bytes(conn, Len(got)) /\ Len(got) \in Nat
  <1>. DEFINE r == rx \o Arriving
              n == Len(got \o rx \o Arriving)
  <1>1. got \in Seq(ByteType) /\ rx \in Seq(ByteType) /\ Arriving \in Seq(ByteType)
    BY Pieces
  <1>2. r \in Seq(ByteType) /\ n \in Nat
    BY <1>1, ConcatProperties, LenProperties
  <1>3. (got \o rx) \o Arriving = got \o (rx \o Arriving)
    BY ONLY <1>1, ConcatAssociative, SMTT(30)
  <1>4. got \o r = Bytes(conn, n)
    BY <1>3 DEF Streams
  <1>. HIDE DEF r, n
  <1>5. got = Bytes(conn, Len(got))
    BY ONLY <1>1, <1>2, <1>4, BytesPrefix
  <1>. QED
    BY <1>1, <1>5, LenProperties

(* Steps that leave the bytes alone, or only take the chip's away.         *)
LEMMA QuietStreams ==
    ASSUME TypeOK, Streams,
           UNCHANGED <<rx, tx, bulk, got, peerGot, conn, sent, written>>,
           sr' \in Online => sr \in Online /\ UNCHANGED <<chipRx, chipTx>>
    PROVE  Streams'
  <1>1. Arriving' = Arriving /\ InFlight' = InFlight
    BY DEF Arriving, InFlight
  <1>. QED
    BY <1>1 DEF Streams

(* A new connection starts with nothing anywhere.                          *)
LEMMA ConnectStreams ==
    ASSUME TypeOK, Fresh, PeerConnects
    PROVE  Streams'
  <1>1. /\ rx = <<>> /\ tx = <<>> /\ bulk = NoBulk /\ chipRx = <<>> /\ chipTx = <<>>
    BY DEF Fresh, PeerConnects, Online
  <1>2. /\ UNCHANGED <<rx, tx, bulk, chipRx, chipTx>>
        /\ got' = <<>> /\ peerGot' = <<>> /\ sent' = 0 /\ written' = 0
    BY DEF PeerConnects, ringVars
  <1>3. Arriving' = <<>> /\ InFlight' = <<>>
    BY <1>1, <1>2 DEF Arriving, InFlight, NoBulk
  <1>4. <<>> \o <<>> = <<>> /\ Len(<<>>) = 0 /\ Front(<<>>, 0) = <<>>
    BY ConcatEmptySeq, EmptySeq, CutWhole
  <1>5. Bytes(conn', 0) = <<>>
    BY BytesNone
  <1>. QED
    BY <1>1, <1>2, <1>3, <1>4, <1>5, SizesAssumption DEF Streams

(* A byte the peer sends joins the received stream at its end.             *)
LEMMA SendStreams ==
    ASSUME TypeOK, Streams, PeerSends
    PROVE  Streams'
  <1>. DEFINE b == <<conn, sent + 1>>
  <1>1. /\ sr \in Online /\ sr' = sr /\ sent' = sent + 1 /\ chipRx' = Append(chipRx, b)
        /\ UNCHANGED <<rx, tx, bulk, got, peerGot, conn, written, chipTx>>
    BY DEF PeerSends, Online, ringVars, appVars
  <1>2. Arriving' = Arriving /\ InFlight' = InFlight
    BY <1>1 DEF Arriving, InFlight
  <1>3. b \in ByteType
    BY NextByte DEF PeerSends, TypeOK
  <1>. HIDE DEF b
  <1>4. got \o rx \o chipRx' = Bytes(conn, sent + 1)
    <2>1. got \o rx \in Seq(ByteType)
      BY Pieces, ConcatProperties
    <2>2. chipRx' = chipRx \o <<b>> /\ <<b>> \in Seq(ByteType)
      BY <1>1, <1>3, Pieces, AppendIsConcat
    <2>3. (got \o rx) \o (chipRx \o <<b>>) = ((got \o rx) \o chipRx) \o <<b>>
      <3>1. chipRx \in Seq(ByteType)
        BY Pieces
      <3>. QED
        BY ONLY <2>1, <2>2, <3>1, ConcatAssociative
    <2>4. got \o rx \o chipRx = Bytes(conn, sent) /\ got \o rx \o chipRx \in Seq(ByteType)
      BY <1>1, <2>1, Pieces, ConcatProperties DEF Streams
    <2>5. Bytes(conn, sent) \o <<b>> = Append(Bytes(conn, sent), b)
      BY <1>3, <2>4, AppendIsConcat
    <2>. QED
      BY <2>2, <2>3, <2>4, <2>5, Pieces, BytesNext DEF b
  <1>5. Len(Arriving) <= Len(chipRx') /\ Arriving = Front(chipRx', Len(Arriving))
    <2>1. /\ Len(Arriving) \in Nat /\ Len(chipRx) \in Nat /\ Len(Arriving) <= Len(chipRx)
          /\ Arriving = Front(chipRx, Len(Arriving))
      BY <1>1, Pieces, LenProperties DEF Streams
    <2>2. Len(chipRx') = Len(chipRx) + 1
      BY <1>1, <1>3, Pieces, AppendProperties
    <2>3. Front(chipRx', Len(Arriving)) = Front(chipRx, Len(Arriving))
      BY <1>1, <1>3, <2>1, Pieces, FrontAppend
    <2>. QED
      BY <2>1, <2>2, <2>3
  <1>. QED
    BY <1>1, <1>2, <1>4, <1>5 DEF Streams

(* A byte the peer takes moves from the chip to the end of what it has.    *)
LEMMA TakeStreams ==
    ASSUME TypeOK, Streams, PeerTakes
    PROVE  Streams'
  <1>1. /\ sr \in Online /\ sr' = sr /\ chipTx # <<>>
        /\ peerGot' = Append(peerGot, Head(chipTx)) /\ chipTx' = Tail(chipTx)
        /\ UNCHANGED <<rx, tx, bulk, got, conn, sent, written, chipRx>>
    BY DEF PeerTakes, ringVars, appVars
  <1>2. Arriving' = Arriving /\ InFlight' = InFlight
    BY <1>1 DEF Arriving, InFlight
  <1>3. peerGot' \o chipTx' = peerGot \o chipTx
    BY <1>1, Pieces, TakeHead
  <1>4. peerGot' \o chipTx' \o InFlight \o tx = Bytes(conn, written)
    BY <1>1, <1>3 DEF Streams
  <1>5. peerGot' = Bytes(conn, Len(peerGot'))
    <2>1. peerGot' \in Seq(ByteType) /\ chipTx' \in Seq(ByteType)
      BY <1>1, Pieces, HeadTailProperties, AppendProperties
    <2>. DEFINE p == peerGot'
                q == chipTx'
    <2>2. p \o q \o InFlight \o tx = Bytes(conn, written)
      BY <1>4
    <2>3. p \in Seq(ByteType) /\ q \in Seq(ByteType)
      BY <2>1
    <2>. HIDE DEF p, q
    <2>4. InFlight \in Seq(ByteType) /\ tx \in Seq(ByteType) /\ written \in Nat
      BY Pieces
    <2>. DEFINE r == q \o InFlight
    <2>5. p \o q \o InFlight = p \o r
      BY <2>3, <2>4, ConcatAssociative, SMTT(30)
    <2>6. r \in Seq(ByteType)
      BY <2>3, <2>4, ConcatProperties
    <2>. HIDE DEF r
    <2>7. (p \o r) \o tx = p \o (r \o tx)
      <3>1. tx \in Seq(ByteType)
        BY <2>4
      <3>. QED
        BY <2>3, <2>6, <3>1, ConcatAssociative, SMTT(30)
    <2>. DEFINE u == r \o tx
    <2>8. u \in Seq(ByteType)
      BY <2>4, <2>6, ConcatProperties
    <2>9. p \o u = Bytes(conn, written)
      BY <2>2, <2>5, <2>7
    <2>. HIDE DEF u
    <2>10. p = Bytes(conn, Len(p))
      BY <2>3, <2>4, <2>8, <2>9, BytesPrefix
    <2>. QED
      BY <2>10 DEF p
  <1>. QED
    BY <1>1, <1>2, <1>4, <1>5 DEF Streams

(* open and reconnect empty rings that hold nothing of a connection that   *)
(* is still up.                                                            *)
LEMMA ClearStreams ==
    ASSUME TypeOK, Room, Phase, Fresh, Session, Streams, Open \/ Reconnect
    PROVE  Streams'
  <1>1. /\ rx' = <<>> /\ tx' = <<>>
        /\ UNCHANGED <<bulk, got, peerGot, conn, sent, written, sr, chipRx, chipTx>>
    BY DEF Open, Reconnect, Rearm, chipVars, peerVars
  <1>2. st \in {"Free", "ClosingDueToError"} \cup Terminal
    BY DEF Open, Reconnect, Session, Terminal
  <1>3. bulk = NoBulk
    BY <1>2 DEF Session, Terminal
  <1>4. sr \in Online => rx = <<>> /\ tx = <<>>
    BY <1>2 DEF Phase, Fresh, Online
  <1>5. Arriving = <<>> /\ InFlight = <<>> /\ Arriving' = <<>> /\ InFlight' = <<>>
    BY <1>1, <1>3 DEF Arriving, InFlight, NoBulk
  <1>6. got \o <<>> \o <<>> = Bytes(conn, Len(got \o <<>> \o <<>>))
    <2>1. got \o <<>> = got /\ got \o rx \o <<>> = got \o rx
      BY Pieces, ConcatProperties, ConcatEmptySeq
    <2>2. got \o rx = Bytes(conn, Len(got \o rx)) /\ Len(got \o rx) \in Nat
      BY <1>5, <2>1, Pieces, ConcatProperties DEF Streams
    <2>3. got \in Seq(ByteType) /\ rx \in Seq(ByteType)
      BY Pieces
    <2>4. got = Bytes(conn, Len(got))
      BY ONLY <2>2, <2>3, BytesPrefix, ZenonT(30)
    <2>. QED
      BY <2>1, <2>4
  <1>. QED
    <2>1. Len(<<>>) = 0 /\ RingCap \in Nat
      BY SizesAssumption, EmptySeq
    <2>2. sr \in Online => UNCHANGED <<rx, tx>>
      BY <1>1, <1>4
    <2>3. Arriving' = Arriving /\ InFlight' = InFlight
      BY <1>5
    <2>4. got' \o rx' \o Arriving' = Bytes(conn', Len(got' \o rx' \o Arriving'))
      BY <1>1, <1>5, <1>6
    <2>5. Len(rx') + Len(Arriving') <= RingCap
      BY <1>1, <1>5, <2>1
    <2>. QED
      BY <1>1, <2>2, <2>3, <2>4, <2>5 DEF Streams

(* What the application reads moves from the ring to the end of what it    *)
(* has.                                                                    *)
LEMMA ReadStreams ==
    ASSUME TypeOK, Streams, NEW n \in 1..RingCap, AppRead(n)
    PROVE  Streams'
  <1>1. /\ got' = got \o Front(rx, n) /\ rx' = Rest(rx, n) /\ n <= Len(rx)
        /\ UNCHANGED <<bulk, tx, peerGot, conn, sent, written, sr, chipRx, chipTx>>
    BY DEF AppRead, chipVars, peerVars
  <1>2. Arriving' = Arriving /\ InFlight' = InFlight
    BY <1>1 DEF Arriving, InFlight
  <1>3. n \in 0..Len(rx) /\ Len(rx) \in Nat /\ Len(Arriving) \in Nat
    BY <1>1, Pieces, LenProperties
  <1>4. /\ Front(rx, n) \in Seq(ByteType) /\ Rest(rx, n) \in Seq(ByteType)
        /\ Len(Rest(rx, n)) = Len(rx) - n /\ Front(rx, n) \o Rest(rx, n) = rx
    BY <1>3, Pieces, Cut
  <1>5. got' \o rx' = got \o rx
    <2>1. got \in Seq(ByteType)
      BY Pieces
    <2>2. (got \o Front(rx, n)) \o Rest(rx, n) = got \o (Front(rx, n) \o Rest(rx, n))
      <3>. DEFINE f == Front(rx, n)
                  r == Rest(rx, n)
      <3>1. f \in Seq(ByteType) /\ r \in Seq(ByteType)
        BY <1>4
      <3>. HIDE DEF f, r
      <3>2. (got \o f) \o r = got \o (f \o r)
        BY <2>1, <3>1, ConcatAssociative
      <3>. QED
        BY <3>2 DEF f, r
    <2>. QED
      BY <1>1, <1>4, <2>2
  <1>6. Len(rx') + Len(Arriving) <= RingCap
    BY <1>1, <1>3, <1>4, SizesAssumption DEF Streams
  <1>. QED
    BY <1>1, <1>2, <1>5, <1>6 DEF Streams

(* A byte write accepts joins the sent stream at its end.                  *)
LEMMA WriteStreams ==
    ASSUME TypeOK, Streams, AppWrite
    PROVE  Streams'
  <1>. DEFINE b == <<conn, written + 1>>
              s == peerGot \o chipTx \o InFlight
  <1>1. /\ tx' = RingWrite(tx, <<b>>) /\ written' = written + 1
        /\ written < MaxBytes /\ Len(tx) < RingCap
        /\ UNCHANGED <<bulk, rx, got, peerGot, conn, sent, sr, chipRx, chipTx>>
    BY DEF AppWrite, chipVars, peerVars
  <1>2. Arriving' = Arriving /\ InFlight' = InFlight
    BY <1>1 DEF Arriving, InFlight
  <1>3. b \in ByteType
    BY <1>1, NextByte DEF TypeOK
  <1>. HIDE DEF b
  <1>4. tx' = tx \o <<b>> /\ <<b>> \in Seq(ByteType)
    <2>1. <<b>> \in Seq(ByteType) /\ Len(<<b>>) = 1 /\ Len(tx) \in Nat
      BY <1>3, Pieces, LenProperties
    <2>2. Len(tx) <= RingCap /\ Len(tx) + Len(<<b>>) <= RingCap
      BY <1>1, <2>1, SizesAssumption
    <2>. QED
      BY <1>1, <2>1, <2>2, Pieces, RingWriteKeeps
  <1>5. sr \in Online => s \o tx' = Bytes(conn, written + 1)
    <2>1. s \in Seq(ByteType)
      BY Pieces, Shift
    <2>2. s \o (tx \o <<b>>) = (s \o tx) \o <<b>>
      <3>1. tx \in Seq(ByteType)
        BY Pieces
      <3>. HIDE DEF s
      <3>. QED
        BY ONLY <1>4, <2>1, <3>1, ConcatAssociative
    <2>3. s \o tx \in Seq(ByteType)
      BY <2>1, Pieces, ConcatProperties
    <2>4. (s \o tx) \o <<b>> = Append(s \o tx, b)
      BY <1>3, <2>3, AppendIsConcat
    <2>5. sr \in Online => s \o tx = Bytes(conn, written)
      BY DEF Streams
    <2>. HIDE DEF s
    <2>. QED
      BY <1>4, <2>2, <2>4, <2>5, Pieces, BytesNext DEF b
  <1>. QED
    BY <1>1, <1>2, <1>5 DEF Streams

(* The flush of handle_close moves bytes from the ring to the chip.        *)
LEMMA FlushStreams ==
    ASSUME TypeOK, Room, Streams, HandleClose
    PROVE  Streams'
  <1>1. /\ bulk = NoBulk
        /\ UNCHANGED <<bulk, rx, got, peerGot, conn, sent, written, sr, chipRx>>
    BY DEF HandleClose, Room, appVars, peerVars
  <1>2. Arriving' = Arriving /\ InFlight = <<>> /\ InFlight' = <<>>
    BY <1>1 DEF Arriving, InFlight, NoBulk
  <1>3. sr \in Online => peerGot \o chipTx' \o <<>> \o tx' = peerGot \o chipTx \o <<>> \o tx
    <2>1. CASE st # "Established"
      BY <2>1 DEF HandleClose
    <2>2. CASE st = "Established"
      <3>1. ToSend \in 0..Len(tx)
        BY Amounts
      <3>2. /\ tx' = Rest(tx, ToSend)
            /\ sr \in Online => chipTx' = chipTx \o Front(tx, ToSend)
        BY <2>2 DEF HandleClose, ToSend
      <3>3. peerGot \in Seq(ByteType) /\ chipTx \in Seq(ByteType) /\ tx \in Seq(ByteType)
        BY Pieces
      <3>4. peerGot \o (chipTx \o Front(tx, ToSend)) \o <<>> \o Rest(tx, ToSend)
              = peerGot \o chipTx \o <<>> \o tx
        <4>. DEFINE f == Front(tx, ToSend)
                    r == Rest(tx, ToSend)
        <4>1. f \in Seq(ByteType) /\ r \in Seq(ByteType)
          BY <3>1, <3>3, Cut
        <4>2. peerGot \o chipTx \o f \o r = peerGot \o chipTx \o <<>> \o tx
          BY ONLY <3>1, <3>3, ShiftCut, SMTT(30)
        <4>. HIDE DEF f, r
        <4>3. (peerGot \o chipTx) \o f = peerGot \o (chipTx \o f)
          BY ONLY <3>3, <4>1, ConcatAssociative, SMTT(30)
        <4>4. peerGot \o (chipTx \o f) \o <<>> = peerGot \o (chipTx \o f)
          BY <3>3, <4>1, ConcatProperties, ConcatEmptySeq
        <4>. QED
          BY <4>2, <4>3, <4>4 DEF f, r
      <3>. QED
        BY <3>2, <3>4
    <2>. QED
      BY <2>1, <2>2
  <1>. QED
    BY <1>1, <1>2, <1>3 DEF Streams

(* receive captures the oldest bytes on the chip.                          *)
LEMMA ReceiveStreams ==
    ASSUME TypeOK, Room, Streams, RingCap <= Scratch, Receive
    PROVE  Streams'
  <1>. DEFINE f == Front(chipRx, ToRead)
              r == Rest(chipRx, ToRead)
  <1>1. ToRead \in 0..Len(chipRx) /\ ToRead <= RingCap - Len(rx) /\ ToRead <= Scratch
    BY Amounts, SizesAssumption, Pieces, LenProperties, SMTT(30)
  <1>2. /\ bulk' = [kind |-> "Receive", data |-> f] /\ bulk = NoBulk
        /\ sr \in Online /\ sr' = sr
        /\ UNCHANGED <<rx, tx, got, peerGot, conn, sent, written, chipRx, chipTx>>
    BY <1>1 DEF Receive, Room, Online, ringVars, appVars, chipVars, peerVars
  <1>3. Arriving' = f /\ InFlight = <<>> /\ InFlight' = <<>>
    BY <1>2 DEF Arriving, InFlight, NoBulk
  <1>4. f \in Seq(ByteType) /\ r \in Seq(ByteType) /\ Len(f) = ToRead
    BY <1>1, Pieces, Cut
  <1>5. f \o r = chipRx
    BY <1>1, Pieces, Cut
  <1>. HIDE DEF f, r
  <1>6. got \o rx \o f = Bytes(conn, Len(got \o rx \o f))
    <2>. DEFINE g == got \o rx
                h == g \o f
    <2>1. g \in Seq(ByteType)
      BY Pieces, ConcatProperties
    <2>2. g \o (f \o r) = Bytes(conn, sent)
      BY <1>2, <1>5 DEF Streams
    <2>. HIDE DEF g
    <2>3. h \in Seq(ByteType)
      BY <1>4, <2>1, ConcatProperties
    <2>4. (g \o f) \o r = g \o (f \o r)
      BY <1>4, <2>1, ConcatAssociative, SMTT(30)
    <2>5. h \o r = Bytes(conn, sent)
      BY <2>2, <2>4
    <2>. HIDE DEF h
    <2>6. sent \in Nat
      BY Pieces
    <2>7. h = Bytes(conn, Len(h))
      BY <1>4, <2>3, <2>5, <2>6, BytesPrefix
    <2>. QED
      BY <2>7 DEF g, h
  <1>7. Len(rx) + Len(f) <= RingCap /\ Len(f) <= Len(chipRx)
    BY <1>1, <1>4, Pieces, LenProperties, SizesAssumption, SMTT(30)
  <1>8. f = Front(chipRx, Len(f))
    BY <1>4 DEF f
  <1>. QED
    BY <1>2, <1>3, <1>6, <1>7, <1>8 DEF Streams

(* transmit moves bytes from the ring to the scratch buffer.               *)
LEMMA TransmitStreams ==
    ASSUME TypeOK, Room, Streams, RingCap <= Scratch, Transmit
    PROVE  Streams'
  <1>1. ToSend \in 0..Len(tx) /\ ToSend <= Scratch
    BY Amounts, SizesAssumption, Pieces, LenProperties, SMTT(30) DEF TypeOK
  <1>2. /\ bulk' = [kind |-> "Transmit", data |-> Front(tx, ToSend)]
        /\ tx' = Rest(tx, ToSend) /\ bulk = NoBulk
        /\ UNCHANGED <<rx, got, peerGot, conn, sent, written, sr, chipRx, chipTx>>
    BY <1>1 DEF Transmit, Room, appVars, chipVars, peerVars
  <1>3. /\ InFlight' = Front(tx, ToSend) /\ InFlight = <<>>
        /\ Arriving = <<>> /\ Arriving' = <<>>
    BY <1>2 DEF Arriving, InFlight, NoBulk
  <1>4. peerGot \in Seq(ByteType) /\ chipTx \in Seq(ByteType) /\ tx \in Seq(ByteType)
    BY Pieces
  <1>5. peerGot \o chipTx \o Front(tx, ToSend) \o Rest(tx, ToSend)
          = peerGot \o chipTx \o <<>> \o tx
    BY ONLY <1>1, <1>4, ShiftCut, SMTT(30)
  <1>. QED
    BY <1>2, <1>3, <1>5 DEF Streams

(* dma_complete moves the captured bytes into the ring and off the chip,   *)
(* or the staged ones onto the chip.                                       *)
LEMMA DmaStreams ==
    ASSUME TypeOK, Room, Fresh, Streams, DmaComplete
    PROVE  Streams'
  <1>1. /\ bulk' = NoBulk /\ bulk # NoBulk
        /\ UNCHANGED <<tx, got, peerGot, conn, sent, written, sr>>
    BY DEF DmaComplete, appVars, peerVars
  <1>2. Arriving' = <<>> /\ InFlight' = <<>> /\ Len(<<>>) = 0
    BY <1>1, EmptySeq DEF Arriving, InFlight, NoBulk
  <1>3. Front(chipRx', 0) = <<>>
    BY SubSeqEmpty DEF Front
  <1>4. CASE bulk.kind = "Receive"
    <2>. DEFINE d == bulk.data
    <2>1. Arriving = d /\ InFlight = <<>>
      BY <1>4 DEF Arriving, InFlight
    <2>2. /\ rx' = RingWrite(rx, d) /\ chipRx' = Rest(chipRx, Len(d)) /\ chipTx' = chipTx
      BY <1>4 DEF DmaComplete
    <2>3. d \in Seq(ByteType) /\ Len(rx) + Len(d) <= RingCap /\ Len(rx) <= RingCap
      BY <2>1, Pieces DEF Streams, TypeOK
    <2>. HIDE DEF d
    <2>4. rx' = rx \o d
      BY <2>2, <2>3, Pieces, RingWriteKeeps
    <2>5. got \o rx' \o <<>> = got \o rx \o d
      <3>1. got \in Seq(ByteType) /\ rx \in Seq(ByteType)
        BY Pieces
      <3>2. got \o (rx \o d) \o <<>> = got \o rx \o d
        BY ONLY <2>3, <3>1, Shift, SMTT(30)
      <3>. QED
        BY <2>4, <3>2
    <2>6. sr \in Online => got \o rx' \o chipRx' = got \o rx \o chipRx
      <3>. SUFFICES ASSUME sr \in Online PROVE got \o rx' \o chipRx' = got \o rx \o chipRx
        OBVIOUS
      <3>1. got \in Seq(ByteType) /\ rx \in Seq(ByteType) /\ chipRx \in Seq(ByteType)
        BY Pieces
      <3>2. Len(d) \in 0..Len(chipRx)
        BY <2>1, <2>3, <3>1, LenProperties DEF Streams
      <3>3. d = Front(chipRx, Len(d))
        BY <2>1 DEF Streams
      <3>4. got \o (rx \o Front(chipRx, Len(d))) \o Rest(chipRx, Len(d)) = got \o rx \o chipRx
        <4>. DEFINE f == Front(chipRx, Len(d))
                    r == Rest(chipRx, Len(d))
                    g == got \o rx
        <4>1. f \in Seq(ByteType) /\ r \in Seq(ByteType)
          BY <3>1, <3>2, Cut
        <4>2. f \o r = chipRx
          BY <3>1, <3>2, Cut
        <4>. HIDE DEF f, r
        <4>3. (got \o rx) \o f = got \o (rx \o f)
          BY ONLY <3>1, <4>1, ConcatAssociative, SMTT(30)
        <4>4. g \in Seq(ByteType)
          BY <3>1, ConcatProperties
        <4>. HIDE DEF g
        <4>5. (g \o f) \o r = g \o (f \o r)
          BY ONLY <4>1, <4>4, ConcatAssociative
        <4>. QED
          BY <4>2, <4>3, <4>5 DEF f, r, g
      <3>. QED
        BY <2>2, <2>4, <3>3, <3>4
    <2>7. chipRx' \in Seq(ByteType) /\ Len(chipRx') \in Nat
      <3>1. chipRx' \in Seq(ByteType)
        BY DataTypeStep DEF Next, DataType
      <3>. QED
        BY <3>1, LenProperties
    <2>8. Len(rx') + Len(<<>>) <= RingCap
      BY DataTypeStep, <1>2 DEF Next, DataType
    <2>9. sr \in Online => Len(<<>>) <= Len(chipRx')
      BY <1>2, <2>7
    <2>. QED
      BY <1>1, <1>2, <1>3, <2>1, <2>2, <2>5, <2>6, <2>8, <2>9 DEF Streams
  <1>5. CASE bulk.kind # "Receive"
    <2>. DEFINE d == bulk.data
    <2>1. bulk.kind = "Transmit"
      BY <1>1, <1>5 DEF TypeOK, Room
    <2>2. Arriving = <<>> /\ InFlight = d
      BY <2>1 DEF Arriving, InFlight
    <2>3. /\ rx' = rx /\ chipRx' = chipRx
          /\ sr \in Online => chipTx' = chipTx \o d
      BY <1>5 DEF DmaComplete
    <2>4. /\ d \in Seq(ByteType) /\ tx \in Seq(ByteType)
          /\ peerGot \in Seq(ByteType) /\ chipTx \in Seq(ByteType)
      BY <2>2, Pieces
    <2>. HIDE DEF d
    <2>5. peerGot \o (chipTx \o d) \o <<>> \o tx = peerGot \o chipTx \o d \o tx
      BY ONLY <2>4, Shift, SMTT(30)
    <2>. QED
      BY <1>1, <1>2, <2>2, <2>3, <2>5 DEF Streams
  <1>. QED
    BY <1>4, <1>5

(* Every step but a reset.                                                 *)
LEMMA StreamStep ==
    ASSUME TypeOK, Room, Phase, Fresh, Session, Streams, RingCap <= Scratch,
           [Next]_vars, resets' = 0
    PROVE  Streams'
  <1>1. CASE Quiet
    <2>1. UNCHANGED dataVars
      BY <1>1, QuietKeepsData
    <2>2. sr' \in Online => sr \in Online
      BY <1>1 DEF Quiet, PeerSyn, PeerFin, AppStatus, AppClose, Drop, Service,
           HandleInit, HandleOpening, HandleListening, ReadInterrupts, ConnectPending,
           ConnectingStatus, EstablishedIdle, HandleClosing, RunIdle, vars, chipVars, Online
    <2>. QED
      BY <2>1, <2>2, QuietStreams DEF dataVars
  <1>2. CASE CloseEnds \/ (\E late \in BOOLEAN : PeerFails(late)) \/ ChipCommand
    <2>1. UNCHANGED <<rx, tx, bulk, got, peerGot, conn, sent, written>>
      BY <1>2 DEF CloseEnds, PeerFails, ChipCommand, ringVars, appVars, peerVars
    <2>2. sr' \in Online => sr \in Online /\ UNCHANGED <<chipRx, chipTx>>
      BY <1>2 DEF CloseEnds, PeerFails, ChipCommand, ChipCloses, Online
    <2>. QED
      BY <2>1, <2>2, QuietStreams
  <1>3. ASSUME NEW kind \in {"whole", "torn"}, LinkReset(kind) PROVE FALSE
    BY <1>3 DEF LinkReset, TypeOK
  <1>. QED
    BY <1>1, <1>2, <1>3, NextCases, ConnectStreams, SendStreams, TakeStreams, ClearStreams,
       ReadStreams, WriteStreams, FlushStreams, ReceiveStreams, TransmitStreams, DmaStreams

(* Initially nothing is open, on its way or on the chip.                   *)
LEMMA InitHolds == Init => TypeOK /\ Room /\ Phase /\ Fresh /\ Session /\ Streams
  <1>. SUFFICES ASSUME Init PROVE TypeOK /\ Room /\ Phase /\ Fresh /\ Session /\ Streams
    OBVIOUS
  <1>0. <<>> \in Seq(ByteType) /\ Len(<<>>) = 0 /\ RingCap \in Nat /\ ChipCap \in Nat
    BY EmptySeq, SizesAssumption
  <1>1. ControlType /\ DataType
    <2>1. ControlType
      BY DEF Init, ControlType, Status, SR, CR
    <2>2. bulk \in [kind : {"None", "Receive", "Transmit"}, data : Seq(ByteType)]
      BY <1>0 DEF Init, NoBulk
    <2>3. /\ resets \in 0..MaxResets /\ conn \in 0..MaxConns
          /\ sent \in 0..MaxBytes /\ written \in 0..MaxBytes
      BY LimitsAssumption DEF Init
    <2>. QED
      BY <1>0, <2>1, <2>2, <2>3 DEF Init, DataType
  <1>2. TypeOK
    BY <1>1 DEF TypeOK, ControlType, DataType
  <1>3. Room
    BY DEF Init, Room, NoBulk
  <1>4. Phase /\ Fresh /\ Session
    BY DEF Init, Phase, Fresh, Session, Terminal, Online
  <1>5. Streams
    <2>1. Arriving = <<>> /\ sr \notin Online
      BY DEF Init, Arriving, NoBulk, Online
    <2>2. <<>> \o <<>> = <<>> /\ Bytes(conn, 0) = <<>>
      BY ConcatEmptySeq, BytesNone
    <2>. QED
      BY <1>0, <2>1, <2>2 DEF Init, Streams
  <1>. QED
    BY <1>2, <1>3, <1>4, <1>5

-----------------------------------------------------------------------------
(* TcpInv is inductive: types and room always, and while no link-loss      *)
(* reset has happened the state machine, the flags and the bytes of both   *)
(* directions agree with the chip, for every size of the buffers, both     *)
(* modes and any number of connections and bytes.                          *)
THEOREM TcpInvariance == Spec => []TcpInv
  <1>1. Init => TcpInv
    BY InitHolds DEF TcpInv
  <1>2. TcpInv /\ [Next]_vars => TcpInv'
    <2>. SUFFICES ASSUME TcpInv, [Next]_vars PROVE TcpInv'
      OBVIOUS
    <2>1. TypeOK /\ Room
      BY DEF TcpInv
    <2>2. TypeOK' /\ Room'
      BY <2>1, ControlTypeStep, DataTypeStep DEF TypeOK, ControlType, DataType
    <2>3. ASSUME resets' = 0, RingCap <= Scratch
          PROVE  Phase' /\ Fresh' /\ Session' /\ Streams'
      <3>1. resets = 0
        <4>1. ASSUME NEW kind \in {"whole", "torn"}, LinkReset(kind) PROVE resets' # 0
          BY <2>1, <4>1 DEF LinkReset, TypeOK
        <4>2. CASE Quiet
          BY <2>3, <4>2, QuietKeepsData DEF dataVars
        <4>. QED
          BY <2>3, <4>1, <4>2, NextCases DEF PeerConnects, PeerSends, PeerTakes, CloseEnds,
             PeerFails, ChipCommand, Open, AppRead, AppWrite, Reconnect, Rearm,
             HandleClose, Receive, Transmit, DmaComplete, peerVars
      <3>2. Phase /\ Fresh /\ Session /\ Streams
        BY <2>3, <3>1 DEF TcpInv
      <3>. QED
        BY <2>1, <2>3, <3>2, ControlStep, StreamStep
    <2>. QED
      BY <2>2, <2>3 DEF TcpInv
  <1>. QED
    BY <1>1, <1>2, PTL DEF Spec

(* While the link stays up, no byte the peer has sent over a connection    *)
(* is lost, repeated or reordered between chip, ring and application, for  *)
(* scratch buffers that hold a full ring.                                  *)
THEOREM RxConservedInvariance ==
    ASSUME RingCap <= Scratch
    PROVE  Spec => [](resets = 0 => RxConserved)
  <1>1. TcpInv => (resets = 0 => RxConserved)
    BY DEF TcpInv, Streams, RxConserved, Live, Online
  <1>. QED
    BY <1>1, TcpInvariance, PTL

(* The same for the bytes write has accepted, on their way to the peer.    *)
THEOREM TxConservedInvariance ==
    ASSUME RingCap <= Scratch
    PROVE  Spec => [](resets = 0 => TxConserved)
  <1>1. TcpInv => (resets = 0 => TxConserved)
    BY DEF TcpInv, Streams, TxConserved, Live, Online
  <1>. QED
    BY <1>1, TcpInvariance, PTL

(* While the link stays up each side sees a prefix of what the other sent  *)
(* in this connection, also after it has ended or failed.                  *)
THEOREM InOrderInvariance ==
    ASSUME RingCap <= Scratch
    PROVE  Spec => [](resets = 0 => InOrder)
  <1>1. TcpInv => (resets = 0 => InOrder)
    <2>. SUFFICES ASSUME TcpInv, resets = 0 PROVE InOrder
      OBVIOUS
    <2>1. TypeOK /\ Streams
      BY DEF TcpInv
    <2>2. peerGot = Bytes(conn, Len(peerGot)) /\ Len(peerGot) \in Nat
      BY <2>1, Pieces, LenProperties DEF Streams
    <2>3. got = Bytes(conn, Len(got)) /\ Len(got) \in Nat
      BY <2>1, GotStream
    <2>. QED
      BY <2>2, <2>3, BytesLen DEF InOrder
  <1>. QED
    BY <1>1, TcpInvariance, PTL

(* While the link stays up, our FIN answers the peer's only when the       *)
(* application has read every byte, unless it asked to close.              *)
THEOREM DrainedAtFinInvariance ==
    ASSUME RingCap <= Scratch
    PROVE  Spec => [](resets = 0 => DrainedAtFin)
  <1>1. TcpInv => (resets = 0 => DrainedAtFin)
    <2>. SUFFICES ASSUME TcpInv, resets = 0, sr = "LastAck", ~asked
                  PROVE  Len(got) = sent
      BY DEF DrainedAtFin
    <2>1. TypeOK /\ Streams /\ Session
      BY DEF TcpInv
    <2>2. rx = <<>> /\ chipRx = <<>> /\ got \o rx \o chipRx = Bytes(conn, sent)
      BY <2>1 DEF Session, Streams, Online
    <2>3. got \o <<>> = got
      BY <2>1, Pieces, ConcatEmptySeq
    <2>. QED
      BY <2>1, <2>2, <2>3, Pieces, BytesLen, ZenonT(30)
  <1>. QED
    BY <1>1, TcpInvariance, PTL

(* While the link stays up, a session reported as over has no transfer in  *)
(* flight that could still write to its rings.                             *)
THEOREM TerminalQuietInvariance ==
    ASSUME RingCap <= Scratch
    PROVE  Spec => [](resets = 0 => TerminalQuiet)
  <1>1. TcpInv => (resets = 0 => TerminalQuiet)
    BY DEF TcpInv, Session, TerminalQuiet, Terminal
  <1>. QED
    BY <1>1, TcpInvariance, PTL

=============================================================================
