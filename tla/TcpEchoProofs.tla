--------------------------- MODULE TcpEchoProofs ---------------------------
(***************************************************************************)
(* The echo firmware over the TCP socket: as long as the link stays up,    *)
(* everything a connected client has sent is on its way back to it, and a  *)
(* client is sent only its own bytes, for every size of the buffers.       *)
(*                                                                         *)
(* The thread's steps are steps of TcpSocket's application, except that    *)
(* its write takes several bytes at once; so the invariant of TcpSocket    *)
(* carries over, and what remains is where the thread is and what its      *)
(* carry-over buffer holds.                                                *)
(***************************************************************************)
EXTENDS TcpEcho, TcpSocketProofs

\* A session whose connection is not up yet, as in Fresh of TcpSocket.
NotUp ==
    \/ st \in {"Init", "Opening", "Connecting", "Listening", "ClosingDueToError"}
    \/ sr \in {"Init", "Listen", "SynSent", "SynRecv"}

\* Where the thread is tells whether the socket was opened, and what status()
\* said.
Position ==
    /\ app \in {"phase1", "phase2"} => st = "Free"
    /\ app # "phase1" => link
    /\ app = "rearm" => seen = "Terminal"

\* The carry-over is what the application has read and not yet written.
Carried ==
    /\ carry \in Seq(ByteType)
    /\ NotUp => carry = <<>>
    /\ sr \in Online => carry = Rest(got, written)
    /\ written + Len(carry) <= Len(got)
    /\ Len(got) + Len(rx) + Len(Arriving) <= sent
    /\ Len(peerGot) <= sent

(* The inductive invariant: without a link-loss reset so far, TcpSocket's   *)
(* invariant and these two.                                                *)
EchoInv ==
    /\ resets \in Nat
    /\ resets = 0 =>
         /\ TypeOK /\ Room /\ Phase /\ Fresh /\ Session /\ Streams
         /\ Position /\ Carried

-----------------------------------------------------------------------------
(* The thread's steps as steps of the socket.                              *)

(* Only open and reconnect lead back to a session without a connection.    *)
LEMMA NotUpKept ==
    ASSUME TypeOK, Phase, NotUp',
           Peer \/ ChipCommand \/ Tick \/ Service \/ DmaComplete \/ AppStatus
    PROVE  NotUp
  <1>. USE DEF TypeOK, NotUp, Phase, Status, Terminal, Closing, SR, CR, Online,
               drvVars, chipVars
  <1>1. CASE Peer \/ ChipCommand
    BY <1>1 DEF Peer, PeerSyn, PeerConnects, PeerSends, PeerTakes, PeerFin, CloseEnds,
                PeerFails, ChipCommand, ChipCloses
  <1>2. CASE AppStatus
    BY <1>2 DEF AppStatus
  <1>3. CASE Tick
    <2>1. CASE HandleClose \/ HandleInit \/ HandleOpening \/ HandleListening
      BY <2>1 DEF HandleClose, HandleInit, HandleOpening, HandleListening, Answer, Settle,
                  Ticking, CommandPending
    <2>2. CASE ReadInterrupts \/ ConnectPending \/ ConnectingStatus
      BY <2>2 DEF ReadInterrupts, ConnectPending, ConnectingStatus, Answer, Settle, Ticking
    <2>3. CASE Receive \/ Transmit \/ EstablishedIdle
      BY <2>3 DEF Receive, Transmit, EstablishedIdle, Answer, Settle
    <2>4. CASE HandleClosing \/ RunIdle
      BY <2>4 DEF HandleClosing, RunIdle, Answer, Settle, Finished
    <2>. QED
      BY <1>3, <2>1, <2>2, <2>3, <2>4 DEF Tick
  <1>4. CASE Service \/ DmaComplete
    BY <1>4 DEF Service, DmaComplete
  <1>. QED
    BY <1>1, <1>2, <1>3, <1>4

(* A refill of the carry-over buffer is a read of as many bytes, or of     *)
(* none.                                                                   *)
LEMMA EchoReadIsRead ==
    ASSUME TypeOK, EchoRead
    PROVE  \/ \E n \in 1..RingCap : AppRead(n)
           \/ UNCHANGED vars
  <1>. DEFINE n == IF carry = <<>> THEN Min({BufLen, Len(rx)}) ELSE 0
  <1>1. n \in 0..Len(rx) /\ Len(rx) <= RingCap /\ RingCap \in Nat /\ Len(rx) \in Nat
    <2>1. BufLen \in Int /\ BufLen >= 0 /\ Len(rx) \in Int /\ Len(rx) >= 0
      BY BufAssumption, Pieces, LenProperties
    <2>2. /\ Min({BufLen, Len(rx)}) \in Int /\ Min({BufLen, Len(rx)}) <= Len(rx)
          /\ Min({BufLen, Len(rx)}) = BufLen \/ Min({BufLen, Len(rx)}) = Len(rx)
      BY <2>1, MinPair
    <2>. QED
      BY <2>1, <2>2, SizesAssumption DEF TypeOK
  <1>2. /\ AppRuns /\ rx' = Rest(rx, n) /\ got' = got \o Front(rx, n)
        /\ UNCHANGED <<mode, link, drvVars, tx, bulk, pc, seen, asked, written, chipVars, peerVars>>
    BY DEF EchoRead
  <1>. HIDE DEF n
  <1>3. CASE n = 0
    <2>1. Front(rx, 0) = <<>> /\ got \o <<>> = got
      BY Pieces, CutWhole, ConcatEmptySeq
    <2>2. Rest(rx, 0) = rx
      BY Pieces, SubSeqFull DEF Rest
    <2>. QED
      BY <1>2, <1>3, <2>1, <2>2 DEF vars, ringVars, appVars
  <1>4. CASE n # 0
    <2>1. n \in 1..RingCap /\ n <= Len(rx)
      BY <1>1, <1>4
    <2>2. AppRead(n)
      BY <1>2, <2>1 DEF AppRead
    <2>. QED
      BY <2>1, <2>2
  <1>. QED
    BY <1>3, <1>4

(* Every step but the write is a step of the socket.                       *)
LEMMA EchoIsSocket ==
    ASSUME TypeOK, Position, [EchoNext]_allVars, resets = 0, resets' = 0
    PROVE  [Next]_vars \/ EchoWrite
  <1>1. CASE LinkSeen \/ CheckLink \/ UNCHANGED allVars
    BY <1>1 DEF LinkSeen, CheckLink, allVars
  <1>2. CASE BringUp
    BY <1>2 DEF BringUp, Position, Next, App
  <1>3. CASE CheckStatus
    BY <1>3 DEF CheckStatus, Next, App
  <1>4. CASE EchoRead
    BY <1>4, EchoReadIsRead DEF Next, App
  <1>5. CASE EchoRearm
    BY <1>5 DEF EchoRearm, Position, Reconnect, Next, App
  <1>6. CASE EchoService \/ EchoTick \/ EchoDmaComplete \/ Environment
    BY <1>6 DEF EchoService, EchoTick, EchoDmaComplete, Environment, Next
  <1>7. CASE LinkLost
    BY <1>7 DEF LinkLost, LinkReset
  <1>. QED
    BY <1>1, <1>2, <1>3, <1>4, <1>5, <1>6, <1>7 DEF EchoNext, Thread

(* The thread's position keeps its meaning.                                *)
LEMMA PositionStep ==
    ASSUME TypeOK, Position, [EchoNext]_allVars, resets = 0, resets' = 0
    PROVE  Position'
  <1>. USE DEF Position, drvVars, appVars, echoVars
  <1>1. CASE LinkSeen \/ CheckLink \/ UNCHANGED allVars
    BY <1>1 DEF LinkSeen, CheckLink, allVars, vars
  <1>2. CASE BringUp
    BY <1>2 DEF BringUp, Open, Rearm
  <1>3. CASE CheckStatus
    BY <1>3 DEF CheckStatus, AppStatus
  <1>4. CASE EchoRead \/ EchoWrite
    BY <1>4 DEF EchoRead, EchoWrite
  <1>5. CASE EchoRearm
    BY <1>5 DEF EchoRearm, Rearm
  <1>6. CASE EchoService \/ EchoDmaComplete
    BY <1>6 DEF EchoService, EchoDmaComplete, Service, DmaComplete, Wake
  <1>7. CASE EchoTick
    <2>1. seen' = seen /\ UNCHANGED echoVars
      BY <1>7 DEF EchoTick, Tick, HandleClose, HandleInit, HandleOpening, HandleListening,
           ReadInterrupts, ConnectPending, ConnectingStatus, Receive, Transmit,
           EstablishedIdle, HandleClosing, RunIdle
    <2>2. st = "Free" => st' = "Free"
      BY <1>7 DEF EchoTick, Tick, HandleClose, HandleInit, HandleOpening, HandleListening,
           ReadInterrupts, ConnectPending, ConnectingStatus, Receive, Transmit,
           EstablishedIdle, HandleClosing, RunIdle, Ticking, Settle, Closing, Terminal
    <2>3. UNCHANGED link
      BY <1>7, LinkKept DEF EchoTick
    <2>. QED
      BY <2>1, <2>2, <2>3
  <1>8. CASE Environment
    BY <1>8, LinkKept DEF Environment, Peer, PeerSyn, PeerConnects, PeerSends, PeerTakes, PeerFin,
                CloseEnds, PeerFails, ChipCommand
  <1>9. CASE LinkLost
    BY <1>9 DEF LinkLost, LinkReset
  <1>. QED
    BY <1>1, <1>2, <1>3, <1>4, <1>5, <1>6, <1>7, <1>8, <1>9 DEF EchoNext, Thread

-----------------------------------------------------------------------------
(* The write of several bytes.                                             *)

(* The bytes after the first w of a stream continue it.                    *)
LEMMA BytesMore ==
    ASSUME NEW c, NEW m \in Nat, NEW w \in 0..m, NEW n \in 0..(m - w)
    PROVE  Bytes(c, w) \o Front(Rest(Bytes(c, m), w), n) = Bytes(c, w + n)
  BY DEF Bytes, Front, Rest

(* What a cut leaves is cut again.                                         *)
LEMMA RestRest ==
    ASSUME NEW S, NEW s \in Seq(S), NEW w \in 0..Len(s), NEW n \in 0..(Len(s) - w)
    PROVE  Rest(Rest(s, w), n) = Rest(s, w + n)
  BY DEF Rest

(* What is read joins what is left.                                        *)
LEMMA RestConcat ==
    ASSUME NEW S, NEW s \in Seq(S), NEW f \in Seq(S), NEW w \in 0..Len(s)
    PROVE  Rest(s \o f, w) = Rest(s, w) \o f
  <1>. DEFINE t == s \o f
              r == Rest(s, w)
  <1>1. t \in Seq(S) /\ Len(t) = Len(s) + Len(f) /\ Len(s) \in Nat /\ Len(f) \in Nat
    BY ConcatProperties, LenProperties
  <1>2. \A i \in 1..Len(t) : t[i] = IF i <= Len(s) THEN s[i] ELSE f[i - Len(s)]
    BY <1>1, ConcatProperties
  <1>3. r \in Seq(S) /\ Len(r) = Len(s) - w /\ \A i \in 1..Len(r) : r[i] = s[w + i]
    BY <1>1 DEF Rest
  <1>. HIDE DEF t, r
  <1>4. /\ Rest(t, w) \in Seq(S) /\ Len(Rest(t, w)) = Len(t) - w
        /\ \A i \in 1..(Len(t) - w) : Rest(t, w)[i] = t[w + i]
    BY <1>1 DEF Rest
  <1>5. /\ r \o f \in Seq(S) /\ Len(r \o f) = Len(r) + Len(f)
        /\ \A i \in 1..(Len(r) + Len(f)) :
             (r \o f)[i] = IF i <= Len(r) THEN r[i] ELSE f[i - Len(r)]
    BY <1>3, ConcatProperties
  <1>6. ASSUME NEW i \in 1..(Len(t) - w) PROVE Rest(t, w)[i] = (r \o f)[i]
    <2>1. w + i \in 1..Len(t) /\ i \in 1..(Len(r) + Len(f))
      BY <1>1, <1>3
    <2>2. Rest(t, w)[i] = IF w + i <= Len(s) THEN s[w + i] ELSE f[w + i - Len(s)]
      <3>1. Rest(t, w)[i] = t[w + i]
        BY <1>4
      <3>. QED
        BY <1>2, <2>1, <3>1
    <2>3. (r \o f)[i] = IF i <= Len(r) THEN s[w + i] ELSE f[i - Len(r)]
      BY <1>1, <1>3, <1>5, <2>1
    <2>4. w + i - Len(s) = i - Len(r) /\ (w + i <= Len(s) <=> i <= Len(r))
      BY <1>1, <1>3
    <2>5. CASE w + i <= Len(s)
      BY <2>2, <2>3, <2>4, <2>5
    <2>6. CASE ~(w + i <= Len(s))
      <3>1. Rest(t, w)[i] = f[w + i - Len(s)] /\ (r \o f)[i] = f[i - Len(r)]
        BY <2>2, <2>3, <2>4, <2>6
      <3>. QED
        BY <2>4, <3>1
    <2>. QED
      BY <2>5, <2>6
  <1>7. Len(t) - w = Len(r) + Len(f)
    BY <1>1, <1>3
  <1>8. Rest(t, w) = r \o f
    BY <1>4, <1>5, <1>6, <1>7, SeqEqual
  <1>. QED
    BY <1>8 DEF t, r

(* How many bytes the write takes, and what stays in the buffer.           *)
LEMMA WriteAmount ==
    ASSUME TypeOK, Carried, EchoWrite
    PROVE  \E n \in 0..Len(carry) :
             /\ Len(tx) + n <= RingCap
             /\ tx' = tx \o Front(carry, n) /\ carry' = Rest(carry, n)
             /\ written' = written + n
             /\ UNCHANGED <<mode, link, drvVars, rx, bulk, pc, seen, asked, got, chipVars, peerVars>>
  <1>. DEFINE n == Min({Len(carry), RingCap - Len(tx)})
  <1>1. Len(carry) \in Nat /\ Len(tx) \in Nat /\ RingCap \in Nat /\ Len(tx) <= RingCap
    BY LenProperties, SizesAssumption DEF TypeOK, Carried
  <1>2. /\ n \in Int /\ n <= Len(carry) /\ n <= RingCap - Len(tx)
        /\ n = Len(carry) \/ n = RingCap - Len(tx)
    <2>1. Len(carry) \in Int /\ RingCap - Len(tx) \in Int
      BY <1>1
    <2>. QED
      BY <2>1, MinPair
  <1>3. /\ tx' = tx \o Front(carry, n) /\ carry' = Rest(carry, n) /\ written' = written + n
        /\ UNCHANGED <<mode, link, drvVars, rx, bulk, pc, seen, asked, got, chipVars, peerVars>>
    BY DEF EchoWrite, RingWrite
  <1>. HIDE DEF n
  <1>4. n \in 0..Len(carry) /\ Len(tx) + n <= RingCap
    BY <1>1, <1>2
  <1>. QED
    BY <1>3, <1>4

(* The write keeps the socket's invariant: the bytes it accepts continue   *)
(* the stream of those before.                                             *)
LEMMA EchoWriteStep ==
    ASSUME TypeOK, Room, Phase, Fresh, Session, Streams, Carried, EchoWrite
    PROVE  /\ TypeOK' /\ Room' /\ Phase' /\ Fresh' /\ Session' /\ Streams'
           /\ Carried'
  <1>1. PICK n \in 0..Len(carry) :
          /\ Len(tx) + n <= RingCap
          /\ tx' = tx \o Front(carry, n) /\ carry' = Rest(carry, n)
          /\ written' = written + n
          /\ UNCHANGED <<mode, link, drvVars, rx, bulk, pc, seen, asked, got, chipVars, peerVars>>
    BY WriteAmount
  <1>2. UNCHANGED <<mode, link, st, err, close, release, rx, bulk, pc, seen, asked, got, sr, cr,
                    timeout, chipRx, chipTx, resets, conn, sent, peerGot>>
    BY <1>1 DEF drvVars, chipVars, peerVars
  <1>. DEFINE f == Front(carry, n)
              r == Rest(carry, n)
  <1>3. /\ carry \in Seq(ByteType) /\ tx \in Seq(ByteType)
        /\ Len(carry) \in Nat /\ Len(tx) \in Nat /\ written \in Nat /\ n \in Nat
    BY Pieces, LenProperties DEF Carried
  <1>4. /\ f \in Seq(ByteType) /\ Len(f) = n
        /\ r \in Seq(ByteType) /\ Len(r) = Len(carry) - n
    BY <1>3, Cut
  <1>5. tx' = tx \o f /\ carry' = r
    BY <1>1
  <1>. HIDE DEF f, r
  <1>6. tx' \in Seq(ByteType) /\ Len(tx') <= RingCap
    <2>1. tx \o f \in Seq(ByteType) /\ Len(tx \o f) = Len(tx) + n
      BY <1>3, <1>4, ConcatProperties
    <2>. QED
      BY <1>1, <1>5, <2>1
  <1>7. /\ Len(got) \in Nat /\ Len(rx) \in Nat /\ Len(Arriving) \in Nat
        /\ sent \in 0..MaxBytes /\ MaxBytes \in Nat
        /\ written + Len(carry) <= Len(got) /\ Len(got) + Len(rx) + Len(Arriving) <= sent
    BY Pieces, LenProperties, LimitsAssumption DEF TypeOK, Carried
  <1>8. written' \in 0..MaxBytes /\ written' + Len(r) <= Len(got)
    BY <1>1, <1>3, <1>4, <1>7
  <1>9. TypeOK'
    BY <1>2, <1>6, <1>8 DEF TypeOK
  <1>10. Room' /\ Phase' /\ Session'
    BY <1>2 DEF Room, Phase, Session
  <1>11. Fresh'
    <2>1. NotUp => tx' = <<>>
      <3>. SUFFICES ASSUME NotUp PROVE tx' = <<>>
        OBVIOUS
      <3>1. carry = <<>> /\ tx = <<>> /\ Len(carry) = 0
        BY EmptySeq DEF Carried, Fresh, NotUp
      <3>2. f = <<>>
        BY <1>4, <3>1, EmptySeq
      <3>. QED
        BY <1>5, <3>1, <3>2, ConcatEmptySeq
    <2>. QED
      BY <1>2, <2>1 DEF Fresh, NotUp
  <1>12. got = Bytes(conn, Len(got))
    BY GotStream
  <1>13. Streams'
    <2>1. Arriving' = Arriving /\ InFlight' = InFlight
      BY <1>2 DEF Arriving, InFlight
    <2>2. sr \in Online => peerGot \o chipTx \o InFlight \o tx' = Bytes(conn, written')
      <3>. SUFFICES ASSUME sr \in Online
                    PROVE  peerGot \o chipTx \o InFlight \o tx' = Bytes(conn, written')
        OBVIOUS
      <3>. DEFINE s == peerGot \o chipTx \o InFlight
      <3>1. s \in Seq(ByteType)
        BY Pieces, Shift
      <3>2. s \o tx = Bytes(conn, written)
        BY DEF Streams
      <3>. HIDE DEF s
      <3>3. (s \o tx) \o f = s \o (tx \o f)
        <4>1. tx \in Seq(ByteType) /\ f \in Seq(ByteType)
          BY <1>3, <1>4
        <4>. QED
          BY ONLY <3>1, <4>1, ConcatAssociative
      <3>4. carry = Rest(got, written)
        BY DEF Carried
      <3>5. Bytes(conn, written) \o f = Bytes(conn, written + n)
        <4>1. written \in 0..Len(got) /\ n \in 0..(Len(got) - written)
          BY <1>3, <1>7
        <4>2. Bytes(conn, written) \o Front(Rest(Bytes(conn, Len(got)), written), n)
                = Bytes(conn, written + n)
          BY <1>7, <4>1, BytesMore
        <4>. QED
          BY <1>12, <3>4, <4>2 DEF f
      <3>6. s \o tx' = Bytes(conn, written')
        BY <1>1, <1>5, <3>2, <3>3, <3>5
      <3>. QED
        BY <3>6 DEF s
    <2>. QED
      BY <1>2, <2>1, <2>2 DEF Streams
  <1>14. Carried'
    <2>1. Arriving' = Arriving
      BY <1>2 DEF Arriving
    <2>2. NotUp => r = <<>>
      <3>. SUFFICES ASSUME NotUp PROVE r = <<>>
        OBVIOUS
      <3>1. Len(carry) = 0
        BY EmptySeq DEF Carried
      <3>2. Len(r) = 0
        <4>1. Len(r) \in Nat
          BY <1>4, LenProperties
        <4>2. Len(r) = 0 - n
          BY <1>4, <3>1
        <4>. QED
          BY <1>3, <4>1, <4>2
      <3>. QED
        BY <1>4, <3>2, EmptySeq
    <2>3. sr \in Online => r = Rest(got, written + n)
      <3>1. written \in 0..Len(got) /\ n \in 0..(Len(got) - written) /\ got \in Seq(ByteType)
        BY <1>3, <1>7, Pieces
      <3>2. Rest(Rest(got, written), n) = Rest(got, written + n)
        BY <3>1, RestRest
      <3>. QED
        BY <3>2 DEF r, Carried
    <2>. QED
      BY <1>1, <1>2, <1>4, <1>5, <1>8, <2>1, <2>2, <2>3 DEF Carried, NotUp
  <1>. QED
    BY <1>9, <1>10, <1>11, <1>13, <1>14

-----------------------------------------------------------------------------
(* The carry-over buffer under every other step.                           *)

(* While the connection lasts, the lengths of the pieces add up.           *)
LEMMA Lengths ==
    TypeOK /\ Streams /\ sr \in Online =>
      /\ Len(got) + Len(rx) + Len(chipRx) = sent
      /\ Len(peerGot) <= written
  <1>. SUFFICES ASSUME TypeOK, Streams, sr \in Online
                PROVE  /\ Len(got) + Len(rx) + Len(chipRx) = sent
                       /\ Len(peerGot) <= written
    OBVIOUS
  <1>1. Len(got) + Len(rx) + Len(chipRx) = sent
    <2>1. Len(got \o rx) = Len(got) + Len(rx) /\ got \o rx \in Seq(ByteType)
      BY Pieces, ConcatProperties
    <2>2. Len(got \o rx \o chipRx) = Len(got \o rx) + Len(chipRx)
      BY <2>1, Pieces, ConcatProperties
    <2>3. Len(Bytes(conn, sent)) = sent
      BY Pieces, BytesLen
    <2>. QED
      BY <2>1, <2>2, <2>3 DEF Streams
  <1>2. Len(peerGot) <= written
    <2>. DEFINE a == peerGot \o chipTx
                b == a \o InFlight
    <2>1. a \in Seq(ByteType) /\ Len(a) = Len(peerGot) + Len(chipTx)
      BY Pieces, ConcatProperties
    <2>. HIDE DEF a
    <2>2. b \in Seq(ByteType) /\ Len(b) = Len(a) + Len(InFlight)
      BY <2>1, Pieces, ConcatProperties
    <2>. HIDE DEF b
    <2>3. Len(b \o tx) = Len(b) + Len(tx)
      BY <2>2, Pieces, ConcatProperties
    <2>4. b \o tx = Bytes(conn, written)
      BY DEF Streams, a, b
    <2>5. Len(Bytes(conn, written)) = written
      BY Pieces, BytesLen
    <2>6. /\ Len(peerGot) \in Nat /\ Len(chipTx) \in Nat /\ Len(InFlight) \in Nat
          /\ Len(tx) \in Nat
      BY Pieces, LenProperties
    <2>. QED
      BY <2>1, <2>2, <2>3, <2>4, <2>5, <2>6
  <1>. QED
    BY <1>1, <1>2

LEMMA LengthsAfter ==
    (TypeOK /\ Streams /\ sr \in Online =>
      /\ Len(got) + Len(rx) + Len(chipRx) = sent
      /\ Len(peerGot) <= written)'
  BY Lengths, PTL

LEMMA PiecesAfter ==
    (TypeOK =>
      /\ Len(got) \in Nat /\ Len(rx) \in Nat /\ Len(chipRx) \in Nat
      /\ Len(Arriving) \in Nat /\ Len(peerGot) \in Nat /\ sent \in Nat /\ written \in Nat)'
  <1>1. TypeOK =>
      /\ Len(got) \in Nat /\ Len(rx) \in Nat /\ Len(chipRx) \in Nat
      /\ Len(Arriving) \in Nat /\ Len(peerGot) \in Nat /\ sent \in Nat /\ written \in Nat
    BY Pieces, LenProperties
  <1>. QED
    BY <1>1, PTL

(* Steps that touch neither the buffer nor what it came from.              *)
LEMMA CarryKept ==
    ASSUME TypeOK, Carried, TypeOK', Streams',
           NotUp' => NotUp, sr' \in Online => sr \in Online,
           UNCHANGED <<carry, got, written>>,
           sr' \in Online \/ (/\ UNCHANGED <<sent, peerGot>>
                              /\ Len(rx') + Len(Arriving') <= Len(rx) + Len(Arriving))
    PROVE  Carried'
  <1>1. /\ Len(got) \in Nat /\ Len(rx) \in Nat /\ Len(Arriving) \in Nat /\ sent \in Nat
        /\ Len(carry) \in Nat
        /\ written + Len(carry) <= Len(got)
        /\ Len(got) + Len(rx) + Len(Arriving) <= sent /\ Len(peerGot) <= sent
    BY Pieces, LenProperties DEF Carried
  <1>2. /\ Len(got') \in Nat /\ Len(rx') \in Nat /\ Len(chipRx') \in Nat
        /\ Len(Arriving') \in Nat /\ Len(peerGot') \in Nat /\ sent' \in Nat /\ written' \in Nat
    BY PiecesAfter
  <1>3. /\ Len(got') + Len(rx') + Len(Arriving') <= sent' /\ Len(peerGot') <= sent'
    <2>1. CASE sr' \in Online
      <3>1. Len(got') + Len(rx') + Len(chipRx') = sent' /\ Len(peerGot') <= written'
        BY <2>1, LengthsAfter
      <3>2. Len(Arriving') <= Len(chipRx')
        BY <2>1 DEF Streams
      <3>. QED
        BY <1>1, <1>2, <3>1, <3>2
    <2>2. CASE sr' \notin Online
      BY <1>1, <1>2, <2>2
    <2>. QED
      BY <2>1, <2>2
  <1>. QED
    BY <1>3 DEF Carried

(* The driver, the chip and the peer, once the handshake is over, leave    *)
(* the buffer alone.                                                       *)
LEMMA OthersCarry ==
    ASSUME TypeOK, Room, Phase, Streams, Carried, TypeOK', Streams', ~PeerConnects,
           Peer \/ ChipCommand \/ Tick \/ Service \/ DmaComplete \/ AppStatus,
           carry' = carry
    PROVE  Carried'
  <1>1. NotUp' => NotUp
    BY NotUpKept
  <1>2. UNCHANGED <<got, written>>
    BY DEF Peer, PeerSyn, PeerSends, PeerTakes, PeerFin, CloseEnds, PeerFails,
           ChipCommand, Tick, HandleClose, HandleInit, HandleOpening, HandleListening,
           ReadInterrupts, ConnectPending, ConnectingStatus, Receive, Transmit,
           EstablishedIdle, HandleClosing, RunIdle, Service, DmaComplete, AppStatus,
           appVars
  <1>3. sr' \in Online => sr \in Online
    BY DEF Peer, PeerSyn, PeerSends, PeerTakes, PeerFin, CloseEnds, PeerFails, ChipCloses,
           ChipCommand, Tick, HandleClose, HandleInit, HandleOpening, HandleListening,
           ReadInterrupts, ConnectPending, ConnectingStatus, Receive, Transmit,
           EstablishedIdle, HandleClosing, RunIdle, Service, DmaComplete, AppStatus,
           chipVars, Online
  <1>4. sr' \in Online \/ (/\ UNCHANGED <<sent, peerGot>>
                           /\ Len(rx') + Len(Arriving') <= Len(rx) + Len(Arriving))
    <2>. SUFFICES ASSUME sr' \notin Online
                  PROVE  /\ UNCHANGED <<sent, peerGot>>
                         /\ Len(rx') + Len(Arriving') <= Len(rx) + Len(Arriving)
      OBVIOUS
    <2>1. UNCHANGED <<sent, peerGot>>
      BY DEF Peer, PeerSyn, PeerSends, PeerTakes, PeerFin, CloseEnds, PeerFails,
           ChipCommand, Tick, HandleClose, HandleInit, HandleOpening, HandleListening,
           ReadInterrupts, ConnectPending, ConnectingStatus, Receive, Transmit,
           EstablishedIdle, HandleClosing, RunIdle, Service, DmaComplete, AppStatus,
           peerVars, Online
    <2>2. CASE DmaComplete
      <3>1. bulk # NoBulk /\ bulk' = NoBulk
            /\ rx' = IF bulk.kind = "Receive" THEN RingWrite(rx, bulk.data) ELSE rx
        BY <2>2 DEF DmaComplete
      <3>2. Arriving' = <<>> /\ Len(<<>>) = 0
        BY <3>1, EmptySeq DEF Arriving, NoBulk
      <3>3. rx' = RingWrite(rx, Arriving) \/ (rx' = rx /\ Arriving = <<>>)
        BY <3>1 DEF Arriving
      <3>4. /\ rx \in Seq(ByteType) /\ Arriving \in Seq(ByteType)
            /\ Len(rx) + Len(Arriving) <= RingCap /\ Len(rx) <= RingCap
        BY Pieces DEF Streams, TypeOK
      <3>5. RingWrite(rx, Arriving) = rx \o Arriving
        BY <3>4, RingWriteKeeps
      <3>6. Len(rx \o Arriving) = Len(rx) + Len(Arriving) /\ Len(rx) \in Nat
        BY <3>4, ConcatProperties, LenProperties
      <3>. QED
        BY <2>1, <3>2, <3>3, <3>5, <3>6
    <2>3. CASE ~DmaComplete
      <3>1. UNCHANGED <<rx, bulk>> \/ Receive \/ Transmit
        BY <2>3 DEF Peer, PeerSyn, PeerSends, PeerTakes, PeerFin, CloseEnds, PeerFails,
           ChipCommand, Tick, HandleClose, HandleInit, HandleOpening, HandleListening,
           ReadInterrupts, ConnectPending, ConnectingStatus,
           EstablishedIdle, HandleClosing, RunIdle, Service, AppStatus, ringVars
      <3>2. ~Receive /\ ~Transmit
        BY DEF Receive, Transmit, chipVars, Online
      <3>3. rx' = rx /\ Arriving' = Arriving
        BY <3>1, <3>2 DEF Arriving
      <3>4. Len(rx) \in Nat /\ Len(Arriving) \in Nat
        BY Pieces, LenProperties
      <3>. QED
        BY <2>1, <3>3, <3>4
    <2>. QED
      BY <2>1, <2>2, <2>3
  <1>. QED
    BY <1>1, <1>2, <1>3, <1>4, CarryKept

(* A read takes bytes from the front of the ring into the empty buffer.    *)
LEMMA ReadCarry ==
    ASSUME TypeOK, Fresh, Streams, Carried, EchoRead
    PROVE  Carried'
  <1>. DEFINE n == IF carry = <<>> THEN Min({BufLen, Len(rx)}) ELSE 0
  <1>1. n \in 0..Len(rx) /\ Len(rx) \in Nat
    <2>1. BufLen \in Int /\ BufLen >= 0 /\ Len(rx) \in Int /\ Len(rx) >= 0
      BY BufAssumption, Pieces, LenProperties
    <2>2. /\ Min({BufLen, Len(rx)}) \in Int /\ Min({BufLen, Len(rx)}) <= Len(rx)
          /\ Min({BufLen, Len(rx)}) = BufLen \/ Min({BufLen, Len(rx)}) = Len(rx)
      BY <2>1, MinPair
    <2>. QED
      BY <2>1, <2>2
  <1>. DEFINE f == Front(rx, n)
              r == Rest(rx, n)
  <1>2. /\ rx' = r /\ got' = got \o f /\ carry' = carry \o f
        /\ UNCHANGED <<st, sr, bulk, written, sent, peerGot>>
    BY DEF EchoRead, drvVars, chipVars, peerVars
  <1>. HIDE DEF n
  <1>3. /\ carry \in Seq(ByteType) /\ rx \in Seq(ByteType) /\ got \in Seq(ByteType)
        /\ Len(carry) \in Nat /\ Len(got) \in Nat /\ Len(Arriving) \in Nat
        /\ written \in Nat /\ sent \in Nat /\ written + Len(carry) <= Len(got)
        /\ Len(got) + Len(rx) + Len(Arriving) <= sent
    BY Pieces, LenProperties DEF Carried
  <1>4. /\ f \in Seq(ByteType) /\ Len(f) = n
        /\ r \in Seq(ByteType) /\ Len(r) = Len(rx) - n
    BY <1>1, <1>3, Cut
  <1>. HIDE DEF f, r
  <1>5. /\ carry \o f \in Seq(ByteType) /\ Len(carry \o f) = Len(carry) + n
        /\ got \o f \in Seq(ByteType) /\ Len(got \o f) = Len(got) + n
    <2>1. carry \in Seq(ByteType) /\ got \in Seq(ByteType) /\ f \in Seq(ByteType)
      BY <1>3, <1>4
    <2>2. carry \o f \in Seq(ByteType) /\ Len(carry \o f) = Len(carry) + Len(f)
      BY ONLY <2>1, ConcatProperties
    <2>3. got \o f \in Seq(ByteType) /\ Len(got \o f) = Len(got) + Len(f)
      BY ONLY <2>1, ConcatProperties
    <2>. QED
      BY <1>4, <2>2, <2>3
  <1>6. NotUp => carry \o f = <<>>
    <2>. SUFFICES ASSUME NotUp PROVE carry \o f = <<>>
      OBVIOUS
    <2>1. Len(carry) = 0 /\ Len(rx) = 0
      BY EmptySeq DEF Carried, Fresh, NotUp
    <2>. QED
      BY <1>1, <1>5, <2>1, EmptySeq
  <1>7. sr \in Online => carry \o f = Rest(got \o f, written)
    <2>1. written \in 0..Len(got)
      BY <1>3
    <2>. QED
      BY <1>3, <1>4, <2>1, RestConcat DEF Carried
  <1>8. Arriving' = Arriving
    BY <1>2 DEF Arriving
  <1>9. /\ written + Len(carry \o f) <= Len(got \o f)
        /\ Len(got \o f) + Len(r) + Len(Arriving) <= sent
    BY <1>1, <1>3, <1>4, <1>5
  <1>. QED
    BY <1>2, <1>5, <1>6, <1>7, <1>8, <1>9 DEF Carried, NotUp

(* Open and reconnect come with an empty buffer.  Where the connection of  *)
(* the session before is still up on the chip, that session had moved no   *)
(* byte.                                                                   *)
LEMMA RearmCarry ==
    ASSUME TypeOK, Phase, Carried, Open \/ Reconnect, Session, carry' = <<>>
    PROVE  Carried'
  <1>1. /\ rx' = <<>> /\ UNCHANGED <<sr, bulk, got, written, sent, peerGot>>
    BY DEF Open, Reconnect, Rearm, chipVars, peerVars
  <1>2. Arriving' = Arriving
    BY <1>1 DEF Arriving
  <1>3. /\ Len(carry) \in Nat /\ Len(got) \in Nat /\ Len(Arriving) \in Nat /\ Len(rx) \in Nat
        /\ written \in Nat /\ sent \in Nat /\ written + Len(carry) <= Len(got)
        /\ Len(got) + Len(rx) + Len(Arriving) <= sent /\ <<>> \in Seq(ByteType)
        /\ Len(<<>>) = 0
    BY Pieces, LenProperties DEF Carried
  <1>4. sr \in Online => carry = <<>>
    <2>1. sr \in Online => st = "ClosingDueToError"
      BY DEF Open, Reconnect, Phase, Session, Terminal, Online
    <2>. QED
      BY <2>1 DEF Carried, NotUp
  <1>5. /\ written + Len(<<>>) <= Len(got) /\ Len(got) + Len(<<>>) + Len(Arriving) <= sent
    BY <1>3
  <1>. QED
    BY <1>1, <1>2, <1>3, <1>4, <1>5 DEF Carried

(* A new connection starts with nothing sent, read or carried over.        *)
LEMMA ConnectCarry ==
    ASSUME TypeOK, Fresh, Carried, PeerConnects, carry' = carry
    PROVE  Carried'
  <1>1. /\ got' = <<>> /\ peerGot' = <<>> /\ sent' = 0 /\ written' = 0
        /\ UNCHANGED <<rx, bulk>>
    BY DEF PeerConnects, ringVars
  <1>2. NotUp
    BY DEF PeerConnects, NotUp
  <1>3. carry = <<>> /\ rx = <<>> /\ Arriving' = <<>>
    BY <1>1, <1>2 DEF Carried, Fresh, NotUp, Arriving, NoBulk
  <1>4. Rest(<<>>, 0) = <<>> /\ <<>> \in Seq(ByteType) /\ Len(<<>>) = 0
    BY CutWhole, EmptySeq
  <1>. QED
    BY <1>1, <1>3, <1>4 DEF Carried

(* Every step but a reset keeps the carry-over as it should be.            *)
LEMMA CarriedStep ==
    ASSUME TypeOK, Room, Phase, Fresh, Session, Streams, Position, Carried,
           TypeOK', Streams', [EchoNext]_allVars, ~EchoWrite, resets = 0, resets' = 0
    PROVE  Carried'
  <1>1. CASE LinkSeen \/ CheckLink \/ UNCHANGED allVars
    <2>1. UNCHANGED vars /\ carry' = carry
      BY <1>1 DEF LinkSeen, CheckLink, allVars, echoVars
    <2>2. UNCHANGED <<st, sr, bulk, rx, got, written, sent, peerGot>>
      BY <2>1 DEF vars, drvVars, ringVars, appVars, chipVars, peerVars
    <2>. QED
      BY <2>1, <2>2 DEF Carried, NotUp, Arriving
  <1>2. CASE BringUp
    BY <1>2, RearmCarry DEF BringUp, Position
  <1>3. CASE EchoRearm
    BY <1>3, RearmCarry DEF EchoRearm, Position, Reconnect
  <1>4. CASE EchoRead
    BY <1>4, ReadCarry
  <1>5. CASE CheckStatus \/ EchoService \/ EchoTick \/ EchoDmaComplete
               \/ Environment
    <2>1. /\ Peer \/ ChipCommand \/ Tick \/ Service \/ DmaComplete \/ AppStatus
          /\ carry' = carry
      BY <1>5 DEF CheckStatus, EchoService, EchoTick, EchoDmaComplete,
                  Environment, echoVars
    <2>2. CASE PeerConnects
      BY <2>1, <2>2, ConnectCarry
    <2>3. CASE ~PeerConnects
      BY <2>1, <2>3, OthersCarry
    <2>. QED
      BY <2>2, <2>3
  <1>6. CASE LinkLost
    BY <1>6 DEF LinkLost, LinkReset
  <1>. QED
    BY <1>1, <1>2, <1>3, <1>4, <1>5, <1>6 DEF EchoNext, Thread

-----------------------------------------------------------------------------
(* No step takes back a reset.                                             *)
LEMMA ResetsGrow ==
    ASSUME resets \in Nat, [EchoNext]_allVars
    PROVE  resets' \in Nat /\ (resets' = 0 => resets = 0)
  <1>1. CASE UNCHANGED resets
    BY <1>1
  <1>2. CASE LinkLost
    BY <1>2 DEF LinkLost, LinkReset
  <1>3. CASE LinkSeen \/ CheckLink \/ UNCHANGED allVars
    BY <1>1, <1>3 DEF LinkSeen, CheckLink, allVars, vars, peerVars
  <1>4. CASE BringUp \/ EchoRearm \/ CheckStatus \/ EchoRead \/ EchoWrite
    BY <1>1, <1>4 DEF BringUp, EchoRearm, CheckStatus, EchoRead, EchoWrite, Open, Rearm,
                      AppStatus, peerVars
  <1>5. CASE EchoService \/ EchoDmaComplete \/ Environment
    BY <1>1, <1>5 DEF EchoService, EchoDmaComplete, Environment, Service,
         DmaComplete, Peer, PeerSyn, PeerConnects, PeerSends, PeerTakes, PeerFin,
         CloseEnds, PeerFails, ChipCommand, peerVars
  <1>6. CASE EchoTick
    BY <1>1, <1>6 DEF EchoTick, Tick, HandleClose, HandleInit, HandleOpening,
         HandleListening, ReadInterrupts, ConnectPending, ConnectingStatus, Receive,
         Transmit, EstablishedIdle, HandleClosing, RunIdle, peerVars
  <1>. QED
    BY <1>2, <1>3, <1>4, <1>5, <1>6 DEF EchoNext, Thread

(* The invariant of the echo firmware: as long as no link-loss reset has   *)
(* happened the socket, the thread and its carry-over buffer agree, if the *)
(* scratch buffers hold a full ring.                                       *)
THEOREM EchoInvariance ==
    ASSUME RingCap <= Scratch
    PROVE  EchoSpec => []EchoInv
  <1>1. EchoInit => EchoInv
    <2>. SUFFICES ASSUME EchoInit PROVE EchoInv
      OBVIOUS
    <2>1. Init /\ resets = 0
      BY DEF EchoInit, Init
    <2>2. TypeOK /\ Room /\ Phase /\ Fresh /\ Session /\ Streams
      BY <2>1, InitHolds
    <2>3. Position
      BY DEF EchoInit, Init, Position
    <2>4. Carried
      <3>1. Arriving = <<>> /\ sr \notin Online /\ <<>> \in Seq(ByteType) /\ Len(<<>>) = 0
        BY <2>1, EmptySeq DEF Init, Arriving, NoBulk, Online
      <3>. QED
        BY <3>1 DEF EchoInit, Init, Carried
    <2>. QED
      BY <2>1, <2>2, <2>3, <2>4 DEF EchoInv
  <1>2. EchoInv /\ [EchoNext]_allVars => EchoInv'
    <2>. SUFFICES ASSUME EchoInv, [EchoNext]_allVars PROVE EchoInv'
      OBVIOUS
    <2>1. resets' \in Nat /\ (resets' = 0 => resets = 0)
      BY ResetsGrow DEF EchoInv
    <2>2. ASSUME resets' = 0
          PROVE  /\ TypeOK' /\ Room' /\ Phase' /\ Fresh' /\ Session' /\ Streams'
                 /\ Position' /\ Carried'
      <3>1. /\ TypeOK /\ Room /\ Phase /\ Fresh /\ Session /\ Streams
            /\ Position /\ Carried /\ resets = 0
        BY <2>1, <2>2 DEF EchoInv
      <3>2. Position'
        BY <2>2, <3>1, PositionStep
      <3>3. CASE EchoWrite
        BY <3>1, <3>2, <3>3, EchoWriteStep
      <3>4. CASE ~EchoWrite
        <4>1. [Next]_vars
          BY <2>2, <3>1, <3>4, EchoIsSocket
        <4>2. TypeOK' /\ Room'
          BY <3>1, <4>1, ControlTypeStep, DataTypeStep DEF TypeOK, ControlType, DataType
        <4>3. Phase' /\ Fresh' /\ Session' /\ Streams'
          BY <2>2, <3>1, <4>1, ControlStep, StreamStep
        <4>4. Carried'
          BY <2>2, <3>1, <3>4, <4>2, <4>3, CarriedStep
        <4>. QED
          BY <3>2, <4>2, <4>3, <4>4
      <3>. QED
        BY <3>3, <3>4
    <2>. QED
      BY <2>1, <2>2 DEF EchoInv
  <1>. QED
    BY <1>1, <1>2, PTL DEF EchoSpec

(* While a connection is up and the link has not been lost, every byte the *)
(* client has sent is on its way back to it, in order and once, whatever   *)
(* the sizes of the rings, the chip's buffers and the carry-over buffer,   *)
(* if the scratch buffers hold a full ring.                                *)
THEOREM EchoConservedInvariance ==
    ASSUME RingCap <= Scratch
    PROVE  EchoSpec => []EchoConserved
  <1>1. EchoInv => EchoConserved
    <2>. SUFFICES ASSUME EchoInv, Live, resets = 0
                  PROVE  peerGot \o chipTx \o InFlight \o tx \o carry \o rx \o chipRx
                           = Bytes(conn, sent)
      BY DEF EchoConserved
    <2>1. TypeOK /\ Streams /\ Carried /\ sr \in Online
      BY DEF EchoInv, Live, Online
    <2>2. /\ peerGot \o chipTx \o InFlight \o tx = Bytes(conn, written)
          /\ got \o rx \o chipRx = Bytes(conn, sent)
      BY <2>1 DEF Streams
    <2>3. Bytes(conn, written) \o carry = got
      <3>1. got \in Seq(ByteType) /\ Len(got) \in Nat /\ written \in 0..Len(got)
        <4>1. got \in Seq(ByteType) /\ Len(got) \in Nat /\ written \in Nat /\ Len(carry) \in Nat
          BY <2>1, Pieces, LenProperties DEF Carried
        <4>. QED
          BY <2>1, <4>1 DEF Carried
      <3>2. got = Bytes(conn, Len(got))
        BY <2>1, GotStream
      <3>3. Front(got, written) = Bytes(conn, written)
        BY <3>1, <3>2 DEF Front, Bytes
      <3>4. Front(got, written) \o Rest(got, written) = got
        BY <3>1, Cut
      <3>. QED
        BY <2>1, <3>3, <3>4 DEF Carried
    <2>. QED
      BY <2>2, <2>3
  <1>. QED
    BY <1>1, EchoInvariance, PTL

(* As long as the link has not been lost, no client receives a byte it has *)
(* not sent in this connection, also after the connection has ended.       *)
THEOREM EchoOwnInvariance ==
    ASSUME RingCap <= Scratch
    PROVE  EchoSpec => []EchoOwn
  <1>1. EchoInv => EchoOwn
    <2>. SUFFICES ASSUME EchoInv, resets = 0, NEW i \in 1..Len(peerGot)
                  PROVE  i <= sent /\ peerGot[i] = <<conn, i>>
      BY DEF EchoOwn
    <2>1. TypeOK /\ Streams /\ Carried
      BY DEF EchoInv
    <2>2. Len(peerGot) \in Nat /\ sent \in Nat /\ Len(peerGot) <= sent
      BY <2>1, Pieces, LenProperties DEF Carried
    <2>3. peerGot = Bytes(conn, Len(peerGot))
      BY <2>1 DEF Streams
    <2>. QED
      BY <2>2, <2>3 DEF Bytes
  <1>. QED
    BY <1>1, EchoInvariance, PTL

=============================================================================
