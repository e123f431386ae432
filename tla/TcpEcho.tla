------------------------------ MODULE TcpEcho ------------------------------
(***************************************************************************)
(* The TCP half of the echo firmware over TcpSocket: the application       *)
(* thread of main.rs with its carry-over buffer takes the place of the     *)
(* arbitrary application.  Handlers may interrupt it between any two of    *)
(* its calls; once it sleeps only a handler wakes it.                      *)
(***************************************************************************)
EXTENDS TcpSocket

CONSTANT BufLen     \* size of the carry-over buffer

ASSUME BufAssumption == BufLen \in Nat \ {0}

VARIABLES
    app,       \* where the thread is
    carry      \* buf[off..len]: bytes read and not yet accepted by write

echoVars == <<app, carry>>
allVars == <<vars, echoVars>>

EchoInit == Init /\ app = "phase1" /\ carry = <<>>

-----------------------------------------------------------------------------
(* The thread.                                                             *)

\* Phase 1 ends: the link is up.
LinkSeen ==
    /\ app = "phase1" /\ link /\ pc = "idle"
    /\ app' = "phase2"
    /\ UNCHANGED <<vars, carry>>

\* Phase 2: the listener is opened the first time and re-armed later.
BringUp ==
    /\ app = "phase2"
    /\ IF st = "Free" THEN Open ELSE Rearm
    /\ carry' = <<>>
    /\ app' = "phase3"

\* Phase 3, the head of its loop.
CheckLink ==
    /\ app = "phase3" /\ pc = "idle"
    /\ app' = IF link THEN "status" ELSE "phase1"
    /\ UNCHANGED <<vars, carry>>

\* A loop that re-arms after Closed only.
MutCheckStatus ==
    /\ app = "status"
    /\ AppStatus
    /\ app' = CASE seen' = "Established" -> "read"
                [] seen' = "Terminal" /\ st = "Closed" /\ ~err -> "rearm"
                [] OTHER -> "sleep"
    /\ UNCHANGED carry

CheckStatus ==
    /\ app = "status"
    /\ AppStatus
    /\ app' = CASE seen' = "Established" -> "read"
                [] seen' = "Terminal" -> "rearm"
                [] OTHER -> "sleep"
    /\ UNCHANGED carry

\* A refill that does not wait for the previous chunk to be echoed.
MutEchoRead ==
    /\ app = "read" /\ AppRuns
    /\ LET n == Min({BufLen, Len(rx)})
       IN /\ rx' = Rest(rx, n)
          /\ got' = got \o Front(rx, n)
          /\ carry' = Front(rx, n)
    /\ app' = IF carry' = <<>> THEN "sleep" ELSE "write"
    /\ UNCHANGED <<mode, link, drvVars, tx, bulk, pc, seen, asked, written, chipVars,
                   peerVars>>

\* The buffer is refilled once the previous chunk is echoed.
EchoRead ==
    /\ app = "read" /\ AppRuns
    /\ LET n == IF carry = <<>> THEN Min({BufLen, Len(rx)}) ELSE 0
       IN /\ rx' = Rest(rx, n)
          /\ got' = got \o Front(rx, n)
          /\ carry' = carry \o Front(rx, n)
    /\ app' = IF carry' = <<>> THEN "sleep" ELSE "write"
    /\ UNCHANGED <<mode, link, drvVars, tx, bulk, pc, seen, asked, written, chipVars,
                   peerVars>>

\* The tx ring takes what it has room for.
EchoWrite ==
    /\ app = "write" /\ AppRuns
    /\ LET n == Min({Len(carry), RingCap - Len(tx)})
       IN /\ tx' = RingWrite(tx, carry)
          /\ carry' = Rest(carry, n)
          /\ written' = written + n
          /\ app' = IF n = 0 THEN "sleep" ELSE "read"
    /\ UNCHANGED <<mode, link, drvVars, rx, bulk, pc, seen, asked, got, chipVars,
                   peerVars>>

\* A re-arm that keeps the carry-over.
MutEchoRearm ==
    /\ app = "rearm"
    /\ Rearm
    /\ app' = "sleep"
    /\ UNCHANGED carry

\* The session is over: drop the carry-over and accept the next client.
EchoRearm ==
    /\ app = "rearm"
    /\ carry' = <<>>
    /\ Rearm
    /\ app' = "sleep"

Thread ==
    \/ LinkSeen \/ BringUp \/ CheckLink \/ CheckStatus
    \/ EchoRead \/ EchoWrite \/ EchoRearm

-----------------------------------------------------------------------------
(* The handlers wake the thread from its wfi.                              *)

Wake == app' = (IF app = "sleep" THEN "phase3" ELSE app)

EchoService == Service /\ Wake /\ UNCHANGED carry

EchoDmaComplete == DmaComplete /\ Wake /\ UNCHANGED carry

\* The link is lost; the reset meets no held cell.
LinkLost == LinkReset("whole") /\ Wake /\ UNCHANGED carry

Environment == (Peer \/ ChipCommand) /\ UNCHANGED echoVars
EchoTick == Tick /\ UNCHANGED echoVars

EchoNext ==
    \/ Thread
    \/ EchoService \/ EchoTick \/ EchoDmaComplete \/ LinkLost
    \/ Environment

EchoSpec == EchoInit /\ [][EchoNext]_allVars

(* Fairness: as in TcpSocket; but here service is fair with the link down  *)
(* too, so a link that was lost is found up again; the thread runs between *)
(* handlers, so that its fairness is strong.                               *)
EchoFairSpec ==
    /\ EchoSpec
    /\ WF_allVars(EchoService) /\ WF_allVars(EchoTick) /\ WF_allVars(EchoDmaComplete)
    /\ WF_allVars(ChipCommand /\ UNCHANGED echoVars)
    /\ WF_allVars(CloseEnds /\ UNCHANGED echoVars)
    /\ WF_allVars(PeerTakes /\ UNCHANGED echoVars)
    /\ SF_allVars(Thread)

-----------------------------------------------------------------------------
(* While a connection is up every byte the peer has sent is on its way     *)
(* back to it, in order and once: on the chip, in a ring, in a transfer or *)
(* in the carry-over buffer.                                               *)
EchoConserved ==
    Live /\ resets = 0 =>
      peerGot \o chipTx \o InFlight \o tx \o carry \o rx \o chipRx = Bytes(conn, sent)

(* A client is sent only what it has sent itself in this connection:       *)
(* nothing left over from another client bleeds into its echo.             *)
EchoOwn ==
    resets = 0 => \A i \in 1..Len(peerGot) : i <= sent /\ peerGot[i] = <<conn, i>>

(* While a client stays connected, everything it sends comes back: so does *)
(* the last byte it has sent.                                              *)
Echoed ==
    sr = "Established" /\ sent > 0
      ~> sr # "Established" \/ \E k \in 1..Len(peerGot) : peerGot[k] = <<conn, sent>>

(* The server always comes back to accepting or serving a client, however  *)
(* the last one left and also after the link was lost.                     *)
Serves == st # "Listening" ~> st = "Listening" \/ st = "Established"

(* Nothing read is ever lost to a full tx ring: a client that has sent     *)
(* everything and its FIN has its whole echo on the way when our FIN       *)
(* follows.                                                                *)
EchoComplete == sr = "LastAck" /\ resets = 0 => peerGot \o chipTx = Bytes(conn, sent)
=============================================================================
