-------------------------------- MODULE TcpSock --------------------------------
(* One socket of BMZ's TCP (tcpsock.c), as operators on its module data z.     *)
(*                                                                             *)
(* Sequence numbers are relative to the initial ones of each side: the SYN is  *)
(* 0, byte p of the stream has number p.  The tx buffer is the bytes get+1 to  *)
(* put of the stream, a segment's data the bytes lo+1 to lo+len.  The socket's *)
(* own receive window, the round trip estimate and the ports are left out.     *)
EXTENDS TcpConn, Integers, FiniteSets

CONSTANTS TxSize,    \* bytes the tx buffer can take (TX_BUF_SIZE-1 = 999)
          MsgRoom    \* bytes of data one message can take (446)

ASSUME TcpSockAssumption == TxSize \in Nat \ {0} /\ MsgRoom \in Nat \ {0}

AckPhase == {"IDLE", "SYN", "DATA", "FIN"}

(* tcpsock_reset.                                                              *)
ResetZ == [state |-> "CLOSED", ack_phase |-> "IDLE", send_ack |-> FALSE,
           get |-> 0, put |-> 0, tx_seq |-> 0, rx_seq |-> 0, unacked |-> 0,
           tx_window |-> 0, retry |-> FALSE, delay |-> FALSE, pending |-> FALSE]

MinOf(a, b) == IF a < b THEN a ELSE b

-------------------------------------------------------------------------------
(* connection_state_machine and its state entry functions.                     *)
Csm(z, ev) ==
    LET st == NextState(z.state, ev)
    IN  IF st = z.state THEN z
        ELSE IF st = "CLOSED" THEN ResetZ
        ELSE IF st = "LISTEN" /\ z.state = "SYN_RECVD"
          THEN [z EXCEPT !.state = st, !.ack_phase = "IDLE", !.send_ack = FALSE]
        ELSE [z EXCEPT !.state = st, !.retry = (st = "TIMED_WAIT") \/ @]

-------------------------------------------------------------------------------
(* tx_process.                                                                 *)
SendsData(z, action) == /\ z.ack_phase = "DATA"
                        /\ z.get # z.put
                        /\ \/ action \in {"TX_NEW_DATA", "TX_RETRY"}
                           \/ action = "TX_ACK" /\ z.unacked = 0

Prepared(z, action) ==
    CASE action = "TX_SYN_ACK" -> [z EXCEPT !.send_ack = TRUE, !.ack_phase = "SYN", !.tx_seq = 0]
      [] action = "TX_SYN"     -> [z EXCEPT !.ack_phase = "SYN", !.tx_seq = 0]
      [] action = "TX_FIN"     -> [z EXCEPT !.ack_phase = "FIN"]
      [] action = "TX_ACK"     -> [z EXCEPT !.send_ack = TRUE]
      [] OTHER                 -> z

Bits(p, action) ==
    (IF action \in {"TX_SYN_ACK", "TX_SYN"} \/ (action = "TX_RETRY" /\ p.ack_phase = "SYN")
       THEN {"SYN"} ELSE {})
    \cup (IF action = "TX_FIN" \/ (action = "TX_RETRY" /\ p.ack_phase = "FIN")
            THEN {"FIN"} ELSE {})
    \cup (IF action = "TX_RESET" THEN {"RST"} ELSE {})
    \cup (IF p.send_ack THEN {"ACK"} ELSE {})

Sends(z, action) ==
    /\ ~(action = "TX_NEW_DATA" /\ z.tx_window = 0)
    /\ Bits(Prepared(z, action), action) # {} \/ SendsData(z, action)

(* The bytes to send, the segments they take, and what segment k holds.        *)
Amount(z, action) == IF SendsData(z, action) THEN MinOf(z.put - z.get, z.tx_window) ELSE 0
NbrSegments(z, action) == IF Amount(z, action) = 0 THEN 1
                          ELSE (Amount(z, action) + MsgRoom - 1) \div MsgRoom

(* tx_seq += nbr_sent after each segment, although nbr_sent counts all that    *)
(* were sent before.                                                           *)
SeqOfFirst(z, k) == z.tx_seq
SeqOf(z, k) == z.tx_seq + MsgRoom * ((k * (k - 1)) \div 2)

Segment(z, action, k) ==
    LET p == Prepared(z, action)
    IN  [bits |-> Bits(p, action),
         seq  |-> SeqOf(p, k),
         ack  |-> IF p.send_ack THEN p.rx_seq ELSE 0,
         lo   |-> p.get + (k - 1) * MsgRoom,
         len  |-> MinOf(MsgRoom, Amount(z, action) - (k - 1) * MsgRoom)]

(* An acknowledgment is expected: the retry timer runs, from now if not before. *)
Awaits(z) == z.ack_phase \in {"SYN", "FIN"} \/ (z.ack_phase = "DATA" /\ z.get # z.put)
ArmRetryNewOnly(z) == IF z.unacked = 0 THEN z ELSE [z EXCEPT !.retry = @ \/ Awaits(z)]
ArmRetry(z) == [z EXCEPT !.retry = @ \/ Awaits(z)]

(* What may come of it: the pool gives messages for the first n segments only. *)
TxProcess(z, action) ==
    LET last == NbrSegments(z, action)
        After(n) == [Prepared(z, action) EXCEPT
                        !.unacked = MinOf(n * MsgRoom, Amount(z, action)),
                        !.pending = IF n > 0 THEN FALSE ELSE @]
    IN  IF Sends(z, action)
          THEN {[z |-> ArmRetry(After(n)),
                 out |-> {Segment(z, action, k) : k \in 1..n},
                 failed |-> n < last] : n \in 0..last}
          ELSE {[z |-> ArmRetry(Prepared(z, action)), out |-> {}, failed |-> FALSE]}

Quiet(z) == {[z |-> z, out |-> {}, failed |-> FALSE]}
Act(z, action) == IF action = "NULL" THEN Quiet(z) ELSE TxProcess(z, action)

-------------------------------------------------------------------------------
(* tcpsock_up for a segment s: is its acknowledgment valid, and what it does.  *)
NbrAckedAll(z, s) == IF z.ack_phase = "DATA" /\ s.ack > z.tx_seq THEN z.unacked
                     ELSE s.ack - z.tx_seq
NbrAcked(z, s) == s.ack - z.tx_seq
AckOkAny(z, s) == "ACK" \in s.bits /\ z.ack_phase # "IDLE"
AckOk(z, s) == /\ "ACK" \in s.bits
               /\ \/ z.ack_phase \in {"SYN", "FIN"} /\ NbrAcked(z, s) = 1
                  \/ z.ack_phase = "DATA" /\ NbrAcked(z, s) <= z.unacked

Stops(z, s) == /\ AckOk(z, s)
               /\ \/ z.ack_phase \in {"SYN", "FIN"}
                  \/ NbrAcked(z, s) > 0 /\ NbrAcked(z, s) = z.unacked

Acked(z, s) ==
    LET n == NbrAcked(z, s)
        y == [z EXCEPT !.tx_seq = @ + n, !.tx_window = s.win, !.retry = @ /\ ~Stops(z, s)]
    IN  IF ~AckOk(z, s) \/ n <= 0 THEN z
        ELSE CASE z.ack_phase = "SYN"  -> [y EXCEPT !.ack_phase = "DATA", !.unacked = 0]
               [] z.ack_phase = "FIN"  -> [y EXCEPT !.ack_phase = "IDLE"]
               [] z.ack_phase = "DATA" -> [y EXCEPT !.get = @ + n, !.unacked = @ - n]

EventOf(z, s) ==
    LET ack == AckOk(z, s)
        fin == "FIN" \in s.bits /\ s.seq = z.rx_seq
    IN  CASE "RST" \in s.bits -> "RX_RESET"
          [] "RST" \notin s.bits /\ "SYN" \in s.bits /\ ack -> "RX_SYN_ACK"
          [] s.bits \cap {"RST", "SYN"} = {} /\ fin -> IF ack THEN "RX_FIN_ACK" ELSE "RX_FIN"
          [] "RST" \notin s.bits /\ "SYN" \in s.bits /\ ~ack ->
                IF fin THEN "RX_FIN" ELSE "RX_SYN"
          [] s.bits \cap {"RST", "SYN"} = {} /\ ~fin -> IF ack THEN "RX_ACK" ELSE "NULL"

(* The event's effect, with the sequence number that a valid SYN or FIN takes. *)
Moved(z, s, ev) ==
    LET y == Csm(Acked(z, s), ev)
    IN  IF y.state = z.state THEN y
        ELSE CASE ev \in {"RX_SYN", "RX_SYN_ACK"} -> [y EXCEPT !.rx_seq = s.seq + 1]
               [] ev \in {"RX_FIN", "RX_FIN_ACK"} -> [y EXCEPT !.rx_seq = @ + 1]
               [] OTHER -> y

(* Data is passed up when it is the data expected, unless the socket has just  *)
(* entered LASTACK; then the application is told of the close instead.         *)
Listens(z, y) == IsRxState(z.state) /\ ~(y.state # z.state /\ y.state = "LASTACK")
Accepted(z, y, s) ==
    IF Listens(z, y) /\ y.rx_seq = s.seq /\ s.len > 0
      THEN [y EXCEPT !.rx_seq = @ + s.len, !.delay = TRUE, !.pending = TRUE] ELSE y

Up(z, s) ==
    LET ev == EventOf(z, s)
        y  == Moved(z, s, ev)
        w  == Accepted(z, y, s)
        wrong == Listens(z, y) /\ y.rx_seq # s.seq
        act == ActionOf(z.state, ev)
    IN  IF wrong THEN TxProcess(w, "TX_ACK")
        ELSE IF act = "NULL" /\ Stops(z, s) /\ w.get # w.put THEN TxProcess(w, "TX_NEW_DATA")
        ELSE Act(w, act)

-------------------------------------------------------------------------------
(* tcpsock_down for n bytes of data that fit, a CLOSE and an ABORT.            *)
DownData(z, n) == LET y == [z EXCEPT !.put = @ + n]
                  IN  IF z.unacked = 0 THEN TxProcess(y, "TX_NEW_DATA") ELSE Quiet(y)
DownClose(z) == IF z.unacked = 0 THEN Act(Csm(z, "CLOSE"), ActionOf(z.state, "CLOSE"))
                ELSE Quiet(z)
DownAbort(z) == {[o EXCEPT !.z = ResetZ] : o \in TxProcess(z, "TX_RESET")}

(* tcpsock_timeout of the retry and of the delayed ack timer.                  *)
TimeoutRetry(z) == LET y == [z EXCEPT !.retry = FALSE]
                   IN  IF z.state = "TIMED_WAIT" THEN Quiet(ResetZ)
                       ELSE TxProcess(y, "TX_RETRY")
TimeoutDelayedAck(z) == LET y == [z EXCEPT !.delay = FALSE]
                        IN  IF z.pending THEN TxProcess(y, "TX_ACK") ELSE Quiet(y)
===============================================================================
