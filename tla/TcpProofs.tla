------------------------------- MODULE TcpProofs -------------------------------
(* Proofs about TcpLink, for any sizes of buffers and messages, any windows    *)
(* and any bounds, whatever segments come in, are lost or cannot be sent:      *)
(*   a socket that expects an acknowledgment has its retry timer running;      *)
(*   no byte leaves the tx buffer before the peer has it;                      *)
(*   as long as never more than two messages' data is sent at once the peer    *)
(*   gets every byte in its place; a third segment is misnumbered, since       *)
(*   tx_seq += nbr_sent counts the first one twice (the run tcp_three), and    *)
(*   its bytes are the only ones ever misplaced, by one message;               *)
(*   every number the socket keeps is in its range.                            *)
EXTENDS TcpLink, WellFoundedInduction, TLAPS

(* The module data of a socket: what is unacknowledged is in the tx buffer.    *)
SocketRecord == [state : State, ack_phase : AckPhase, send_ack : BOOLEAN,
                 get : Nat, put : Nat, tx_seq : Int, rx_seq : Int, unacked : Nat,
                 tx_window : Nat, retry : BOOLEAN, delay : BOOLEAN, pending : BOOLEAN]
Socket == {y \in SocketRecord : y.get <= y.put /\ y.unacked <= y.put - y.get}

Bit == {"SYN", "FIN", "RST", "ACK"}
FromBmz  == [bits : SUBSET Bit, seq : Int, ack : Int, lo : Int, len : Int]
FromPeer == [bits : SUBSET Bit, seq : Int, ack : Int, len : Int, win : Nat]
PeerState == {"CLOSED", "SYN_SENT", "ESTABLISHED", "TIMED_WAIT"}
PeerRecord == [st : PeerState, fin : BOOLEAN,
               got : [Position -> Int], rcv : Int, end : BOOLEAN, snd : Int, una : Int]

Typed == /\ z \in Socket
         /\ toPeer \subseteq FromBmz
         /\ toBmz \subseteq FromPeer
         /\ peer \in PeerRecord

Armed(y) == Awaits(y) => y.retry
IInv == Typed /\ Armed(z)

(* What a handler may make of the socket, and send.                            *)
Fine(o) == o.z \in Socket /\ Armed(o.z) /\ o.out \subseteq FromBmz

-------------------------------------------------------------------------------
LEMMA ResetType == ResetZ \in Socket /\ Armed(ResetZ) /\ ~Awaits(ResetZ)
  BY DEF ResetZ, Socket, SocketRecord, State, AckPhase, Armed, Awaits

LEMMA NextStateType ==
  ASSUME NEW st \in State, NEW ev
  PROVE  NextState(st, ev) \in State
  <1>1. \A e \in Edges : e[4] \in State
    BY DEF Edges, State
  <1>2. CASE EdgeOf(st, ev) = {}
    BY <1>2 DEF NextState
  <1>3. CASE EdgeOf(st, ev) # {}
    <2>1. (CHOOSE e \in EdgeOf(st, ev) : TRUE) \in EdgeOf(st, ev)
      BY <1>3
    <2>2. EdgeOf(st, ev) \subseteq Edges
      BY DEF EdgeOf
    <2> QED BY <1>1, <1>3, <2>1, <2>2 DEF NextState
  <1> QED BY <1>2, <1>3

LEMMA ActionType ==
  ASSUME NEW st \in State, NEW ev
  PROVE  ActionOf(st, ev) \in Action
  <1>1. \A e \in Edges : e[3] \in Action
    BY DEF Edges, Action
  <1>2. CASE EdgeOf(st, ev) = {}
    BY <1>2 DEF ActionOf, Action
  <1>3. CASE EdgeOf(st, ev) # {}
    <2>1. (CHOOSE e \in EdgeOf(st, ev) : TRUE) \in EdgeOf(st, ev)
      BY <1>3
    <2>2. EdgeOf(st, ev) \subseteq Edges
      BY DEF EdgeOf
    <2> QED BY <1>1, <1>3, <2>1, <2>2 DEF ActionOf
  <1> QED BY <1>2, <1>3

(* connection_state_machine leaves the account of the data alone, or clears it *)
(* with the phase, and never stops the retry timer of a socket that needs it.  *)
LEMMA CsmType ==
  ASSUME NEW y \in Socket, NEW ev
  PROVE  /\ Csm(y, ev) \in Socket
         /\ Awaits(Csm(y, ev)) => Awaits(y) /\ (y.retry => Csm(y, ev).retry)
         /\ Csm(y, ev).ack_phase \in {"IDLE", y.ack_phase}
         /\ Csm(y, ev).get # Csm(y, ev).put => y.get # y.put
  <1> DEFINE st == NextState(y.state, ev)
  <1>1. st \in State
    BY NextStateType DEF Socket, SocketRecord
  <1> HIDE DEF st
  <1>2. CASE st = y.state
    BY <1>2 DEF Csm, st
  <1>3. CASE st # y.state /\ st = "CLOSED"
    <2>1. Csm(y, ev) = ResetZ
      BY <1>3 DEF Csm, st
    <2>2. ResetZ.ack_phase = "IDLE" /\ ResetZ.get = ResetZ.put
      BY DEF ResetZ
    <2> QED BY <2>1, <2>2, ResetType
  <1>4. CASE st # y.state /\ st = "LISTEN" /\ y.state = "SYN_RECVD"
    <2>1. Csm(y, ev) = [y EXCEPT !.state = st, !.ack_phase = "IDLE", !.send_ack = FALSE]
      BY <1>4 DEF Csm, st
    <2> QED BY <1>1, <2>1 DEF Socket, SocketRecord, AckPhase, Awaits
  <1>5. CASE st # y.state /\ st # "CLOSED" /\ ~(st = "LISTEN" /\ y.state = "SYN_RECVD")
    <2>1. Csm(y, ev) = [y EXCEPT !.state = st, !.retry = (st = "TIMED_WAIT") \/ @]
      BY <1>5 DEF Csm, st
    <2>2. ((st = "TIMED_WAIT") \/ y.retry) \in BOOLEAN
      OBVIOUS
    <2> QED BY <1>1, <2>1, <2>2 DEF Socket, SocketRecord, Awaits
  <1> QED BY <1>2, <1>3, <1>4, <1>5

-------------------------------------------------------------------------------
(* tx_process.                                                                 *)
LEMMA PreparedType ==
  ASSUME NEW y \in Socket, NEW action \in Action
  PROVE  /\ Prepared(y, action) \in Socket
         /\ Prepared(y, action).get = y.get /\ Prepared(y, action).put = y.put
  <1>1. CASE action = "TX_SYN_ACK"
    <2>1. Prepared(y, action) = [y EXCEPT !.send_ack = TRUE, !.ack_phase = "SYN", !.tx_seq = 0]
      BY <1>1 DEF Prepared
    <2>2. "SYN" \in AckPhase /\ 0 \in Int /\ TRUE \in BOOLEAN
      BY DEF AckPhase
    <2> QED BY <2>1, <2>2 DEF Socket, SocketRecord
  <1>2. CASE action = "TX_SYN"
    <2>1. Prepared(y, action) = [y EXCEPT !.ack_phase = "SYN", !.tx_seq = 0]
      BY <1>2 DEF Prepared
    <2>2. "SYN" \in AckPhase /\ 0 \in Int
      BY DEF AckPhase
    <2> QED BY <2>1, <2>2 DEF Socket, SocketRecord
  <1>3. CASE action = "TX_FIN"
    BY <1>3 DEF Prepared, Socket, SocketRecord, AckPhase
  <1>4. CASE action = "TX_ACK"
    BY <1>4 DEF Prepared, Socket, SocketRecord, AckPhase
  <1>5. CASE action \notin {"TX_SYN_ACK", "TX_SYN", "TX_FIN", "TX_ACK"}
    BY <1>5 DEF Prepared
  <1> QED BY <1>1, <1>2, <1>3, <1>4, <1>5

LEMMA ArmRetryType ==
  ASSUME NEW y \in Socket
  PROVE  ArmRetry(y) \in Socket /\ Armed(ArmRetry(y))
  <1>1. (y.retry \/ Awaits(y)) \in BOOLEAN
    BY DEF Socket, SocketRecord, Awaits
  <1>2. ArmRetry(y) = [y EXCEPT !.retry = y.retry \/ Awaits(y)]
    BY DEF ArmRetry
  <1> QED BY <1>1, <1>2 DEF Socket, SocketRecord, Armed, Awaits

LEMMA AmountType ==
  ASSUME NEW y \in Socket, NEW action \in Action
  PROVE  Amount(y, action) \in Nat /\ Amount(y, action) <= y.put - y.get
  BY DEF Amount, MinOf, Socket, SocketRecord

LEMMA SegmentType ==
  ASSUME NEW y \in Socket, NEW action \in Action, NEW k \in Int
  PROVE  Segment(y, action, k) \in FromBmz
  <1> DEFINE p == Prepared(y, action)
             a == Amount(y, action)
  <1>1. p \in Socket /\ a \in Int /\ MsgRoom \in Int
    BY PreparedType, AmountType, TcpSockAssumption
  <1> HIDE DEF p, a
  <1>2. Bits(p, action) \in SUBSET Bit
    BY DEF Bits, Bit
  <1>3. p.tx_seq \in Int /\ p.rx_seq \in Int /\ p.get \in Int
    BY <1>1 DEF Socket, SocketRecord
  <1>4. SeqOf(p, k) \in Int
    BY <1>1, <1>3 DEF SeqOf
  <1>5. (IF p.send_ack THEN p.rx_seq ELSE 0) \in Int
    BY <1>3
  <1>6. p.get + (k - 1) * MsgRoom \in Int
    BY <1>1, <1>3
  <1>7. MinOf(MsgRoom, a - (k - 1) * MsgRoom) \in Int
    BY <1>1 DEF MinOf
  <1> QED BY <1>2, <1>4, <1>5, <1>6, <1>7 DEF Segment, FromBmz, p, a

LEMMA TxType ==
  ASSUME NEW y \in Socket, NEW action \in Action, NEW o \in TxProcess(y, action)
  PROVE  Fine(o)
  <1> DEFINE p == Prepared(y, action)
             last == NbrSegments(y, action)
             After(n) == [p EXCEPT !.unacked = MinOf(n * MsgRoom, Amount(y, action)),
                                   !.pending = IF n > 0 THEN FALSE ELSE @]
  <1>1. p \in Socket /\ p.get = y.get /\ p.put = y.put
    BY PreparedType
  <1>2. Amount(y, action) \in Nat /\ Amount(y, action) <= y.put - y.get
        /\ MsgRoom \in Nat \ {0}
    BY AmountType, TcpSockAssumption
  <1>3. CASE Sends(y, action)
    <2>1. PICK n \in 0..last : o = [z |-> ArmRetry(After(n)),
                                    out |-> {Segment(y, action, k) : k \in 1..n},
                                    failed |-> n < last]
      BY <1>3 DEF TxProcess
    <2>2. n \in Nat
      <3>1. last \in Int
        BY <1>2 DEF NbrSegments
      <3> HIDE DEF last
      <3> QED BY <3>1
    <2>3. MinOf(n * MsgRoom, Amount(y, action)) \in Nat
          /\ MinOf(n * MsgRoom, Amount(y, action)) <= y.put - y.get
      <3>1. n * MsgRoom \in Nat
        BY <1>2, <2>2
      <3>2. y.put - y.get \in Int
        BY DEF Socket, SocketRecord
      <3> QED BY <1>2, <3>1, <3>2 DEF MinOf
    <2> HIDE DEF p
    <2>4. After(n) \in Socket
      <3>1. (IF n > 0 THEN FALSE ELSE p.pending) \in BOOLEAN
        BY <1>1 DEF Socket, SocketRecord
      <3>2. After(n) = [p EXCEPT !.unacked = MinOf(n * MsgRoom, Amount(y, action)),
                                 !.pending = IF n > 0 THEN FALSE ELSE p.pending]
        OBVIOUS
      <3> QED BY <1>1, <2>3, <3>1, <3>2 DEF Socket, SocketRecord
    <2> HIDE DEF After
    <2>5. \A k \in 1..n : Segment(y, action, k) \in FromBmz
      BY <2>2, SegmentType
    <2> QED BY <2>1, <2>4, <2>5, ArmRetryType DEF Fine
  <1>4. CASE ~Sends(y, action)
    <2>1. o = [z |-> ArmRetry(p), out |-> {}, failed |-> FALSE]
      BY <1>4 DEF TxProcess
    <2> HIDE DEF p
    <2> QED BY <1>1, <2>1, ArmRetryType DEF Fine
  <1> QED BY <1>3, <1>4

LEMMA QuietType ==
  ASSUME NEW y \in Socket, Armed(y), NEW o \in Quiet(y)
  PROVE  Fine(o)
  BY DEF Quiet, Fine

LEMMA ActType ==
  ASSUME NEW y \in Socket, NEW action \in Action, action = "NULL" => Armed(y),
         NEW o \in Act(y, action)
  PROVE  Fine(o)
  <1>1. CASE action = "NULL"
    BY <1>1, QuietType DEF Act
  <1>2. CASE action # "NULL"
    BY <1>2, TxType DEF Act
  <1> QED BY <1>1, <1>2

-------------------------------------------------------------------------------
(* tcpsock_up: an acknowledgment stops the timer only when it leaves nothing   *)
(* to be acknowledged, or more data is sent at once.                           *)
LEMMA AckedType ==
  ASSUME NEW y \in Socket, NEW s \in FromPeer
  PROVE  /\ Acked(y, s) \in Socket
         /\ ~Stops(y, s) /\ Armed(y) => Armed(Acked(y, s))
         /\ Stops(y, s) => Acked(y, s).ack_phase \in {"DATA", "IDLE"}
  <1> DEFINE n == NbrAcked(y, s)
             w == [y EXCEPT !.tx_seq = @ + n, !.tx_window = s.win,
                            !.retry = @ /\ ~Stops(y, s)]
  <1>1. n \in Int /\ s.win \in Nat
    BY DEF NbrAcked, Socket, SocketRecord, FromPeer
  <1>2. CASE ~AckOk(y, s)
    BY <1>2 DEF Acked, Stops
  <1>3. CASE AckOk(y, s) /\ n <= 0
    <2>1. Acked(y, s) = y
      BY <1>3 DEF Acked
    <2>2. ~Stops(y, s)
      <3>1. n # 1 /\ ~(n > 0)
        BY <1>1, <1>3
      <3> QED BY <1>3, <3>1 DEF Stops, AckOk
    <2> QED BY <2>1, <2>2
  <1>4. CASE AckOk(y, s) /\ ~(n <= 0)
    <2>1. /\ y.tx_seq + n \in Int /\ (y.retry /\ ~Stops(y, s)) \in BOOLEAN
          /\ n \in Nat /\ n > 0
      BY <1>1, <1>4 DEF Socket, SocketRecord
    <2>2. w = [y EXCEPT !.tx_seq = y.tx_seq + n, !.tx_window = s.win,
                        !.retry = y.retry /\ ~Stops(y, s)]
      OBVIOUS
    <2> HIDE DEF n
    <2>3. /\ w \in Socket
          /\ w.get = y.get /\ w.put = y.put /\ w.unacked = y.unacked
          /\ w.ack_phase = y.ack_phase /\ w.retry = (y.retry /\ ~Stops(y, s))
      BY <1>1, <2>1, <2>2 DEF Socket, SocketRecord
    <2>4. Acked(y, s) = CASE y.ack_phase = "SYN"  -> [w EXCEPT !.ack_phase = "DATA", !.unacked = 0]
                          [] y.ack_phase = "FIN"  -> [w EXCEPT !.ack_phase = "IDLE"]
                          [] y.ack_phase = "DATA" -> [w EXCEPT !.get = @ + n, !.unacked = @ - n]
      BY <1>4 DEF Acked, n
    <2> HIDE DEF w
    <2>5. CASE y.ack_phase = "SYN"
      <3>1. Stops(y, s)
        BY <1>4, <2>5 DEF Stops
      <3>2. Acked(y, s) = [w EXCEPT !.ack_phase = "DATA", !.unacked = 0]
        BY <2>4, <2>5
      <3>3. "DATA" \in AckPhase /\ 0 \in Nat
        BY DEF AckPhase
      <3>4. 0 <= w.put - w.get
        BY <2>3 DEF Socket, SocketRecord
      <3> QED BY <2>3, <3>1, <3>2, <3>3, <3>4 DEF Socket, SocketRecord
    <2>6. CASE y.ack_phase = "FIN"
      <3>1. Stops(y, s)
        BY <1>4, <2>6 DEF Stops
      <3>2. Acked(y, s) = [w EXCEPT !.ack_phase = "IDLE"]
        BY <2>4, <2>6
      <3> QED BY <2>3, <3>1, <3>2 DEF Socket, SocketRecord, AckPhase
    <2>7. CASE y.ack_phase = "DATA"
      <3>1. n <= y.unacked /\ (n # y.unacked => ~Stops(y, s))
        BY <1>4, <2>7 DEF AckOk, Stops, n
      <3>2. Acked(y, s) = [w EXCEPT !.get = w.get + n, !.unacked = w.unacked - n]
        BY <2>4, <2>7
      <3>3. /\ w.get \in Nat /\ w.put \in Nat /\ w.unacked \in Nat
            /\ w.get <= w.put /\ w.unacked <= w.put - w.get
        BY <2>3 DEF Socket, SocketRecord
      <3>4. /\ w.get + n \in Nat /\ w.unacked - n \in Nat /\ w.get + n <= w.put
            /\ w.unacked - n <= w.put - (w.get + n)
        BY <2>1, <2>3, <3>1, <3>3
      <3>5. Acked(y, s) \in Socket
        BY <2>3, <3>2, <3>4 DEF Socket, SocketRecord
      <3>6. Acked(y, s).ack_phase = "DATA" /\ Acked(y, s).retry = w.retry
        BY <2>3, <2>7, <3>2 DEF Socket, SocketRecord
      <3>7. w.get # w.put
        BY <2>1, <2>3, <3>1, <3>3
      <3>8. Awaits(y)
        BY <2>3, <2>7, <3>7 DEF Awaits
      <3>9. ~Stops(y, s) /\ Armed(y) => Acked(y, s).retry
        BY <2>3, <3>6, <3>8, Zenon DEF Armed
      <3> QED BY <3>5, <3>6, <3>9 DEF Armed
    <2> QED BY <1>4, <2>5, <2>6, <2>7 DEF AckOk
  <1> QED BY <1>2, <1>3, <1>4

LEMMA MovedType ==
  ASSUME NEW y \in Socket, NEW s \in FromPeer, NEW ev, Armed(y)
  PROVE  /\ Moved(y, s, ev) \in Socket
         /\ ~Stops(y, s) => Armed(Moved(y, s, ev))
         /\ Moved(y, s, ev).ack_phase = "IDLE" \/ (Stops(y, s) => Moved(y, s, ev).ack_phase = "DATA")
  <1> DEFINE a == Acked(y, s)
             c == Csm(a, ev)
  <1>1. /\ a \in Socket
        /\ ~Stops(y, s) => Armed(a)
        /\ Stops(y, s) => a.ack_phase \in {"DATA", "IDLE"}
    BY AckedType
  <1> HIDE DEF a
  <1>2. /\ c \in Socket
        /\ Awaits(c) => Awaits(a) /\ (a.retry => c.retry)
        /\ c.ack_phase \in {"IDLE", a.ack_phase}
    BY <1>1, CsmType
  <1> HIDE DEF c
  <1>3. ~Stops(y, s) => Armed(c)
    BY <1>1, <1>2 DEF Armed
  <1>4. \E x \in Int : Moved(y, s, ev) = c \/ Moved(y, s, ev) = [c EXCEPT !.rx_seq = x]
    <2>1. s.seq + 1 \in Int /\ c.rx_seq + 1 \in Int
      BY <1>2 DEF FromPeer, Socket, SocketRecord
    <2>2. \/ Moved(y, s, ev) = c
          \/ Moved(y, s, ev) = [c EXCEPT !.rx_seq = s.seq + 1]
          \/ Moved(y, s, ev) = [c EXCEPT !.rx_seq = c.rx_seq + 1]
      <3>1. Moved(y, s, ev) =
               IF c.state = y.state THEN c
               ELSE CASE ev \in {"RX_SYN", "RX_SYN_ACK"} -> [c EXCEPT !.rx_seq = s.seq + 1]
                      [] ev \in {"RX_FIN", "RX_FIN_ACK"} -> [c EXCEPT !.rx_seq = @ + 1]
                      [] OTHER -> c
        BY DEF Moved, a, c
      <3>2. CASE ev \in {"RX_SYN", "RX_SYN_ACK"}
        BY <3>1, <3>2
      <3>3. CASE ev \in {"RX_FIN", "RX_FIN_ACK"}
        BY <3>1, <3>3
      <3>4. CASE ev \notin {"RX_SYN", "RX_SYN_ACK", "RX_FIN", "RX_FIN_ACK"}
        BY <3>1, <3>4
      <3> QED BY <3>2, <3>3, <3>4
    <2> QED BY <2>1, <2>2
  <1> DEFINE m == Moved(y, s, ev)
  <1>5. /\ m \in Socket /\ m.ack_phase = c.ack_phase /\ m.retry = c.retry
        /\ m.get = c.get /\ m.put = c.put
    <2> HIDE DEF m
    <2>1. PICK x \in Int : m = c \/ m = [c EXCEPT !.rx_seq = x]
      BY <1>4 DEF m
    <2>2. CASE m = c
      BY <1>2, <2>2
    <2>3. CASE m = [c EXCEPT !.rx_seq = x]
      BY <1>2, <2>3 DEF Socket, SocketRecord
    <2> QED BY <2>1, <2>2, <2>3
  <1> HIDE DEF m
  <1>6. ~Stops(y, s) => Armed(m)
    BY <1>3, <1>5 DEF Armed, Awaits
  <1>7. m.ack_phase = "IDLE" \/ (Stops(y, s) => m.ack_phase = "DATA")
    BY <1>1, <1>2, <1>5
  <1> QED BY <1>5, <1>6, <1>7 DEF m

LEMMA AcceptedType ==
  ASSUME NEW y \in Socket, NEW m \in Socket, NEW s \in FromPeer
  PROVE  /\ Accepted(y, m, s) \in Socket
         /\ Accepted(y, m, s).ack_phase = m.ack_phase /\ Accepted(y, m, s).retry = m.retry
         /\ Accepted(y, m, s).get = m.get /\ Accepted(y, m, s).put = m.put
  <1>1. \/ Accepted(y, m, s) = m
        \/ Accepted(y, m, s) = [m EXCEPT !.rx_seq = m.rx_seq + s.len, !.delay = TRUE,
                                         !.pending = TRUE]
    BY DEF Accepted
  <1>2. m.rx_seq + s.len \in Int
    BY DEF Socket, SocketRecord, FromPeer
  <1> QED BY <1>1, <1>2 DEF Socket, SocketRecord

LEMMA UpType ==
  ASSUME NEW y \in Socket, NEW s \in FromPeer, Armed(y), NEW o \in Up(y, s)
  PROVE  Fine(o)
  <1> DEFINE ev == EventOf(y, s)
             m == Moved(y, s, ev)
             w == Accepted(y, m, s)
             act == ActionOf(y.state, ev)
  <1>1. act \in Action
    BY ActionType DEF Socket, SocketRecord
  <1>2. /\ m \in Socket
        /\ ~Stops(y, s) => Armed(m)
        /\ m.ack_phase = "IDLE" \/ (Stops(y, s) => m.ack_phase = "DATA")
    BY MovedType
  <1> HIDE DEF m
  <1>3. /\ w \in Socket /\ w.ack_phase = m.ack_phase /\ w.retry = m.retry
        /\ w.get = m.get /\ w.put = m.put
    BY <1>2, AcceptedType
  <1>4. \/ o \in TxProcess(w, "TX_ACK")
        \/ o \in TxProcess(w, "TX_NEW_DATA")
        \/ o \in Act(w, act) /\ (act = "NULL" => ~(Stops(y, s) /\ w.get # w.put))
    BY DEF Up, m
  <1> HIDE DEF w, act
  <1>5. CASE o \in TxProcess(w, "TX_ACK") \/ o \in TxProcess(w, "TX_NEW_DATA")
    BY <1>3, <1>5, TxType DEF Action
  <1>6. CASE o \in Act(w, act) /\ (act = "NULL" => ~(Stops(y, s) /\ w.get # w.put))
    <2>1. ~Stops(y, s) => Armed(w)
      BY <1>2, <1>3 DEF Armed, Awaits
    <2>2. Stops(y, s) /\ w.get = w.put => Armed(w)
      BY <1>2, <1>3 DEF Armed, Awaits
    <2> QED BY <1>1, <1>3, <1>6, <2>1, <2>2, ActType
  <1> QED BY <1>4, <1>5, <1>6

-------------------------------------------------------------------------------
(* tcpsock_down, and the timers.                                               *)
LEMMA DownDataType ==
  ASSUME NEW y \in Socket, Armed(y), NEW n \in Nat, NEW o \in DownData(y, n)
  PROVE  Fine(o)
  <1> DEFINE x == [y EXCEPT !.put = y.put + n]
  <1>1. /\ x \in Socket /\ x.get = y.get /\ x.ack_phase = y.ack_phase /\ x.retry = y.retry
    BY DEF Socket, SocketRecord
  <1>2. o \in TxProcess(x, "TX_NEW_DATA") \/ (y.unacked # 0 /\ o \in Quiet(x))
    BY DEF DownData
  <1> HIDE DEF x
  <1>3. CASE o \in TxProcess(x, "TX_NEW_DATA")
    BY <1>1, <1>3, TxType DEF Action
  <1>4. CASE y.unacked # 0 /\ o \in Quiet(x)
    <2>1. y.get # y.put
      BY <1>4 DEF Socket, SocketRecord
    <2>2. Armed(x)
      BY <1>1, <2>1 DEF Armed, Awaits
    <2> QED BY <1>1, <1>4, <2>2, QuietType
  <1> QED BY <1>2, <1>3, <1>4

LEMMA DownCloseType ==
  ASSUME NEW y \in Socket, Armed(y), NEW o \in DownClose(y)
  PROVE  Fine(o)
  <1> DEFINE c == Csm(y, "CLOSE")
             act == ActionOf(y.state, "CLOSE")
  <1>1. act \in Action
    BY ActionType DEF Socket, SocketRecord
  <1>2. c \in Socket /\ Armed(c)
    BY CsmType DEF Armed
  <1>3. o \in Act(c, act) \/ o \in Quiet(y)
    BY DEF DownClose
  <1> HIDE DEF c, act
  <1> QED BY <1>1, <1>2, <1>3, ActType, QuietType

LEMMA DownAbortType ==
  ASSUME NEW y \in Socket, NEW o \in DownAbort(y)
  PROVE  Fine(o)
  <1>1. PICK p \in TxProcess(y, "TX_RESET") : o = [p EXCEPT !.z = ResetZ]
    BY DEF DownAbort
  <1>2. Fine(p)
    BY TxType DEF Action
  <1>3. /\ \E u, v, x : p = [z |-> u, out |-> v, failed |-> x]
    BY <1>1 DEF TxProcess
  <1>4. o.z = ResetZ /\ o.out = p.out
    BY <1>1, <1>3
  <1> QED BY <1>2, <1>4, ResetType DEF Fine

LEMMA TimeoutType ==
  ASSUME NEW y \in Socket, Armed(y), NEW o,
         o \in TimeoutRetry(y) \/ o \in TimeoutDelayedAck(y)
  PROVE  Fine(o)
  <1>1. CASE o \in TimeoutRetry(y)
    <2> DEFINE x == [y EXCEPT !.retry = FALSE]
    <2>1. x \in Socket
      BY DEF Socket, SocketRecord
    <2>2. o \in Quiet(ResetZ) \/ o \in TxProcess(x, "TX_RETRY")
      BY <1>1 DEF TimeoutRetry
    <2> HIDE DEF x
    <2> QED BY <2>1, <2>2, ResetType, QuietType, TxType DEF Action
  <1>2. CASE o \in TimeoutDelayedAck(y)
    <2> DEFINE x == [y EXCEPT !.delay = FALSE]
    <2>1. x \in Socket /\ Armed(x)
      BY DEF Socket, SocketRecord, Armed, Awaits
    <2>2. o \in Quiet(x) \/ o \in TxProcess(x, "TX_ACK")
      BY <1>2 DEF TimeoutDelayedAck
    <2> HIDE DEF x
    <2> QED BY <2>1, <2>2, QuietType, TxType DEF Action
  <1> QED BY <1>1, <1>2
-------------------------------------------------------------------------------
(* The steps.                                                                  *)
LEMMA BecomesType ==
  ASSUME IInv, NEW outcomes, \A o \in outcomes : Fine(o), Becomes(outcomes)
  PROVE  z' \in Socket /\ Armed(z') /\ (toPeer' \subseteq FromBmz)
  BY DEF IInv, Typed, Becomes, Carry, Fine

LEMMA BmzStep ==
  ASSUME IInv, Bmz
  PROVE  IInv'
  <1> USE DEF IInv, Typed
  <1>1. CASE Open
    <2>1. Csm(z, "OPEN_PASSIVE") \in Socket /\ Armed(Csm(z, "OPEN_PASSIVE"))
      BY CsmType DEF Armed
    <2> QED BY <1>1, <2>1 DEF Open
  <1>2. ASSUME NEW n \in 1..TxSize, SendData(n) PROVE IInv'
    <2>1. n \in Nat
      BY TcpSockAssumption
    <2>2. \A o \in DownData(z, n) : Fine(o)
      BY <2>1, DownDataType
    <2> QED BY <1>2, <2>2, BecomesType DEF SendData
  <1>3. CASE CloseDown
    BY <1>3, DownCloseType, BecomesType DEF CloseDown
  <1>4. CASE AbortDown
    BY <1>4, DownAbortType, BecomesType DEF AbortDown
  <1>5. ASSUME NEW s \in toBmz, Receive(s) PROVE IInv'
    <2>1. s \in FromPeer /\ toBmz' \subseteq FromPeer /\ peer' = peer
      BY <1>5 DEF Receive
    <2>2. \A o \in Up(z, s) : Fine(o)
      BY <2>1, UpType
    <2>3. UNCHANGED <<z, toPeer>> \/ Becomes(Up(z, s))
      BY <1>5 DEF Receive
    <2> QED BY <2>1, <2>2, <2>3, BecomesType
  <1>6. CASE RetryTimer
    BY <1>6, TimeoutType, BecomesType DEF RetryTimer
  <1>7. CASE DelayedAckTimer
    BY <1>7, TimeoutType, BecomesType DEF DelayedAckTimer
  <1> QED BY <1>1, <1>2, <1>3, <1>4, <1>5, <1>6, <1>7 DEF Bmz

(* The peer's part: what it sends has the types that tcpsock_up relies on.     *)
LEMMA NetworkStep ==
  ASSUME IInv, Network
  PROVE  IInv'
  BY DEF IInv, Typed, Network, LoseToPeer, LoseToBmz

LEMMA Least ==
  ASSUME NEW T \in SUBSET Nat, T # {}
  PROVE  \E x \in T : \A y \in T : x <= y
  <1> DEFINE R == OpToRel(<, Nat)
  <1>1. IsWellFoundedOn(R, Nat) /\ T \subseteq Nat
    BY NatLessThanWellFounded
  <1>2. \A x, y \in Nat : x < y => <<x, y>> \in R
    BY DEF OpToRel
  <1> HIDE DEF R
  <1>3. PICK x \in T : \A y \in T : <<y, x>> \notin R
    BY <1>1, WFMin
  <1>4. \A y \in T : ~(y < x)
    BY <1>1, <1>2, <1>3
  <1>5. \A y \in Nat : ~(y < x) => x <= y
    BY <1>1
  <1> QED BY <1>1, <1>3, <1>4, <1>5

(* There is a first byte the peer does not have.                               *)
LEMMA ContiguousType ==
  ASSUME NEW got \in [Position -> Int]
  PROVE  LET c == Contiguous(got)
         IN  /\ c \in 1..MaxPut+3
             /\ \A q \in 1..c-1 : got[q] # 0
             /\ c \in Position => got[c] = 0
  <1> DEFINE Missing == {p \in 1..MaxPut+3 : p \in Position => got[p] = 0}
             First(p) == /\ \A q \in 1..p-1 : got[q] # 0
                         /\ p \in Position => got[p] = 0
  <1>1. MaxPut \in Nat
    BY TcpLinkAssumption
  <1>2. MaxPut + 3 \in Missing /\ Missing \in SUBSET Nat
    BY <1>1 DEF Position
  <1>3. PICK p \in Missing : \A q \in Missing : p <= q
    <2> HIDE DEF Missing
    <2> QED BY <1>2, Least
  <1>4. p \in 1..MaxPut+3 /\ First(p)
    <2>1. p \in 1..MaxPut+3 /\ (p \in Position => got[p] = 0)
      OBVIOUS
    <2>2. ASSUME NEW q \in 1..p-1 PROVE got[q] # 0
      <3>1. q \in 1..MaxPut+3 /\ ~(p <= q)
        BY <1>1, <2>1
      <3> QED BY <1>3, <3>1
    <2> QED BY <2>1, <2>2
  <1>5. \E q \in 1..MaxPut+3 : First(q)
    BY <1>4
  <1> DEFINE c == CHOOSE q \in 1..MaxPut+3 : First(q)
  <1>6. c \in 1..MaxPut+3 /\ First(c)
    <2> HIDE DEF First
    <2> QED BY <1>5
  <1>7. Contiguous(got) = c
    BY Zenon DEF Contiguous
  <1> HIDE DEF c
  <1> QED BY <1>6, <1>7

LEMMA TakenType ==
  ASSUME NEW p \in PeerRecord, NEW s \in FromBmz
  PROVE  Taken(p, s) \in PeerRecord
  <1> DEFINE got  == IF p.end THEN p.got ELSE GotWith(p.got, s)
             next == IF p.end THEN p.rcv ELSE Contiguous(got)
             end  == p.end \/ ("FIN" \in s.bits /\ s.seq = next)
             una  == IF "ACK" \in s.bits /\ s.ack > p.una THEN s.ack ELSE p.una
             rcv  == IF end /\ ~p.end THEN next + 1 ELSE next
  <1>1. p.got \in [Position -> Int] /\ p.rcv \in Int /\ p.una \in Int /\ p.end \in BOOLEAN
    BY DEF PeerRecord
  <1>2. s.lo \in Int /\ s.seq \in Int /\ s.ack \in Int
    BY DEF FromBmz
  <1>3. Position \subseteq Int
    BY TcpLinkAssumption DEF Position
  <1>4. GotWith(p.got, s) \in [Position -> Int]
    <2>1. ASSUME NEW i \in Position
          PROVE  (IF p.got[i] = 0 /\ i \in s.seq..s.seq+s.len-1 THEN s.lo + i - s.seq + 1
                  ELSE p.got[i]) \in Int
      BY <1>1, <1>2, <1>3
    <2> QED BY <2>1 DEF GotWith
  <1>5. got \in [Position -> Int]
    BY <1>1, <1>4
  <1> HIDE DEF got
  <1>6. next \in Int
    BY <1>1, <1>5, ContiguousType, TcpLinkAssumption
  <1> HIDE DEF next
  <1>7. end \in BOOLEAN /\ una \in Int
    BY <1>1, <1>2
  <1>8. rcv \in Int
    BY <1>6
  <1> HIDE DEF end, una, rcv
  <1>9. Taken(p, s) = [p EXCEPT !.got = got, !.end = end, !.una = una, !.rcv = rcv]
    BY DEF Taken, got, next, end, una, rcv
  <1> QED BY <1>5, <1>7, <1>8, <1>9 DEF PeerRecord

LEMMA NewPeerType == NewPeer \in PeerRecord
  BY DEF NewPeer, PeerRecord, PeerState

LEMMA AckType ==
  ASSUME NEW p \in PeerRecord, NEW win \in Windows
  PROVE  Ack(p, win) \in FromPeer
  <1>1. win \in Nat /\ {"ACK"} \in SUBSET Bit
    BY TcpLinkAssumption DEF Bit
  <1>2. p.rcv \in Int /\ 1 + p.snd + (IF p.fin THEN 1 ELSE 0) \in Int
    BY DEF PeerRecord
  <1> QED BY <1>1, <1>2 DEF Ack, PeerSegment, FromPeer

LEMMA SegmentOfPeerType ==
  ASSUME NEW p \in PeerRecord, NEW bits \in SUBSET Bit, NEW seq \in Int, NEW len \in Int,
         NEW win \in Nat
  PROVE  PeerSegment(p, bits, seq, len, win) \in FromPeer
  BY DEF PeerSegment, FromPeer, PeerRecord

LEMMA SendsType ==
  ASSUME toBmz \subseteq FromPeer, NEW s \in FromPeer, PeerSends(s)
  PROVE  toBmz' \subseteq FromPeer
  BY DEF PeerSends, Carry

LEMMA TakesType ==
  ASSUME Typed, NEW win \in Windows, NEW s \in toPeer, PeerTakes(s, win)
  PROVE  peer' \in PeerRecord /\ (toBmz' \subseteq FromPeer)
  <1>1. s \in FromBmz /\ peer \in PeerRecord /\ toBmz \subseteq FromPeer
    BY DEF Typed
  <1>2. 1 \in Int /\ "ESTABLISHED" \in PeerState /\ "CLOSED" \in PeerState
    BY DEF PeerState
  <1>3. CASE peer' = [peer EXCEPT !.st = "ESTABLISHED", !.rcv = 1, !.una = 1]
             /\ PeerSends(Ack(peer', win))
    <2>1. peer' \in PeerRecord
      BY <1>1, <1>3, <1>2 DEF PeerRecord
    <2>2. Ack(peer', win) \in FromPeer
      BY <2>1, AckType
    <2> QED BY <1>1, <1>3, <2>1, <2>2, SendsType
  <1>4. CASE /\ peer' = LET p == Taken(peer, s)
                        IN  IF Finished(p) THEN [p EXCEPT !.st = "TIMED_WAIT"] ELSE p
             /\ IF s.len > 0 \/ "FIN" \in s.bits \/ s.seq # peer'.rcv
                  THEN PeerSends(Ack(peer', win)) ELSE UNCHANGED toBmz
    <2> DEFINE p == Taken(peer, s)
    <2>1. p \in PeerRecord
      BY <1>1, TakenType
    <2>2. peer' = p \/ peer' = [p EXCEPT !.st = "TIMED_WAIT"]
      BY <1>4
    <2> HIDE DEF p
    <2>3. peer' \in PeerRecord
      BY <2>1, <2>2 DEF PeerRecord, PeerState
    <2>4. Ack(peer', win) \in FromPeer
      BY <2>3, AckType
    <2>5. PeerSends(Ack(peer', win)) \/ UNCHANGED toBmz
      BY <1>4
    <2> QED BY <1>1, <2>3, <2>4, <2>5, SendsType
  <1>5. CASE PeerSends(Ack(peer, win)) /\ UNCHANGED peer
    BY <1>1, <1>5, AckType, SendsType
  <1>6. CASE peer' = [peer EXCEPT !.st = "CLOSED", !.una = 1] /\ UNCHANGED toBmz
    BY <1>1, <1>6, <1>2 DEF PeerRecord
  <1>7. CASE UNCHANGED <<peer, toBmz>>
    BY <1>1, <1>7
  <1> QED BY <1>3, <1>4, <1>5, <1>6, <1>7 DEF PeerTakes

LEMMA PeerStep ==
  ASSUME IInv, Peer
  PROVE  IInv'
  <1>0. Typed /\ peer \in PeerRecord /\ toBmz \subseteq FromPeer
    BY DEF IInv, Typed
  <1>1. peer.snd \in Int /\ peer.una \in Int /\ peer.snd + 1 \in Int /\ 1 + peer.snd \in Int
    BY <1>0 DEF PeerRecord
  <1>2. \A win \in Windows : win \in Nat
    BY TcpLinkAssumption
  <1>3. {"SYN"} \in SUBSET Bit /\ {"ACK"} \in SUBSET Bit /\ {"FIN", "ACK"} \in SUBSET Bit
    BY DEF Bit
  <1>4. PeerSegment(peer, {"SYN"}, 0, 0, 0) \in FromPeer
    BY <1>0, <1>3, SegmentOfPeerType
  <1>5. CASE Connect
    <2>1. peer' \in PeerRecord
      BY <1>0, <1>5 DEF Connect, PeerRecord, PeerState
    <2>2. toBmz' \subseteq FromPeer
      BY <1>0, <1>4, <1>5, SendsType DEF Connect
    <2> QED BY <1>5, <2>1, <2>2 DEF Connect, IInv, Typed
  <1>6. ASSUME NEW win \in Windows, PeerData(win) PROVE IInv'
    <2>1. peer' \in PeerRecord
      BY <1>0, <1>1, <1>6 DEF PeerData, PeerRecord
    <2>2. PeerSegment(peer, {"ACK"}, 1 + peer.snd, 1, win) \in FromPeer
      BY <1>0, <1>1, <1>2, <1>3, SegmentOfPeerType
    <2>3. toBmz' \subseteq FromPeer
      BY <1>0, <1>6, <2>2, SendsType DEF PeerData
    <2> QED BY <1>6, <2>1, <2>3 DEF PeerData, IInv, Typed
  <1>7. ASSUME NEW win \in Windows, PeerClose(win) PROVE IInv'
    <2>1. peer' \in PeerRecord
      BY <1>0, <1>7 DEF PeerClose, PeerRecord
    <2>2. PeerSegment(peer, {"FIN", "ACK"}, 1 + peer.snd, 0, win) \in FromPeer
      BY <1>0, <1>1, <1>2, <1>3, SegmentOfPeerType
    <2>3. toBmz' \subseteq FromPeer
      BY <1>0, <1>7, <2>2, SendsType DEF PeerClose
    <2> QED BY <1>7, <2>1, <2>3 DEF PeerClose, IInv, Typed
  <1>8. ASSUME NEW win \in Windows, PeerRepeats(win) PROVE IInv'
    <2>1. /\ PeerSegment(peer, {"ACK"}, peer.una, 1, win) \in FromPeer
          /\ PeerSegment(peer, {"FIN", "ACK"}, peer.una, 0, win) \in FromPeer
      BY <1>0, <1>1, <1>2, <1>3, SegmentOfPeerType
    <2>2. toBmz' \subseteq FromPeer
      BY <1>0, <1>4, <1>8, <2>1, SendsType DEF PeerRepeats
    <2> QED BY <1>8, <2>2 DEF PeerRepeats, IInv, Typed
  <1>9. ASSUME NEW win \in Windows, NEW s \in toPeer, PeerTakes(s, win) PROVE IInv'
    <2>1. peer' \in PeerRecord /\ (toBmz' \subseteq FromPeer)
      BY <1>0, <1>9, TakesType
    <2>2. z' = z /\ toPeer' = toPeer \ {s}
      BY <1>9 DEF PeerTakes
    <2> QED BY <2>1, <2>2 DEF IInv, Typed
  <1>10. CASE PeerForgets
    BY <1>10, NewPeerType DEF PeerForgets, IInv, Typed
  <1> QED BY <1>5, <1>6, <1>7, <1>8, <1>9, <1>10 DEF Peer

(* The types, and the retry timer: the invariant of the proof.                 *)
THEOREM Invariance == Spec => []IInv
  <1>1. Init => IInv
    BY ResetType, NewPeerType DEF Init, IInv, Typed
  <1>2. IInv /\ UNCHANGED vars => IInv'
    BY DEF IInv, Typed, Armed, Awaits, vars
  <1>3. IInv /\ [Next]_vars => IInv'
    BY <1>2, BmzStep, PeerStep, NetworkStep DEF Next
  <1> QED BY <1>1, <1>3, PTL DEF Spec

(* A socket that expects an acknowledgment, of its SYN, of data or of its FIN, *)
(* has its retry timer running: no lost segment, and no message that could not *)
(* be had to send one, silences it.                                            *)
THEOREM NeverSilenced == Spec => []RetryArmed
  <1>1. IInv => RetryArmed
    BY DEF IInv, Armed, RetryArmed
  <1> QED BY Invariance, <1>1, PTL

-------------------------------------------------------------------------------

(* tx_process never sends more than three segments at once: 999 bytes in       *)
(* messages of 446.                                                            *)
ThreeMessages == TxSize <= 3 * MsgRoom

(* What can be sent at once fits in two messages.                              *)
Few(y) == MinOf(y.put - y.get, y.tx_window) <= 2 * MsgRoom

(* Where the stream stands: before a connection is established there is no     *)
(* data, and while data is acknowledged tx_seq numbers the first byte in the   *)
(* tx buffer.                                                                  *)
Early == {"CLOSED", "LISTEN", "SYN_SENT", "SYN_RECVD"}
Located(y) == /\ y.put - y.get <= TxSize
              /\ y.state # "SYN_SENT"
              /\ y.state \in Early => y.put = 0
              /\ y.ack_phase = "DATA" => y.tx_seq = y.get + 1
              /\ y.ack_phase = "FIN" => y.state \notin Early
SynEarly(y) == y.ack_phase = "SYN" => y.state \in Early /\ y.tx_seq = 0
Cleared(y) == y.state = "CLOSED" => y = ResetZ
Placed(y) == Located(y) /\ SynEarly(y) /\ Cleared(y)

(* Once the socket has sent its FIN it sends no data.                          *)
Over(y) == y.state \notin {"LISTEN", "SYN_SENT", "SYN_RECVD"} /\ y.ack_phase \in {"FIN", "IDLE"}

(* The sequence number of a segment names its data; or it is a third segment,  *)
(* and its number is one message too high.                                     *)
Exact(s) == s.len > 0 => s.seq = s.lo + 1
Third(s) == s.seq = s.lo + 1 + MsgRoom /\ s.lo >= 2 * MsgRoom
Names(s) == ThreeMessages => Exact(s) \/ Third(s)

(* Where the peer may hold the byte it has for position i.                     *)
InPlace(got, i) == got[i] \in {0, i}
Shifted(got, i) == got[i] = i - MsgRoom /\ got[i] > 2 * MsgRoom

FinSent == peer.end \/ \E s \in toPeer : "FIN" \in s.bits
RstSent == (peer.st = "CLOSED" /\ peer # NewPeer) \/ \E s \in toPeer : "RST" \in s.bits
Listening == Csm(ResetZ, "OPEN_PASSIVE")

Epoch == /\ FinSent => Over(z)
         /\ RstSent => z.state = "CLOSED"
         /\ peer = NewPeer => toPeer = {} /\ toBmz = {} /\ z \in {ResetZ, Listening}
Held(p) == /\ ThreeMessages => \A i \in Position : InPlace(p.got, i) \/ Shifted(p.got, i)
           /\ ~p.end => p.rcv <= MaxPut + 3 /\ \A i \in Position : i < p.rcv => p.got[i] # 0
           /\ p.st = "SYN_SENT" => p.rcv = 0 /\ ~p.end
SInv == /\ IInv
        /\ Placed(z)
        /\ \A s \in toPeer : Names(s)
        /\ Epoch
        /\ Held(peer)
        /\ \A s \in toBmz : s.ack <= peer.rcv
        /\ AckedIsReceived

(* What a handler makes of a socket y, and what it sends.                      *)
SendsSound(o) == \A s \in o.out : /\ Names(s)
                                  /\ Few(o.z) => Exact(s)
                                  /\ "FIN" \in s.bits => o.z.ack_phase = "FIN"
                                  /\ "RST" \in s.bits => o.z.state = "CLOSED"
Sound(y, o) == Placed(o.z) /\ SendsSound(o) /\ (Over(y) => Over(o.z))

-------------------------------------------------------------------------------
(* The table of the state machine, for a socket that is open and passive.      *)
LEMMA Table ==
  ASSUME NEW st \in State \ {"CLOSED", "SYN_SENT"}, NEW ev
  PROVE  LET nx == NextState(st, ev)
             a  == ActionOf(st, ev)
         IN  /\ a \in {"NULL", "TX_ACK", "TX_SYN_ACK", "TX_FIN"}
             /\ a = "TX_SYN_ACK" => st = "LISTEN" /\ nx = "SYN_RECVD"
             /\ a = "TX_FIN" => nx \in {"FIN_WAIT1", "LASTACK"} /\ nx # st
             /\ nx = "CLOSED" => a = "NULL" /\ (ev = "CLOSE" \/ (st = "LASTACK" /\ ev = "RX_ACK"))
             /\ nx # "SYN_SENT"
             /\ nx \in {"LISTEN", "SYN_RECVD"} => st \in {"LISTEN", "SYN_RECVD"}
             /\ nx \notin Early /\ st \in Early => st = "SYN_RECVD" /\ (a = "TX_FIN" \/ ev = "RX_ACK")
  <1> DEFINE Row(e) ==
        e[1] \notin {"CLOSED", "SYN_SENT"} =>
             /\ e[3] \in {"NULL", "TX_ACK", "TX_SYN_ACK", "TX_FIN"}
             /\ e[3] = "TX_SYN_ACK" => e[1] = "LISTEN" /\ e[4] = "SYN_RECVD"
             /\ e[3] = "TX_FIN" => e[4] \in {"FIN_WAIT1", "LASTACK"} /\ e[4] # e[1]
             /\ e[4] = "CLOSED" => e[3] = "NULL" /\ (e[2] = "CLOSE" \/ (e[1] = "LASTACK" /\ e[2] = "RX_ACK"))
             /\ e[4] # "SYN_SENT"
             /\ e[4] \in {"LISTEN", "SYN_RECVD"} => e[1] \in {"LISTEN", "SYN_RECVD"}
             /\ e[4] \notin Early /\ e[1] \in Early =>
                    e[1] = "SYN_RECVD" /\ (e[3] = "TX_FIN" \/ e[2] = "RX_ACK")
  <1>1. \A e \in Edges : Row(e)
    BY DEF Edges, Early
  <1>2. CASE EdgeOf(st, ev) = {}
    <2>1. NextState(st, ev) = st /\ ActionOf(st, ev) = "NULL"
      BY <1>2 DEF NextState, ActionOf
    <2> QED BY <2>1 DEF Early
  <1>3. CASE EdgeOf(st, ev) # {}
    <2> DEFINE c == CHOOSE e \in EdgeOf(st, ev) : TRUE
    <2>1. c \in EdgeOf(st, ev)
      BY <1>3
    <2>2. NextState(st, ev) = c[4] /\ ActionOf(st, ev) = c[3]
      BY <1>3 DEF NextState, ActionOf
    <2> HIDE DEF c
    <2>3. c \in Edges /\ c[1] = st /\ c[2] = ev
      BY <2>1 DEF EdgeOf
    <2>4. Row(c)
      BY <1>1, <2>3
    <2> QED BY <2>2, <2>3, <2>4
  <1> QED BY <1>2, <1>3

LEMMA ResetPlaced ==
  /\ ResetZ \in Socket /\ Placed(ResetZ) /\ Over(ResetZ)
  /\ ResetZ.state = "CLOSED" /\ ResetZ.ack_phase = "IDLE" /\ ResetZ.get = 0 /\ ResetZ.put = 0
  /\ ResetZ.retry = FALSE /\ ResetZ.delay = FALSE
  BY ResetType, TcpSockAssumption DEF ResetZ, Placed, Located, SynEarly, Cleared, Over, Early

(* The fields the stream depends on.                                           *)
Alike(x, y) == /\ x.state = y.state /\ x.ack_phase = y.ack_phase
               /\ x.get = y.get /\ x.put = y.put /\ x.tx_seq = y.tx_seq

LEMMA AlikePlaced ==
  ASSUME NEW x, NEW y, Alike(x, y)
  PROVE  /\ Located(y) => Located(x)
         /\ SynEarly(y) => SynEarly(x)
         /\ y.state # "CLOSED" => Cleared(x)
         /\ Over(y) => Over(x)
  BY DEF Alike, Located, SynEarly, Cleared, Over

-------------------------------------------------------------------------------
(* tx_process.                                                                 *)
(* A third segment has data only if more than two messages take is sent; if    *)
(* the buffer fits in three messages there is no fourth.                       *)
LEMMA SegmentNames ==
  ASSUME NEW y \in Socket, Located(y), NEW action \in Action, NEW k \in Nat \ {0}
  PROVE  LET s == Segment(y, action, k)
         IN  /\ Names(s)
             /\ Few(y) \/ action = "TX_RESET" => Exact(s)
  <1> DEFINE p == Prepared(y, action)
             a == Amount(y, action)
             s == Segment(y, action, k)
  <1>1. /\ s.seq = SeqOf(p, k) /\ s.lo = p.get + (k - 1) * MsgRoom
        /\ s.len = MinOf(MsgRoom, a - (k - 1) * MsgRoom)
    BY DEF Segment
  <1>2. /\ a \in Nat /\ a <= y.put - y.get /\ y.put - y.get <= TxSize
        /\ y.put - y.get \in Int /\ y.get \in Nat /\ MsgRoom \in Nat \ {0} /\ TxSize \in Nat
    BY AmountType, TcpSockAssumption DEF Located, Socket, SocketRecord
  <1>3. Few(y) \/ action = "TX_RESET" => a <= 2 * MsgRoom
    <2>1. CASE SendsData(y, action)
      <3>1. a = MinOf(y.put - y.get, y.tx_window) /\ action # "TX_RESET"
        BY <2>1 DEF Amount, SendsData
      <3> QED BY <3>1 DEF Few
    <2>2. CASE ~SendsData(y, action)
      <3>1. a = 0
        BY <2>2 DEF Amount
      <3> QED BY <1>2, <3>1
    <2> QED BY <2>1, <2>2
  <1>4. CASE a = 0
    <2>1. (k - 1) * MsgRoom \in Nat
      BY <1>2
    <2> HIDE DEF s, a, p
    <2>2. ~(s.len > 0)
      BY <1>1, <1>2, <1>4, <2>1 DEF MinOf
    <2> QED BY <2>2 DEF Names, Exact, s
  <1>5. CASE a # 0
    <2>1. SendsData(y, action)
      BY <1>5 DEF Amount
    <2>2. y.ack_phase = "DATA" /\ action \in {"TX_NEW_DATA", "TX_RETRY", "TX_ACK"}
      BY <2>1 DEF SendsData
    <2>3. p.get = y.get /\ p.tx_seq = y.tx_seq /\ y.tx_seq = y.get + 1
      BY <2>2 DEF Prepared, Located, Socket, SocketRecord
    <2> HIDE DEF p, a, s
    <2>4. s.seq = y.get + 1 + MsgRoom * ((k * (k - 1)) \div 2) /\ s.lo = y.get + (k - 1) * MsgRoom
      BY <1>1, <2>3 DEF SeqOf
    <2>5. CASE k = 1
      BY <1>2, <2>4, <2>5 DEF Names, Exact, s
    <2>6. CASE k = 2
      BY <1>2, <2>4, <2>6 DEF Names, Exact, s
    <2>7. CASE k = 3
      <3>1. s.seq = y.get + 1 + 3 * MsgRoom /\ s.lo = y.get + 2 * MsgRoom
        BY <1>2, <2>4, <2>7
      <3>2. Third(s)
        BY <1>2, <3>1 DEF Third
      <3>3. s.len > 0 => a > 2 * MsgRoom
        BY <1>1, <1>2, <2>7 DEF MinOf
      <3> QED BY <1>2, <1>3, <3>2, <3>3 DEF Names, Exact, s
    <2>8. CASE k \notin {1, 2, 3}
      <3>1. k - 4 \in Nat
        BY <2>8
      <3>2. (k - 4) * MsgRoom \in Nat /\ (k - 1) * MsgRoom = (k - 4) * MsgRoom + 3 * MsgRoom
        BY <1>2, <3>1
      <3>3. a <= 3 * MsgRoom => ~(s.len > 0)
        BY <1>1, <1>2, <3>2 DEF MinOf
      <3>4. /\ ThreeMessages => a <= 3 * MsgRoom
            /\ a <= 2 * MsgRoom => a <= 3 * MsgRoom
        BY <1>2 DEF ThreeMessages
      <3> QED BY <1>3, <3>3, <3>4 DEF Names, Exact, s
    <2> QED BY <2>5, <2>6, <2>7, <2>8
  <1> QED BY <1>4, <1>5

LEMMA PreparedPlaced ==
  ASSUME NEW y \in Socket, Located(y), NEW action \in Action, y.state # "CLOSED",
         action = "TX_FIN" \/ SynEarly(y),
         action \notin {"TX_SYN"},
         action = "TX_SYN_ACK" => y.state = "SYN_RECVD",
         action = "TX_FIN" => y.state \notin Early
  PROVE  LET p == Prepared(y, action)
         IN  /\ Placed(p)
             /\ p.state = y.state /\ p.get = y.get
             /\ p.put = y.put /\ p.tx_window = y.tx_window
             /\ Over(y) => Over(p)
             /\ action = "TX_FIN" => p.ack_phase = "FIN"
             /\ action \notin {"TX_SYN_ACK", "TX_FIN"} => p.ack_phase = y.ack_phase
  <1>1. CASE action = "TX_SYN_ACK"
    <2> DEFINE p == [y EXCEPT !.send_ack = TRUE, !.ack_phase = "SYN", !.tx_seq = 0]
    <2>1. Prepared(y, action) = p
      BY <1>1 DEF Prepared
    <2>2. /\ p.state = y.state /\ p.get = y.get /\ p.put = y.put
          /\ p.ack_phase = "SYN" /\ p.tx_seq = 0 /\ p.tx_window = y.tx_window
      BY DEF Socket, SocketRecord
    <2> HIDE DEF p
    <2> QED BY <1>1, <2>1, <2>2 DEF Placed, Located, SynEarly, Cleared, Over, Early
  <1>2. CASE action = "TX_FIN"
    <2> DEFINE p == [y EXCEPT !.ack_phase = "FIN"]
    <2>1. Prepared(y, action) = p
      BY <1>2 DEF Prepared
    <2>2. /\ p.state = y.state /\ p.get = y.get /\ p.put = y.put /\ p.ack_phase = "FIN"
          /\ p.tx_window = y.tx_window
      BY DEF Socket, SocketRecord
    <2> HIDE DEF p
    <2> QED BY <1>2, <2>1, <2>2 DEF Placed, Located, SynEarly, Cleared, Over, Early
  <1>3. CASE action \notin {"TX_SYN_ACK", "TX_FIN"}
    <2>1. Prepared(y, action) \in {y, [y EXCEPT !.send_ack = TRUE]}
      BY <1>3 DEF Prepared
    <2>2. Alike(Prepared(y, action), y) /\ Prepared(y, action).tx_window = y.tx_window
      BY <2>1 DEF Alike, Socket, SocketRecord
    <2> HIDE <2>1
    <2> QED BY <1>3, <2>2, AlikePlaced DEF Placed, Alike
  <1> QED BY <1>1, <1>2, <1>3

LEMMA TxPlaced ==
  ASSUME NEW y \in Socket, Located(y), NEW action \in Action, y.state # "CLOSED",
         action = "TX_FIN" \/ SynEarly(y),
         action \notin {"TX_SYN"},
         action = "TX_SYN_ACK" => y.state = "SYN_RECVD",
         action = "TX_FIN" => y.state \notin Early,
         NEW o \in TxProcess(y, action)
  PROVE  /\ Placed(o.z)
         /\ o.z.get = y.get
         /\ Over(y) => Over(o.z)
         /\ \A s \in o.out : /\ Names(s)
                             /\ Few(o.z) \/ action = "TX_RESET" => Exact(s)
                             /\ "FIN" \in s.bits => o.z.ack_phase = "FIN"
                             /\ "RST" \in s.bits => action = "TX_RESET"
  <1> DEFINE p == Prepared(y, action)
             After(n) == [p EXCEPT !.unacked = MinOf(n * MsgRoom, Amount(y, action)),
                                   !.pending = IF n > 0 THEN FALSE ELSE @]
  <1>1. /\ p \in Socket /\ Placed(p)
        /\ p.state = y.state /\ p.get = y.get /\ (Over(y) => Over(p))
        /\ p.put = y.put /\ p.tx_window = y.tx_window
        /\ action = "TX_FIN" => p.ack_phase = "FIN"
        /\ action \notin {"TX_SYN_ACK", "TX_FIN"} => p.ack_phase = y.ack_phase
    BY PreparedType, PreparedPlaced
  <1>2. /\ "FIN" \in Bits(p, action) => p.ack_phase = "FIN"
        /\ "RST" \in Bits(p, action) => action = "TX_RESET"
    BY <1>1 DEF Bits
  <1>3. \E n \in Int : /\ \/ o.z = ArmRetry(After(n)) \/ o.z = ArmRetry(p)
                       /\ o.out \subseteq {Segment(y, action, k) : k \in 1..n}
    <2>1. CASE Sends(y, action)
      <3>1. NbrSegments(y, action) \in Int
        BY AmountType, TcpSockAssumption DEF NbrSegments
      <3>2. PICK n \in 0..NbrSegments(y, action) :
               o = [z |-> ArmRetry(After(n)), out |-> {Segment(y, action, k) : k \in 1..n},
                    failed |-> n < NbrSegments(y, action)]
        BY <2>1 DEF TxProcess
      <3>3. n \in Int
        BY <3>1
      <3> QED BY <3>2, <3>3
    <2>2. CASE ~Sends(y, action)
      <3>1. o.z = ArmRetry(p) /\ o.out = {}
        BY <2>2 DEF TxProcess
      <3> QED BY <3>1
    <2> QED BY <2>1, <2>2
  <1>4. PICK n \in Int : /\ \/ o.z = ArmRetry(After(n)) \/ o.z = ArmRetry(p)
                         /\ o.out \subseteq {Segment(y, action, k) : k \in 1..n}
    BY <1>3
  <1>5. Alike(o.z, p) /\ o.z.tx_window = p.tx_window
    <2> HIDE DEF p
    <2>1. Alike(ArmRetry(p), p) /\ ArmRetry(p).tx_window = p.tx_window
      BY <1>1 DEF Alike, ArmRetry, Socket, SocketRecord
    <2>2. Alike(ArmRetry(After(n)), p) /\ ArmRetry(After(n)).tx_window = p.tx_window
      BY <1>1 DEF Alike, ArmRetry, Socket, SocketRecord
    <2> HIDE DEF After
    <2> QED BY <1>4, <2>1, <2>2
  <1>6. \A k \in 1..n : /\ Names(Segment(y, action, k))
                        /\ Few(y) \/ action = "TX_RESET" => Exact(Segment(y, action, k))
                        /\ Segment(y, action, k).bits = Bits(p, action)
    BY SegmentNames DEF Segment
  <1>7. Placed(o.z) /\ o.z.get = y.get /\ (Over(y) => Over(o.z)) /\ o.z.ack_phase = p.ack_phase
    BY <1>1, <1>5, AlikePlaced DEF Placed, Alike
  <1>8. Few(o.z) => Few(y)
    BY <1>1, <1>5 DEF Few, Alike
  <1> HIDE DEF p
  <1> QED BY <1>2, <1>4, <1>6, <1>7, <1>8
-------------------------------------------------------------------------------
(* tcpsock_up.                                                                 *)
LEMMA AckedPlaced ==
  ASSUME NEW y \in Socket, Placed(y), y.state # "CLOSED", NEW s \in FromPeer
  PROVE  LET a == Acked(y, s)
         IN  /\ a \in Socket /\ Placed(a) /\ a.state = y.state
             /\ Over(y) => Over(a)
             /\ a.get = y.get \/ (y.ack_phase = "DATA" /\ a.get = s.ack - 1)
             /\ AckOk(y, s) => a.ack_phase # "SYN"
  <1> DEFINE a == Acked(y, s)
             n == NbrAcked(y, s)
             w == [y EXCEPT !.tx_seq = @ + n, !.tx_window = s.win,
                            !.retry = @ /\ ~Stops(y, s)]
  <1>1. /\ n \in Int /\ n = s.ack - y.tx_seq /\ y.tx_seq \in Int /\ s.ack \in Int
        /\ y.get \in Nat /\ y.put \in Nat /\ y.get <= y.put /\ y.ack_phase \in AckPhase
    BY DEF NbrAcked, Socket, SocketRecord, FromPeer
  <1>2. a \in Socket
    BY AckedType
  <1> SUFFICES /\ Placed(a) /\ a.state = y.state
               /\ Over(y) => Over(a)
               /\ a.get = y.get \/ (y.ack_phase = "DATA" /\ a.get = s.ack - 1)
               /\ AckOk(y, s) => a.ack_phase # "SYN"
    BY <1>2
  <1>3. CASE ~AckOk(y, s) \/ n <= 0
    <2>1. a = y
      BY <1>3 DEF Acked
    <2>2. AckOk(y, s) => y.ack_phase # "SYN"
      BY <1>1, <1>3 DEF AckOk
    <2> QED BY <2>1, <2>2
  <1>4. CASE AckOk(y, s) /\ ~(n <= 0)
    <2>1. a = CASE y.ack_phase = "SYN"  -> [w EXCEPT !.ack_phase = "DATA", !.unacked = 0]
                [] y.ack_phase = "FIN"  -> [w EXCEPT !.ack_phase = "IDLE"]
                [] y.ack_phase = "DATA" -> [w EXCEPT !.get = @ + n, !.unacked = @ - n]
      BY <1>4 DEF Acked
    <2> HIDE DEF n
    <2>2. /\ w.state = y.state /\ w.get = y.get /\ w.put = y.put /\ w.tx_seq = y.tx_seq + n
          /\ w.ack_phase = y.ack_phase
          /\ \A v1, v2 : LET x == [w EXCEPT !.ack_phase = v1, !.unacked = v2]
                         IN  /\ x.state = y.state /\ x.get = y.get /\ x.put = y.put
                             /\ x.tx_seq = y.tx_seq + n /\ x.ack_phase = v1
          /\ \A v : LET x == [w EXCEPT !.ack_phase = v]
                    IN  /\ x.state = y.state /\ x.get = y.get /\ x.put = y.put
                        /\ x.tx_seq = y.tx_seq + n /\ x.ack_phase = v
          /\ \A v1, v2 : LET x == [w EXCEPT !.get = v1, !.unacked = v2]
                         IN  /\ x.state = y.state /\ x.get = v1 /\ x.put = y.put
                             /\ x.tx_seq = y.tx_seq + n /\ x.ack_phase = y.ack_phase
      BY DEF Socket, SocketRecord
    <2> HIDE DEF w, a
    <2>3. CASE y.ack_phase = "SYN"
      <3>1. y.tx_seq = 0 /\ y.get = 0 /\ n = 1
        BY <1>1, <1>4, <2>3 DEF Placed, Located, SynEarly, AckOk, n
      <3>2. a = [w EXCEPT !.ack_phase = "DATA", !.unacked = 0]
        BY <2>1, <2>3
      <3>3. /\ a.state = y.state /\ a.get = y.get /\ a.put = y.put
            /\ a.tx_seq = 1 /\ a.ack_phase = "DATA"
        BY <2>2, <3>1, <3>2
      <3> QED BY <2>3, <3>1, <3>3 DEF Placed, Located, SynEarly, Cleared, Over
    <2>4. CASE y.ack_phase = "FIN"
      <3>1. a = [w EXCEPT !.ack_phase = "IDLE"]
        BY <2>1, <2>4
      <3>2. a.state = y.state /\ a.get = y.get /\ a.put = y.put /\ a.ack_phase = "IDLE"
        BY <2>2, <3>1
      <3> QED BY <2>4, <3>2 DEF Placed, Located, SynEarly, Cleared, Over
    <2>5. CASE y.ack_phase = "DATA"
      <3>1. a = [w EXCEPT !.get = w.get + n, !.unacked = w.unacked - n]
        BY <2>1, <2>5
      <3>2. /\ a.state = y.state /\ a.get = y.get + n /\ a.put = y.put
            /\ a.tx_seq = y.tx_seq + n /\ a.ack_phase = "DATA"
        BY <2>2, <2>5, <3>1
      <3>3. y.tx_seq = y.get + 1
        BY <2>5 DEF Placed, Located
      <3>4. a.get = s.ack - 1 /\ a.tx_seq = a.get + 1 /\ a.put - a.get <= y.put - y.get
        BY <1>1, <1>4, <3>2, <3>3
      <3>5. y.put - y.get <= TxSize /\ TxSize \in Nat
        BY TcpSockAssumption DEF Placed, Located
      <3>6. a.put - a.get <= TxSize
        BY <1>1, <3>2, <3>4, <3>5
      <3> QED BY <2>5, <3>2, <3>4, <3>6 DEF Placed, Located, SynEarly, Cleared, Over
    <2> QED BY <1>4, <2>3, <2>4, <2>5 DEF AckOk
  <1> QED BY <1>3, <1>4

(* connection_state_machine.                                                   *)
LEMMA CsmPlaced ==
  ASSUME NEW y \in Socket, Placed(y), y.state # "CLOSED", NEW ev,
         ev = "RX_ACK" => y.ack_phase # "SYN"
  PROVE  LET c == Csm(y, ev)
             act == ActionOf(y.state, ev)
         IN  /\ c \in Socket /\ Located(c) /\ Cleared(c)
             /\ SynEarly(c) \/ (act = "TX_FIN" /\ y.state \in Early)
             /\ c.state = NextState(y.state, ev)
             /\ c.get \in {0, y.get}
             /\ Over(y) => Over(c)
  <1> DEFINE st == NextState(y.state, ev)
             act == ActionOf(y.state, ev)
             c == Csm(y, ev)
  <1>1. y.state \in State \ {"CLOSED", "SYN_SENT"} /\ y.get \in Nat /\ y.put \in Nat /\ y.get <= y.put
    BY DEF Placed, Located, Socket, SocketRecord
  <1>2. /\ st # "SYN_SENT"
        /\ st \in {"LISTEN", "SYN_RECVD"} => y.state \in {"LISTEN", "SYN_RECVD"}
        /\ st \notin Early /\ y.state \in Early =>
              y.state = "SYN_RECVD" /\ (act = "TX_FIN" \/ ev = "RX_ACK")
    BY <1>1, Table
  <1>3. c \in Socket
    BY CsmType
  <1> SUFFICES /\ Located(c) /\ Cleared(c)
               /\ SynEarly(c) \/ (act = "TX_FIN" /\ y.state \in Early)
               /\ c.state = st /\ c.get \in {0, y.get}
               /\ Over(y) => Over(c)
    BY <1>3
  <1> HIDE DEF st, act
  <1>4. CASE st = y.state
    <2>1. c = y
      BY <1>4 DEF Csm, st
    <2> QED BY <1>4, <2>1 DEF Placed
  <1>5. CASE st # y.state /\ st = "CLOSED"
    <2>1. c = ResetZ
      BY <1>5 DEF Csm, st
    <2> QED BY <1>5, <2>1, ResetPlaced DEF Placed
  <1>6. CASE st # y.state /\ st = "LISTEN" /\ y.state = "SYN_RECVD"
    <2>1. c = [y EXCEPT !.state = st, !.ack_phase = "IDLE", !.send_ack = FALSE]
      BY <1>6 DEF Csm, st
    <2> HIDE DEF c
    <2>2. c.state = st /\ c.ack_phase = "IDLE" /\ c.get = y.get /\ c.put = y.put
      BY <2>1 DEF Socket, SocketRecord
    <2> QED BY <1>6, <2>2 DEF Placed, Located, SynEarly, Cleared, Over, Early
  <1>7. CASE st # y.state /\ st # "CLOSED" /\ ~(st = "LISTEN" /\ y.state = "SYN_RECVD")
    <2>1. c = [y EXCEPT !.state = st, !.retry = (st = "TIMED_WAIT") \/ @]
      BY <1>7 DEF Csm, st
    <2> HIDE DEF c
    <2>2. /\ c.state = st /\ c.ack_phase = y.ack_phase /\ c.get = y.get /\ c.put = y.put
          /\ c.tx_seq = y.tx_seq
      BY <2>1 DEF Socket, SocketRecord
    <2>3. st \in Early => y.state \in Early
      BY <1>2, <1>7 DEF Early
    <2>4. Located(c) /\ Cleared(c)
      BY <1>2, <1>7, <2>2, <2>3 DEF Placed, Located, Cleared
    <2>5. SynEarly(c) \/ (act = "TX_FIN" /\ y.state \in Early)
      BY <1>2, <2>2, <2>3 DEF Placed, SynEarly
    <2>6. Over(y) => Over(c)
      BY <1>1, <1>2, <2>2 DEF Over
    <2> QED BY <2>2, <2>4, <2>5, <2>6
  <1> QED BY <1>4, <1>5, <1>6, <1>7

LEMMA UpPlaced ==
  ASSUME NEW y \in Socket, Placed(y), Armed(y), y.state # "CLOSED", NEW s \in FromPeer,
         NEW o \in Up(y, s)
  PROVE  /\ Sound(y, o)
         /\ o.z.get \in {0, y.get} \/ (y.ack_phase = "DATA" /\ o.z.get = s.ack - 1)
  <1> DEFINE ev == EventOf(y, s)
             a == Acked(y, s)
             c == Csm(a, ev)
             m == Moved(y, s, ev)
             w == Accepted(y, m, s)
             act == ActionOf(y.state, ev)
             st == NextState(y.state, ev)
  <1>1. /\ a \in Socket /\ Placed(a) /\ a.state = y.state
        /\ Over(y) => Over(a)
        /\ a.get = y.get \/ (y.ack_phase = "DATA" /\ a.get = s.ack - 1)
        /\ AckOk(y, s) => a.ack_phase # "SYN"
    BY AckedPlaced
  <1>2. ev = "RX_ACK" => AckOk(y, s)
    BY DEF EventOf
  <1>3. ev # "CLOSE"
    BY DEF EventOf
  <1>4. /\ m \in Socket /\ w \in Socket
    BY MovedType, AcceptedType
  <1>5. y.state \in State \ {"CLOSED", "SYN_SENT"}
    BY DEF Placed, Located, Socket, SocketRecord
  <1>6. /\ act \in {"NULL", "TX_ACK", "TX_SYN_ACK", "TX_FIN"}
        /\ act = "TX_SYN_ACK" => st = "SYN_RECVD"
        /\ act = "TX_FIN" => st \in {"FIN_WAIT1", "LASTACK"}
        /\ st = "CLOSED" => act = "NULL" /\ y.state = "LASTACK" /\ ev = "RX_ACK"
    BY <1>3, <1>5, Table
  <1> HIDE DEF ev, a
  <1>7. /\ c \in Socket /\ Located(c) /\ Cleared(c)
        /\ SynEarly(c) \/ (act = "TX_FIN" /\ y.state \in Early)
        /\ c.state = st
        /\ c.get \in {0, a.get}
        /\ Over(a) => Over(c)
    BY <1>1, <1>2, CsmPlaced
  <1> HIDE DEF c, st
  <1>8. Alike(m, c) /\ (st = "CLOSED" => m = c)
    <2>1. m = IF c.state = y.state THEN c
              ELSE CASE ev \in {"RX_SYN", "RX_SYN_ACK"} -> [c EXCEPT !.rx_seq = s.seq + 1]
                     [] ev \in {"RX_FIN", "RX_FIN_ACK"} -> [c EXCEPT !.rx_seq = @ + 1]
                     [] OTHER -> c
      BY DEF Moved, a, c
    <2> HIDE DEF m
    <2>2. st = "CLOSED" => m = c
      BY <1>6, <2>1
    <2>3. CASE ev \in {"RX_SYN", "RX_SYN_ACK"}
      BY <1>7, <2>1, <2>2, <2>3 DEF Alike, Socket, SocketRecord
    <2>4. CASE ev \in {"RX_FIN", "RX_FIN_ACK"}
      BY <1>7, <2>1, <2>2, <2>4 DEF Alike, Socket, SocketRecord
    <2>5. CASE ev \notin {"RX_SYN", "RX_SYN_ACK", "RX_FIN", "RX_FIN_ACK"}
      BY <1>7, <2>1, <2>2, <2>5 DEF Alike, Socket, SocketRecord
    <2> QED BY <2>2, <2>3, <2>4, <2>5
  <1> HIDE DEF m
  <1>9. Alike(w, m) /\ (w = m \/ Listens(y, m))
    <2>1. \/ w = m
          \/ w = [m EXCEPT !.rx_seq = m.rx_seq + s.len, !.delay = TRUE, !.pending = TRUE]
             /\ Listens(y, m)
      BY DEF Accepted
    <2> HIDE DEF w
    <2> QED BY <1>4, <2>1 DEF Alike, Socket, SocketRecord
  <1>10. Listens(y, m) => y.state \notin Early /\ st # "CLOSED"
    BY <1>6 DEF Listens, IsRxState, Early
  <1> HIDE DEF w, act
  <1>11. /\ Located(w) /\ Cleared(w)
         /\ SynEarly(w) \/ (act = "TX_FIN" /\ y.state \in Early)
         /\ w.state = st
         /\ Over(y) => Over(w)
         /\ w.get \in {0, y.get} \/ (y.ack_phase = "DATA" /\ w.get = s.ack - 1)
    <2>1. Alike(w, c)
      BY <1>8, <1>9 DEF Alike
    <2>2. Cleared(w)
      <3>1. CASE st = "CLOSED"
        BY <1>7, <1>8, <1>9, <1>10, <3>1
      <3>2. CASE st # "CLOSED"
        BY <1>7, <2>1, <3>2, AlikePlaced
      <3> QED BY <3>1, <3>2
    <2>3. Located(w) /\ (SynEarly(c) => SynEarly(w)) /\ (Over(c) => Over(w))
      BY <1>7, <2>1, AlikePlaced
    <2>4. w.state = c.state /\ w.get = c.get
      BY <2>1 DEF Alike
    <2> QED BY <1>1, <1>7, <2>2, <2>3, <2>4
  <1>12. \/ o \in TxProcess(w, "TX_ACK") /\ Listens(y, m)
         \/ o \in TxProcess(w, "TX_NEW_DATA") /\ act = "NULL" /\ w.get # w.put
         \/ o \in Act(w, act)
    BY DEF Up, m, w, act, ev
  <1>13. st = "CLOSED" => w.get = w.put
    BY <1>11, ResetPlaced DEF Cleared
  <1>14. CASE o \in TxProcess(w, "TX_ACK") /\ Listens(y, m)
    <2>1. w.state # "CLOSED" /\ SynEarly(w)
      BY <1>10, <1>11, <1>14
    <2> QED BY <1>4, <1>11, <1>14, <2>1, TxPlaced DEF Sound, SendsSound, Action
  <1>15. CASE o \in TxProcess(w, "TX_NEW_DATA") /\ act = "NULL" /\ w.get # w.put
    <2>1. w.state # "CLOSED" /\ SynEarly(w)
      BY <1>11, <1>13, <1>15
    <2> QED BY <1>4, <1>11, <1>15, <2>1, TxPlaced DEF Sound, SendsSound, Action
  <1>16. CASE o \in Act(w, act) /\ act = "NULL"
    <2>1. o.z = w /\ o.out = {}
      BY <1>16 DEF Act, Quiet
    <2> QED BY <1>11, <1>16, <2>1 DEF Sound, SendsSound, Placed
  <1>17. CASE o \in Act(w, act) /\ act # "NULL"
    <2>1. o \in TxProcess(w, act) /\ w.state # "CLOSED" /\ act \in Action
      BY <1>6, <1>11, <1>17 DEF Act, Action
    <2>2. /\ act = "TX_FIN" \/ SynEarly(w)
          /\ act = "TX_SYN_ACK" => w.state = "SYN_RECVD"
          /\ act = "TX_FIN" => w.state \notin Early
          /\ act # "TX_SYN" /\ act # "TX_RESET"
      BY <1>6, <1>11 DEF Early
    <2> QED BY <1>4, <1>11, <2>1, <2>2, TxPlaced DEF Sound, SendsSound
  <1> QED BY <1>12, <1>14, <1>15, <1>16, <1>17

-------------------------------------------------------------------------------
(* tcpsock_down and the timers.                                                *)
Kept(y, o) == Sound(y, o) /\ o.z.get \in {0, y.get}

LEMMA QuietPlaced ==
  ASSUME NEW y, NEW x, Placed(x), Over(y) => Over(x), x.get \in {0, y.get}, NEW o \in Quiet(x)
  PROVE  Kept(y, o)
  BY DEF Quiet, Kept, Sound, SendsSound

LEMMA DownDataPlaced ==
  ASSUME NEW y \in Socket, Placed(y), NEW n \in Nat, IsTxState(y.state),
         n <= TxSize - (y.put - y.get), NEW o \in DownData(y, n)
  PROVE  Kept(y, o)
  <1> DEFINE x == [y EXCEPT !.put = y.put + n]
  <1>1. /\ x \in Socket /\ x.get = y.get /\ x.ack_phase = y.ack_phase /\ x.state = y.state
        /\ x.tx_seq = y.tx_seq /\ x.put = y.put + n
    BY DEF Socket, SocketRecord
  <1>2. y.state \notin Early /\ y.get \in Nat /\ y.put \in Nat
    BY DEF IsTxState, Early, Socket, SocketRecord
  <1>3. o \in TxProcess(x, "TX_NEW_DATA") \/ o \in Quiet(x)
    BY DEF DownData
  <1> HIDE DEF x
  <1>4. x.put - x.get <= TxSize
    BY <1>1, <1>2, TcpSockAssumption
  <1>5. Placed(x) /\ (Over(y) => Over(x)) /\ x.state # "CLOSED"
    BY <1>1, <1>2, <1>4 DEF Placed, Located, SynEarly, Cleared, Over, Early
  <1>6. CASE o \in TxProcess(x, "TX_NEW_DATA")
    BY <1>1, <1>5, <1>6, TxPlaced DEF Kept, Sound, SendsSound, Placed, Action
  <1>7. CASE o \in Quiet(x)
    BY <1>1, <1>5, <1>7, QuietPlaced
  <1> QED BY <1>3, <1>6, <1>7

LEMMA DownClosePlaced ==
  ASSUME NEW y \in Socket, Placed(y), y.state # "CLOSED", NEW o \in DownClose(y)
  PROVE  Kept(y, o)
  <1> DEFINE c == Csm(y, "CLOSE")
             act == ActionOf(y.state, "CLOSE")
             st == NextState(y.state, "CLOSE")
  <1>1. /\ c \in Socket /\ Located(c) /\ Cleared(c)
        /\ SynEarly(c) \/ (act = "TX_FIN" /\ y.state \in Early)
        /\ c.state = st
        /\ c.get \in {0, y.get}
        /\ Over(y) => Over(c)
    BY CsmPlaced
  <1>2. y.state \in State \ {"CLOSED", "SYN_SENT"}
    BY DEF Placed, Located, Socket, SocketRecord
  <1>3. /\ act \in {"NULL", "TX_ACK", "TX_SYN_ACK", "TX_FIN"}
        /\ act = "TX_SYN_ACK" => st = "SYN_RECVD"
        /\ act = "TX_FIN" => st \in {"FIN_WAIT1", "LASTACK"}
        /\ st = "CLOSED" => act = "NULL"
    BY <1>2, Table
  <1>4. o \in Act(c, act) \/ o \in Quiet(y)
    BY DEF DownClose
  <1> HIDE DEF c, act, st
  <1>5. CASE o \in Quiet(y)
    BY <1>5, QuietPlaced
  <1>6. CASE o \in Act(c, act) /\ act = "NULL"
    BY <1>1, <1>6, QuietPlaced DEF Act, Placed
  <1>7. CASE o \in Act(c, act) /\ act # "NULL"
    <2>1. o \in TxProcess(c, act) /\ c.state # "CLOSED" /\ act \in Action
      BY <1>1, <1>3, <1>7 DEF Act, Action
    <2>2. /\ act = "TX_FIN" \/ SynEarly(c)
          /\ act = "TX_SYN_ACK" => c.state = "SYN_RECVD"
          /\ act = "TX_FIN" => c.state \notin Early
          /\ act # "TX_SYN" /\ act # "TX_RESET"
      BY <1>1, <1>3 DEF Early
    <2> QED BY <1>1, <2>1, <2>2, TxPlaced DEF Kept, Sound, SendsSound
  <1> QED BY <1>4, <1>5, <1>6, <1>7

LEMMA DownAbortPlaced ==
  ASSUME NEW y \in Socket, Placed(y), y.state # "CLOSED", NEW o \in DownAbort(y)
  PROVE  Kept(y, o) /\ o.z = ResetZ
  <1>1. PICK p \in TxProcess(y, "TX_RESET") : o = [p EXCEPT !.z = ResetZ]
    BY DEF DownAbort
  <1>2. \A s \in p.out : Names(s) /\ Exact(s)
    BY TxPlaced DEF Placed, Action
  <1>3. \A s \in p.out : "FIN" \notin s.bits
    <2>1. \A k : "FIN" \notin Segment(y, "TX_RESET", k).bits
      BY DEF Segment, Bits
    <2>2. ASSUME NEW s \in p.out PROVE \E k : s = Segment(y, "TX_RESET", k)
      <3>1. CASE Sends(y, "TX_RESET")
        <4>1. PICK n \in 0..NbrSegments(y, "TX_RESET") :
                 p = [z |-> ArmRetry([Prepared(y, "TX_RESET") EXCEPT
                                 !.unacked = MinOf(n * MsgRoom, Amount(y, "TX_RESET")),
                                 !.pending = IF n > 0 THEN FALSE ELSE @]),
                      out |-> {Segment(y, "TX_RESET", k) : k \in 1..n},
                      failed |-> n < NbrSegments(y, "TX_RESET")]
          BY <1>1, <3>1 DEF TxProcess
        <4>2. p.out = {Segment(y, "TX_RESET", k) : k \in 1..n}
          BY <4>1
        <4> QED BY <4>2
      <3>2. CASE ~Sends(y, "TX_RESET")
        BY <3>2 DEF TxProcess
      <3> QED BY <3>1, <3>2
    <2> QED BY <2>1, <2>2
  <1>4. \E u, v, x : p = [z |-> u, out |-> v, failed |-> x]
    BY <1>1 DEF TxProcess
  <1>5. o.z = ResetZ /\ o.out = p.out
    BY <1>1, <1>4
  <1> QED BY <1>2, <1>3, <1>5, ResetPlaced DEF Kept, Sound, SendsSound

LEMMA TimeoutPlaced ==
  ASSUME NEW y \in Socket, Placed(y), y.state # "CLOSED", NEW o,
         o \in TimeoutRetry(y) \/ o \in TimeoutDelayedAck(y)
  PROVE  Kept(y, o)
  <1>1. ASSUME NEW x \in Socket, Alike(x, y), NEW action \in {"TX_RETRY", "TX_ACK"}
        PROVE  /\ \A p \in TxProcess(x, action) : Kept(y, p)
               /\ \A p \in Quiet(x) : Kept(y, p)
    <2>1. Placed(x) /\ (Over(y) => Over(x)) /\ x.state # "CLOSED" /\ x.get = y.get
      BY <1>1, AlikePlaced DEF Placed, Alike
    <2>2. \A p \in TxProcess(x, action) : Kept(y, p)
      BY <2>1, TxPlaced DEF Kept, Sound, SendsSound, Placed, Action
    <2> QED BY <2>1, <2>2, QuietPlaced
  <1>2. CASE o \in TimeoutRetry(y)
    <2> DEFINE x == [y EXCEPT !.retry = FALSE]
    <2>1. x \in Socket /\ Alike(x, y)
      BY DEF Socket, SocketRecord, Alike
    <2>2. o \in Quiet(ResetZ) \/ o \in TxProcess(x, "TX_RETRY")
      BY <1>2 DEF TimeoutRetry
    <2> HIDE DEF x
    <2>3. CASE o \in Quiet(ResetZ)
      BY <2>3, ResetPlaced, QuietPlaced
    <2> QED BY <1>1, <2>1, <2>2, <2>3
  <1>3. CASE o \in TimeoutDelayedAck(y)
    <2> DEFINE x == [y EXCEPT !.delay = FALSE]
    <2>1. x \in Socket /\ Alike(x, y)
      BY DEF Socket, SocketRecord, Alike
    <2>2. o \in Quiet(x) \/ o \in TxProcess(x, "TX_ACK")
      BY <1>3 DEF TimeoutDelayedAck
    <2> HIDE DEF x
    <2> QED BY <1>1, <2>1, <2>2
  <1> QED BY <1>2, <1>3
-------------------------------------------------------------------------------
(* The steps of BMZ.                                                           *)
(* BmzMoves: one that a handler takes, for a socket of a connection.           *)
Adds == \A s \in toPeer' : s \in toPeer \/ (Few(z') => Exact(s))

LEMMA BmzMoves ==
  ASSUME SInv, IInv', z.state # "CLOSED", peer # NewPeer,
         NEW o, Sound(z, o), z' = o.z, toPeer' \subseteq toPeer \cup o.out,
         peer' = peer, toBmz' \subseteq toBmz,
         o.z.get \in {0, z.get} \/ \E s \in toBmz : z.ack_phase = "DATA" /\ o.z.get = s.ack - 1
  PROVE  SInv' /\ Adds
  <1>1. Placed(z') /\ (\A s \in toPeer' : Names(s)) /\ Held(peer')
        /\ \A s \in toBmz' : s.ack <= peer'.rcv
    BY DEF SInv, Sound, SendsSound
  <1>2. FinSent' => Over(z')
    <2>1. CASE FinSent
      BY <2>1 DEF SInv, Epoch, Sound
    <2>2. CASE ~FinSent /\ FinSent'
      <3>1. PICK s \in o.out : "FIN" \in s.bits
        BY <2>2 DEF FinSent
      <3>2. z'.ack_phase = "FIN" /\ Located(z')
        BY <3>1 DEF Sound, SendsSound, Placed
      <3> QED BY <3>2 DEF Over, Located, Early
    <2> QED BY <2>1, <2>2
  <1>3. RstSent' => z'.state = "CLOSED"
    <2>1. ~RstSent
      BY DEF SInv, Epoch
    <2>2. ASSUME RstSent' PROVE z'.state = "CLOSED"
      <3>1. PICK s \in o.out : "RST" \in s.bits
        BY <2>1, <2>2 DEF RstSent
      <3> QED BY <3>1 DEF Sound, SendsSound
    <2> QED BY <2>2
  <1>4. AckedIsReceived'
    <2>1. z'.get \in Nat /\ z.get \in Nat /\ peer.rcv \in Int
      BY DEF SInv, IInv, Typed, Socket, SocketRecord, PeerRecord
    <2>2. CASE z'.get \in {0, z.get}
      BY <2>1, <2>2 DEF SInv, AckedIsReceived, BytesOf
    <2>3. ASSUME NEW s \in toBmz, z.ack_phase = "DATA", z'.get = s.ack - 1 PROVE AckedIsReceived'
      <3>1. ~Over(z)
        BY <2>3 DEF Over
      <3>2. ~peer.end
        BY <3>1 DEF SInv, Epoch, FinSent
      <3>3. s.ack <= peer.rcv /\ s.ack \in Int
        BY DEF SInv, IInv, Typed, FromPeer
      <3> QED BY <2>1, <2>3, <3>2, <3>3 DEF AckedIsReceived, BytesOf
    <2> QED BY <2>2, <2>3
  <1>5. Adds
    BY DEF Adds, Sound, SendsSound
  <1> QED BY <1>1, <1>2, <1>3, <1>4, <1>5 DEF SInv, Epoch

LEMMA HandlerMoves ==
  ASSUME SInv, IInv', z.state # "CLOSED", peer # NewPeer, peer' = peer, toBmz' \subseteq toBmz,
         NEW outcomes, Becomes(outcomes), \A o \in outcomes : Kept(z, o)
  PROVE  SInv' /\ Adds
  <1>1. PICK o \in outcomes : z' = o.z /\ toPeer' = Carry(toPeer, o.out)
    BY DEF Becomes
  <1>2. toPeer' \subseteq toPeer \cup o.out
    BY <1>1 DEF Carry
  <1>3. Sound(z, o) /\ o.z.get \in {0, z.get}
    BY DEF Kept
  <1> QED BY <1>1, <1>2, <1>3, BmzMoves

LEMMA ListeningIs ==
  /\ DownClose(Listening) = Quiet(ResetZ)
  /\ Placed(Listening)
  /\ Listening.state = "LISTEN" /\ Listening.get = 0
  /\ Listening.retry = FALSE /\ Listening.delay = FALSE
  /\ Listening.put = 0 /\ Listening.ack_phase = "IDLE" /\ Listening.tx_seq = 0
  /\ Listening.rx_seq = 0 /\ Listening.tx_window = 0
  <1>1. NextState("CLOSED", "OPEN_PASSIVE") = "LISTEN"
    <2> DEFINE c == CHOOSE e \in EdgeOf("CLOSED", "OPEN_PASSIVE") : TRUE
    <2>1. EdgeOf("CLOSED", "OPEN_PASSIVE") = {<<"CLOSED", "OPEN_PASSIVE", "NULL", "LISTEN">>}
      BY DEF EdgeOf, Edges
    <2>2. c = <<"CLOSED", "OPEN_PASSIVE", "NULL", "LISTEN">>
      BY <2>1
    <2>3. EdgeOf("CLOSED", "OPEN_PASSIVE") # {}
      BY <2>1
    <2>4. NextState("CLOSED", "OPEN_PASSIVE") = c[4]
      BY <2>3 DEF NextState
    <2> HIDE DEF c
    <2> QED BY <2>2, <2>4
  <1>2. NextState("LISTEN", "CLOSE") = "CLOSED" /\ ActionOf("LISTEN", "CLOSE") = "NULL"
    <2> DEFINE c == CHOOSE e \in EdgeOf("LISTEN", "CLOSE") : TRUE
    <2>1. EdgeOf("LISTEN", "CLOSE") = {<<"LISTEN", "CLOSE", "NULL", "CLOSED">>}
      BY DEF EdgeOf, Edges
    <2>2. c = <<"LISTEN", "CLOSE", "NULL", "CLOSED">>
      BY <2>1
    <2>3. EdgeOf("LISTEN", "CLOSE") # {}
      BY <2>1
    <2>4. NextState("LISTEN", "CLOSE") = c[4] /\ ActionOf("LISTEN", "CLOSE") = c[3]
      BY <2>3 DEF NextState, ActionOf
    <2> HIDE DEF c
    <2> QED BY <2>2, <2>4
  <1>3. /\ Listening.state = "LISTEN" /\ Listening.get = 0 /\ Listening.put = 0
        /\ Listening.retry = FALSE /\ Listening.delay = FALSE /\ Listening.ack_phase = "IDLE"
        /\ Listening.unacked = 0 /\ Listening.tx_seq = 0 /\ Listening.rx_seq = 0
        /\ Listening.tx_window = 0
    <2>1. Listening = [ResetZ EXCEPT !.state = "LISTEN", !.retry = ("LISTEN" = "TIMED_WAIT") \/ @]
      BY <1>1, ResetPlaced DEF Csm, Listening
    <2>2. (("LISTEN" = "TIMED_WAIT") \/ ResetZ.retry) = FALSE
      BY ResetPlaced
    <2>3. Listening = [ResetZ EXCEPT !.state = "LISTEN", !.retry = FALSE]
      BY <2>1, <2>2
    <2> QED BY <2>3 DEF ResetZ
  <1>4. DownClose(Listening) = Quiet(ResetZ)
    <2>1. Csm(Listening, "CLOSE") = ResetZ
      BY <1>2, <1>3 DEF Csm
    <2> QED BY <1>2, <1>3, <2>1 DEF DownClose, Act
  <1>5. Placed(Listening)
    BY <1>3, TcpSockAssumption DEF Placed, Located, SynEarly, Cleared, Early
  <1> QED BY <1>3, <1>4, <1>5

(* While nobody has connected, only the application acts.                      *)
LEMMA IdleStep ==
  ASSUME SInv, IInv', Bmz, peer = NewPeer
  PROVE  SInv' /\ Adds
  <1>1. toPeer = {} /\ toBmz = {} /\ z \in {ResetZ, Listening}
    BY DEF SInv, Epoch
  <1>2. /\ z' \in {ResetZ, Listening} /\ toPeer' = {} /\ toBmz' = {} /\ peer' = peer
    <2>1. CASE Open
      BY <1>1, <2>1, ListeningIs, ResetPlaced DEF Open, Listening
    <2>2. CASE CloseDown
      <3>1. z = Listening /\ Becomes(Quiet(ResetZ)) /\ UNCHANGED <<toBmz, peer>>
        BY <1>1, <2>2, ListeningIs, ResetPlaced DEF CloseDown
      <3>2. z' = ResetZ /\ toPeer' = {}
        BY <1>1, <3>1 DEF Becomes, Quiet, Carry
      <3> QED BY <1>1, <3>1, <3>2
    <2>3. ~AbortDown /\ \A n \in 1..TxSize : ~SendData(n)
      BY <1>1, ListeningIs, ResetPlaced DEF AbortDown, SendData, IsTxState
    <2>4. ~RetryTimer /\ ~DelayedAckTimer
      BY <1>1, ListeningIs, ResetPlaced DEF RetryTimer, DelayedAckTimer
    <2> QED BY <1>1, <2>1, <2>2, <2>3, <2>4 DEF Bmz
  <1>3. Placed(z') /\ z'.get = 0
    BY <1>2, ListeningIs, ResetPlaced
  <1>4. ~FinSent' /\ ~RstSent'
    <2>1. ~peer'.end
      BY <1>2 DEF NewPeer
    <2> QED BY <1>2, <2>1 DEF FinSent, RstSent
  <1>5. AckedIsReceived'
    BY <1>3 DEF AckedIsReceived
  <1> QED BY <1>2, <1>3, <1>4, <1>5 DEF SInv, Epoch, Adds

LEMMA BmzStream ==
  ASSUME SInv, Bmz
  PROVE  SInv' /\ Adds
  <1>1. IInv /\ Placed(z) /\ z \in Socket /\ Armed(z)
    BY DEF SInv, IInv, Typed
  <1>2. IInv'
    BY <1>1, BmzStep
  <1>3. CASE peer = NewPeer
    BY <1>2, <1>3, IdleStep
  <1>4. CASE peer # NewPeer
    <2>1. CASE Open
      BY <1>4, <2>1 DEF Open
    <2>2. ASSUME NEW n \in 1..TxSize, SendData(n) PROVE SInv' /\ Adds
      <3>1. IsTxState(z.state) /\ z.state # "CLOSED" /\ n \in Nat /\ n <= TxSize - (z.put - z.get)
        BY <2>2, TcpSockAssumption DEF SendData, IsTxState
      <3>2. \A o \in DownData(z, n) : Kept(z, o)
        BY <1>1, <3>1, DownDataPlaced
      <3> QED BY <1>2, <1>4, <2>2, <3>1, <3>2, HandlerMoves DEF SendData
    <2>3. CASE CloseDown
      BY <1>1, <1>2, <1>4, <2>3, DownClosePlaced, HandlerMoves DEF CloseDown
    <2>4. CASE AbortDown
      BY <1>1, <1>2, <1>4, <2>4, DownAbortPlaced, HandlerMoves DEF AbortDown
    <2>5. ASSUME NEW s \in toBmz, Receive(s), z.state # "CLOSED" PROVE SInv' /\ Adds
      <3>1. s \in FromPeer /\ toBmz' \subseteq toBmz /\ peer' = peer /\ Becomes(Up(z, s))
        BY <1>1, <2>5 DEF Receive, IInv, Typed
      <3>2. PICK o \in Up(z, s) : z' = o.z /\ toPeer' = Carry(toPeer, o.out)
        BY <3>1 DEF Becomes
      <3>3. toPeer' \subseteq toPeer \cup o.out
        BY <3>2 DEF Carry
      <3>4. /\ Sound(z, o)
            /\ o.z.get \in {0, z.get} \/ (z.ack_phase = "DATA" /\ o.z.get = s.ack - 1)
        BY <1>1, <2>5, <3>1, UpPlaced
      <3> QED BY <1>2, <1>4, <2>5, <3>1, <3>2, <3>3, <3>4, BmzMoves
    <2>6. ASSUME NEW s \in toBmz, Receive(s), z.state = "CLOSED" PROVE SInv' /\ Adds
      <3>1. UNCHANGED <<z, toPeer, peer>> /\ toBmz' \subseteq toBmz
        BY <2>6 DEF Receive
      <3> QED BY <1>2, <1>4, <3>1 DEF SInv, Epoch, FinSent, RstSent,
                                      AckedIsReceived, BytesOf, Adds
    <2>7. CASE RetryTimer \/ DelayedAckTimer
      <3>1. z.state # "CLOSED"
        BY <1>1, <2>7, ResetPlaced DEF RetryTimer, DelayedAckTimer, Placed, Cleared
      <3>2. \A o : o \in TimeoutRetry(z) \/ o \in TimeoutDelayedAck(z) => Kept(z, o)
        BY <1>1, <3>1, TimeoutPlaced
      <3> QED BY <1>2, <1>4, <2>7, <3>1, <3>2, HandlerMoves DEF RetryTimer, DelayedAckTimer
    <2> QED BY <2>1, <2>2, <2>3, <2>4, <2>5, <2>6, <2>7 DEF Bmz
  <1> QED BY <1>3, <1>4

-------------------------------------------------------------------------------
(* The steps of the peer and the network.                                      *)
LEMMA PeerMoves ==
  ASSUME SInv, IInv', z' = z, toPeer' \subseteq toPeer,
         Held(peer'), BytesOf(peer) <= BytesOf(peer'), peer.rcv <= peer'.rcv,
         NEW x, toBmz' \subseteq toBmz \cup {x}, x.ack <= peer'.rcv,
         peer' # NewPeer,
         peer'.end => FinSent,
         peer'.st = "CLOSED" => z.state = "CLOSED"
  PROVE  SInv'
  <1>1. Placed(z') /\ \A s \in toPeer' : Names(s)
    BY DEF SInv
  <1>2. FinSent' => FinSent
    BY DEF FinSent
  <1>3. RstSent' => z.state = "CLOSED"
    BY DEF SInv, Epoch, RstSent
  <1>4. \A s \in toBmz' : s.ack <= peer'.rcv
    <2>1. \A s \in toBmz : s.ack \in Int /\ s.ack <= peer.rcv
      BY DEF SInv, IInv, Typed, FromPeer
    <2>2. peer.rcv \in Int /\ peer'.rcv \in Int
      BY DEF SInv, IInv, Typed, PeerRecord
    <2>3. \A s \in toBmz : s.ack <= peer'.rcv
      BY <2>1, <2>2
    <2> QED BY <2>3
  <1>5. AckedIsReceived'
    <2>1. z.get \in Nat /\ BytesOf(peer) \in Int /\ BytesOf(peer)' \in Int
      BY DEF SInv, IInv, Typed, Socket, SocketRecord, PeerRecord, BytesOf
    <2> QED BY <2>1 DEF SInv, AckedIsReceived, BytesOf
  <1> QED BY <1>1, <1>2, <1>3, <1>4, <1>5 DEF SInv, Epoch

(* The peer takes a segment of its data: what it holds stays in place, and its *)
(* acknowledgment never goes back.                                             *)
LEMMA TakenHeld ==
  ASSUME NEW p \in PeerRecord, Held(p), p.st = "ESTABLISHED", NEW s \in FromBmz, Names(s)
  PROVE  LET t == Taken(p, s)
         IN  /\ Held(t) /\ t.st = p.st
             /\ p.rcv <= t.rcv /\ BytesOf(p) <= BytesOf(t)
             /\ t.end => p.end \/ "FIN" \in s.bits
             /\ Exact(s) => \A i \in Position : InPlace(p.got, i) => InPlace(t.got, i)
  <1> DEFINE got  == IF p.end THEN p.got ELSE GotWith(p.got, s)
             next == IF p.end THEN p.rcv ELSE Contiguous(got)
             end  == p.end \/ ("FIN" \in s.bits /\ s.seq = next)
             una  == IF "ACK" \in s.bits /\ s.ack > p.una THEN s.ack ELSE p.una
             rcv  == IF end /\ ~p.end THEN next + 1 ELSE next
             t == Taken(p, s)
  <1>1. p.got \in [Position -> Int] /\ p.rcv \in Int /\ p.end \in BOOLEAN
    BY DEF PeerRecord
  <1>2. /\ s.lo \in Int /\ s.seq \in Int /\ s.len \in Int
    BY DEF FromBmz
  <1>3. Position \subseteq Nat \ {0} /\ MaxPut \in Nat
    BY TcpLinkAssumption DEF Position
  <1>4. /\ GotWith(p.got, s) \in [Position -> Int]
        /\ \A i \in Position :
             /\ ThreeMessages => InPlace(GotWith(p.got, s), i) \/ Shifted(GotWith(p.got, s), i)
             /\ InPlace(p.got, i) /\ Exact(s) => InPlace(GotWith(p.got, s), i)
             /\ p.got[i] # 0 => GotWith(p.got, s)[i] = p.got[i]
    <2> DEFINE G(i) == IF p.got[i] = 0 /\ i \in s.seq..s.seq+s.len-1 THEN s.lo + i - s.seq + 1
                       ELSE p.got[i]
    <2>1. ASSUME NEW i \in Position
          PROVE  G(i) \in Int /\ (p.got[i] # 0 => G(i) = p.got[i])
      BY <1>1, <1>2, <1>3
    <2>2. ASSUME NEW i \in Position
          PROVE  /\ G(i) = p.got[i] \/ (s.len > 0 /\ G(i) = s.lo + i - s.seq + 1 /\ s.seq <= i)
                 /\ i \in Nat
      BY <1>1, <1>2, <1>3
    <2> HIDE DEF G
    <2>3. ASSUME NEW i \in Position, InPlace(p.got, i), Exact(s) PROVE G(i) \in {0, i}
      BY <1>2, <2>2, <2>3 DEF InPlace, Exact
    <2>4. ASSUME NEW i \in Position, ThreeMessages
          PROVE  G(i) \in {0, i} \/ (G(i) = i - MsgRoom /\ G(i) > 2 * MsgRoom)
      <3>1. InPlace(p.got, i) \/ Shifted(p.got, i)
        BY <2>4 DEF Held
      <3>2. Exact(s) \/ Third(s)
        BY <2>4 DEF Names
      <3>3. CASE G(i) = p.got[i]
        BY <3>1, <3>3 DEF InPlace, Shifted
      <3>4. CASE s.len > 0 /\ G(i) = s.lo + i - s.seq + 1 /\ s.seq <= i
        BY <1>2, <2>2, <3>2, <3>4, TcpSockAssumption DEF Exact, Third
      <3> QED BY <2>2, <3>3, <3>4
    <2>5. GotWith(p.got, s) = [i \in Position |-> G(i)]
      BY DEF GotWith, G
    <2>6. \A i \in Position : GotWith(p.got, s)[i] = G(i)
      BY <2>5
    <2> QED BY <2>1, <2>3, <2>4, <2>5, <2>6 DEF InPlace, Shifted
  <1>5. t = [p EXCEPT !.got = got, !.end = end, !.una = una, !.rcv = rcv]
    BY DEF Taken
  <1>6. /\ got \in [Position -> Int]
        /\ ThreeMessages => \A i \in Position : InPlace(got, i) \/ Shifted(got, i)
    BY <1>1, <1>4 DEF Held
  <1>7. p.end => next = p.rcv
    OBVIOUS
  <1>8. ~p.end => /\ next \in 1..MaxPut+3 /\ p.rcv <= next
                  /\ \A i \in Position : i < next => got[i] # 0
    <2> SUFFICES ASSUME ~p.end
                 PROVE  /\ next \in 1..MaxPut+3 /\ p.rcv <= next
                        /\ \A i \in Position : i < next => got[i] # 0
      OBVIOUS
    <2>1. got = GotWith(p.got, s) /\ next = Contiguous(got)
      OBVIOUS
    <2>2. \A i \in Position : p.got[i] # 0 => got[i] # 0
      BY <1>4, <2>1
    <2> HIDE DEF got, next
    <2>3. /\ next \in 1..MaxPut+3
          /\ \A q \in 1..next-1 : got[q] # 0
          /\ next \in Position => got[next] = 0
      BY <1>6, <2>1, ContiguousType
    <2>4. \A i \in Position : i < next => got[i] # 0
      <3>1. ASSUME NEW i \in Position, i < next PROVE i \in 1..next-1
        BY <1>3, <2>3, <3>1
      <3> QED BY <2>3, <3>1
    <2>5. p.rcv <= MaxPut + 3 /\ \A i \in Position : i < p.rcv => p.got[i] # 0
      BY DEF Held
    <2>6. p.rcv <= next
      <3> SUFFICES ASSUME next < p.rcv PROVE FALSE
        BY <1>1, <1>3, <2>3
      <3>1. next \in Position
        BY <1>1, <1>3, <2>3, <2>5 DEF Position
      <3> QED BY <2>2, <2>3, <2>5, <3>1
    <2> QED BY <2>3, <2>4, <2>6
  <1> HIDE DEF got, next
  <1>9. /\ end \in BOOLEAN /\ (p.end => end)
        /\ p.end => rcv = p.rcv
        /\ ~p.end /\ ~end => rcv = next
        /\ ~p.end /\ end => rcv = next + 1 /\ "FIN" \in s.bits
    BY <1>1, <1>7
  <1> HIDE DEF end, una, rcv, t
  <1>10. t.st = p.st /\ t.got = got /\ t.rcv = rcv /\ t.end = end
    BY <1>5 DEF PeerRecord
  <1>11. Held(t)
    <2>1. ASSUME ~end PROVE rcv <= MaxPut + 3 /\ \A i \in Position : i < rcv => got[i] # 0
      <3>1. ~p.end
        BY <1>9, <2>1
      <3>2. rcv = next
        BY <1>9, <2>1, <3>1
      <3> QED BY <1>3, <1>8, <3>1, <3>2
    <2> QED BY <1>6, <1>10, <2>1 DEF Held
  <1>12. p.rcv <= rcv
    BY <1>1, <1>3, <1>8, <1>9
  <1>13. BytesOf(p) <= BytesOf(t)
    <2>1. CASE p.end
      BY <1>1, <1>9, <1>10, <2>1 DEF BytesOf
    <2>2. CASE ~p.end /\ end
      BY <1>1, <1>3, <1>8, <1>9, <1>10, <2>2 DEF BytesOf
    <2>3. CASE ~p.end /\ ~end
      BY <1>1, <1>3, <1>8, <1>9, <1>10, <2>3 DEF BytesOf
    <2> QED BY <1>9, <2>1, <2>2, <2>3
  <1>14. Exact(s) => \A i \in Position : InPlace(p.got, i) => InPlace(t.got, i)
    BY <1>4, <1>10 DEF got
  <1> QED BY <1>9, <1>10, <1>11, <1>12, <1>13, <1>14 DEF t

LEMMA NewPeerHeld ==
  Held(NewPeer) /\ ~NewPeer.end
  BY TcpLinkAssumption DEF NewPeer, Held, InPlace, Position

LEMMA TakesMoves ==
  ASSUME SInv, IInv', NEW win \in Windows, NEW s \in toPeer, PeerTakes(s, win)
  PROVE  SInv'
  <1>1. /\ peer \in PeerRecord /\ s \in FromBmz /\ Names(s) /\ Held(peer)
        /\ peer.rcv \in Int /\ peer'.rcv \in Int /\ MaxPut \in Nat
    BY TcpLinkAssumption DEF SInv, IInv, Typed, PeerRecord
  <1>2. peer # NewPeer /\ z' = z /\ toPeer' \subseteq toPeer
    BY DEF SInv, Epoch, PeerTakes
  <1>3. peer.st = "CLOSED" => z.state = "CLOSED"
    BY <1>2 DEF SInv, Epoch, RstSent
  <1>4. Ack(peer, win).ack <= peer.rcv /\ Ack(peer', win).ack <= peer'.rcv
    BY <1>1 DEF Ack, PeerSegment
  <1>5. /\ PeerSends(Ack(peer, win)) => toBmz' \subseteq toBmz \cup {Ack(peer, win)}
        /\ PeerSends(Ack(peer', win)) => toBmz' \subseteq toBmz \cup {Ack(peer', win)}
    BY DEF PeerSends, Carry
  <1>6. peer.end => FinSent
    BY DEF FinSent
  <1>7. CASE /\ peer.st = "SYN_SENT"
             /\ peer' = [peer EXCEPT !.st = "ESTABLISHED", !.rcv = 1, !.una = 1]
             /\ PeerSends(Ack(peer', win))
    <2>1. /\ peer'.st = "ESTABLISHED" /\ peer'.rcv = 1 /\ peer'.got = peer.got
          /\ peer'.end = peer.end /\ peer.rcv = 0 /\ ~peer.end
      BY <1>1, <1>7 DEF PeerRecord, Held
    <2>2. Position \subseteq Nat \ {0}
      BY <1>1 DEF Position
    <2>3. Held(peer')
      BY <1>1, <2>1, <2>2 DEF Held, InPlace, Shifted
    <2>4. BytesOf(peer) <= BytesOf(peer') /\ peer.rcv <= peer'.rcv
      BY <2>1 DEF BytesOf
    <2>5. peer' # NewPeer
      BY <2>1 DEF NewPeer
    <2>6. toBmz' \subseteq toBmz \cup {Ack(peer', win)} /\ Ack(peer', win).ack <= peer'.rcv
      BY <1>1, <1>4, <1>5, <1>7
    <2> QED BY <1>2, <2>1, <2>3, <2>4, <2>5, <2>6, PeerMoves
  <1>8. CASE /\ peer.st = "ESTABLISHED"
             /\ peer' = LET p == Taken(peer, s)
                        IN  IF Finished(p) THEN [p EXCEPT !.st = "TIMED_WAIT"] ELSE p
             /\ IF s.len > 0 \/ "FIN" \in s.bits \/ s.seq # peer'.rcv
                  THEN PeerSends(Ack(peer', win)) ELSE UNCHANGED toBmz
    <2> DEFINE t == Taken(peer, s)
    <2>1. /\ t \in PeerRecord /\ Held(t) /\ t.st = "ESTABLISHED"
          /\ peer.rcv <= t.rcv /\ BytesOf(peer) <= BytesOf(t)
          /\ t.end => peer.end \/ "FIN" \in s.bits
      BY <1>1, <1>8, TakenType, TakenHeld
    <2>2. peer' \in {t, [t EXCEPT !.st = "TIMED_WAIT"]}
      BY <1>8
    <2> HIDE DEF t
    <2>3. /\ peer'.st \in {"ESTABLISHED", "TIMED_WAIT"} /\ peer'.rcv = t.rcv /\ peer'.got = t.got
          /\ peer'.end = t.end
      BY <2>1, <2>2 DEF PeerRecord
    <2>4. Held(peer')
      BY <2>1, <2>3 DEF Held
    <2>5. BytesOf(peer) <= BytesOf(peer') /\ peer.rcv <= peer'.rcv
      BY <2>1, <2>3 DEF BytesOf
    <2>6. peer' # NewPeer
      BY <2>3 DEF NewPeer
    <2>7. peer'.end => FinSent
      BY <1>6, <2>1, <2>3 DEF FinSent
    <2>8. toBmz' \subseteq toBmz \cup {Ack(peer', win)} /\ Ack(peer', win).ack <= peer'.rcv
      BY <1>1, <1>4, <1>5, <1>8
    <2> QED BY <1>2, <2>3, <2>4, <2>5, <2>6, <2>7, <2>8, PeerMoves
  <1>9. CASE UNCHANGED peer /\ (PeerSends(Ack(peer, win)) \/ UNCHANGED toBmz)
    <2>1. toBmz' \subseteq toBmz \cup {Ack(peer, win)} /\ Ack(peer, win).ack <= peer'.rcv
      BY <1>1, <1>4, <1>5, <1>9
    <2>2. BytesOf(peer) <= BytesOf(peer') /\ peer.rcv <= peer'.rcv
      BY <1>1, <1>9 DEF BytesOf
    <2> QED BY <1>1, <1>2, <1>3, <1>6, <1>9, <2>1, <2>2, PeerMoves
  <1>10. CASE "RST" \in s.bits /\ peer' = [peer EXCEPT !.st = "CLOSED", !.una = 1]
              /\ UNCHANGED toBmz
    <2>1. /\ peer'.st = "CLOSED" /\ peer'.rcv = peer.rcv /\ peer'.got = peer.got
          /\ peer'.end = peer.end /\ peer'.una = 1
      BY <1>1, <1>10 DEF PeerRecord
    <2>2. Held(peer')
      BY <1>1, <2>1 DEF Held
    <2>3. BytesOf(peer) <= BytesOf(peer') /\ peer.rcv <= peer'.rcv
      BY <1>1, <2>1 DEF BytesOf
    <2>4. peer' # NewPeer
      BY <2>1 DEF NewPeer
    <2>5. z.state = "CLOSED"
      BY <1>10 DEF SInv, Epoch, RstSent
    <2>6. toBmz' \subseteq toBmz \cup {Ack(peer', win)}
      BY <1>10
    <2> QED BY <1>2, <1>4, <1>6, <2>1, <2>2, <2>3, <2>4, <2>5, <2>6, PeerMoves
  <1> QED BY <1>7, <1>8, <1>9, <1>10 DEF PeerTakes

LEMMA PeerStream ==
  ASSUME SInv, Peer
  PROVE  SInv'
  <1>1. IInv /\ peer \in PeerRecord /\ Held(peer) /\ peer.rcv \in Int /\ (peer.end => FinSent)
    BY DEF SInv, IInv, Typed, PeerRecord, FinSent
  <1>2. IInv'
    BY <1>1, PeerStep
  <1>3. \A x : PeerSends(x) => toBmz' \subseteq toBmz \cup {x}
    BY DEF PeerSends, Carry
  <1>4. \A bits, seq, len, win : PeerSegment(peer, bits, seq, len, win).ack = peer.rcv
    BY DEF PeerSegment
  <1>5. CASE Connect
    <2>1. peer = NewPeer
      <3>1. z.state # "CLOSED" /\ peer.st = "CLOSED"
        BY <1>5 DEF Connect
      <3> QED BY <3>1 DEF SInv, Epoch, RstSent
    <2>2. peer' = [peer EXCEPT !.st = "SYN_SENT"] /\ UNCHANGED <<z, toPeer>>
      BY <1>5 DEF Connect
    <2>3. /\ peer'.st = "SYN_SENT" /\ peer'.rcv = peer.rcv /\ peer'.got = peer.got
          /\ peer'.end = peer.end
      BY <1>1, <2>2 DEF PeerRecord
    <2>4. peer.rcv = 0 /\ ~peer.end
      BY <2>1 DEF NewPeer
    <2>5. Held(peer') /\ BytesOf(peer) <= BytesOf(peer') /\ peer' # NewPeer
      BY <1>1, <2>3, <2>4 DEF Held, BytesOf, NewPeer
    <2>6. \E x : toBmz' \subseteq toBmz \cup {x} /\ x.ack <= peer'.rcv
      BY <1>1, <1>3, <1>4, <1>5, <2>3 DEF Connect
    <2>7. PICK x : toBmz' \subseteq toBmz \cup {x} /\ x.ack <= peer'.rcv
      BY <2>6
    <2> QED BY <1>1, <1>2, <2>2, <2>3, <2>5, <2>7, PeerMoves
  <1>6. ASSUME NEW win \in Windows, PeerData(win) \/ PeerClose(win) PROVE SInv'
    <2>1. /\ peer.st = "ESTABLISHED" /\ UNCHANGED <<z, toPeer>>
          /\ \/ peer' = [peer EXCEPT !.snd = peer.snd + 1]
             \/ peer' = [peer EXCEPT !.fin = TRUE]
      BY <1>6 DEF PeerData, PeerClose
    <2>2. /\ peer'.st = peer.st /\ peer'.rcv = peer.rcv /\ peer'.got = peer.got
          /\ peer'.end = peer.end
      BY <1>1, <2>1 DEF PeerRecord
    <2>3. Held(peer') /\ BytesOf(peer) <= BytesOf(peer') /\ peer.rcv <= peer'.rcv
      BY <1>1, <2>2 DEF Held, BytesOf
    <2>4. peer' # NewPeer
      BY <2>1, <2>2 DEF NewPeer
    <2>5. \E x : toBmz' \subseteq toBmz \cup {x} /\ x.ack <= peer'.rcv
      BY <1>1, <1>3, <1>4, <1>6, <2>2 DEF PeerData, PeerClose
    <2>6. PICK x : toBmz' \subseteq toBmz \cup {x} /\ x.ack <= peer'.rcv
      BY <2>5
    <2> QED BY <1>1, <1>2, <2>1, <2>2, <2>3, <2>4, <2>6, PeerMoves
  <1>7. ASSUME NEW win \in Windows, PeerRepeats(win) PROVE SInv'
    <2>1. peer.st \in {"SYN_SENT", "ESTABLISHED"} /\ UNCHANGED <<z, toPeer, peer>>
      BY <1>7 DEF PeerRepeats
    <2>2. peer # NewPeer
      BY <2>1 DEF NewPeer
    <2>3. \E x : toBmz' \subseteq toBmz \cup {x} /\ x.ack <= peer'.rcv
      BY <1>1, <1>3, <1>4, <1>7, <2>1 DEF PeerRepeats
    <2>4. PICK x : toBmz' \subseteq toBmz \cup {x} /\ x.ack <= peer'.rcv
      BY <2>3
    <2>5. BytesOf(peer) <= BytesOf(peer') /\ peer.rcv <= peer'.rcv
      BY <1>1, <2>1 DEF BytesOf
    <2> QED BY <1>1, <1>2, <2>1, <2>2, <2>4, <2>5, PeerMoves
  <1>8. ASSUME NEW win \in Windows, NEW s \in toPeer, PeerTakes(s, win) PROVE SInv'
    BY <1>2, <1>8, TakesMoves
  <1>9. CASE PeerForgets
    <2>1. z = ResetZ /\ toPeer' = {} /\ toBmz' = {} /\ peer' = NewPeer /\ z' = z
      BY <1>9 DEF PeerForgets, SInv, Placed, Cleared
    <2> QED BY <1>2, <2>1, NewPeerHeld, ResetPlaced DEF SInv, Epoch, FinSent, RstSent,
                                                      AckedIsReceived
  <1> QED BY <1>5, <1>6, <1>7, <1>8, <1>9 DEF Peer

LEMMA NetworkStream ==
  ASSUME SInv, Network
  PROVE  SInv'
  <1>1. IInv'
    BY NetworkStep DEF SInv
  <1>2. /\ UNCHANGED <<z, peer>> /\ toPeer' \subseteq toPeer /\ toBmz' \subseteq toBmz
        /\ toPeer # {} \/ toBmz # {}
    BY DEF Network, LoseToPeer, LoseToBmz
  <1> QED BY <1>1, <1>2 DEF SInv, Epoch, FinSent, RstSent, AckedIsReceived, BytesOf

-------------------------------------------------------------------------------
(* The invariant of the proof: where every number and every FIN and RST comes  *)
(* from.                                                                       *)
THEOREM StreamInvariance == Spec => []SInv
  <1>1. Init => SInv
    <2>1. ASSUME Init PROVE IInv
      BY <2>1, ResetType, NewPeerType DEF Init, IInv, Typed
    <2> QED BY <2>1, NewPeerHeld, ResetPlaced DEF Init, SInv, Epoch, FinSent, RstSent, AckedIsReceived
  <1>2. SInv /\ UNCHANGED vars => SInv'
    <2>1. SInv /\ UNCHANGED vars => IInv'
      BY DEF SInv, IInv, Typed, Armed, Awaits, vars
    <2> QED BY <2>1 DEF SInv, Epoch, FinSent, RstSent, AckedIsReceived, BytesOf, vars
  <1>3. SInv /\ [Next]_vars => SInv'
    BY <1>2, BmzStream, PeerStream, NetworkStream DEF Next
  <1> QED BY <1>1, <1>3, PTL DEF Spec

(* What is on its way is numbered right, and what the peer holds is in place.  *)
Ordered == (\A s \in toPeer : Exact(s)) /\ StreamIntact

LEMMA PeerOrdered ==
  ASSUME SInv, Ordered, Peer
  PROVE  Ordered'
  <1>1. peer \in PeerRecord /\ \A s \in toPeer : s \in FromBmz /\ Exact(s) /\ Names(s)
    BY DEF SInv, IInv, Typed, Ordered
  <1>2. toPeer' \subseteq toPeer
    BY DEF Peer, Connect, PeerData, PeerClose, PeerRepeats, PeerTakes, PeerForgets
  <1>3. CASE peer'.got = peer.got
    BY <1>2, <1>3 DEF Ordered, StreamIntact
  <1>4. CASE PeerForgets
    <2>1. peer' = NewPeer
      BY <1>4 DEF PeerForgets
    <2> QED BY <1>2, <2>1 DEF NewPeer, Ordered, StreamIntact
  <1>5. CASE Connect \/ \E win \in Windows : PeerData(win) \/ PeerClose(win) \/ PeerRepeats(win)
    <2>1. peer'.got = peer.got
      BY <1>1, <1>5 DEF Connect, PeerData, PeerClose, PeerRepeats, PeerRecord
    <2> QED BY <1>3, <2>1
  <1>6. ASSUME NEW win \in Windows, NEW s \in toPeer, PeerTakes(s, win) PROVE Ordered'
    <2>1. \/ peer' \in {peer, [peer EXCEPT !.st = "ESTABLISHED", !.rcv = 1, !.una = 1],
                         [peer EXCEPT !.st = "CLOSED", !.una = 1]}
          \/ /\ peer.st = "ESTABLISHED"
             /\ peer' = LET p == Taken(peer, s)
                        IN  IF Finished(p) THEN [p EXCEPT !.st = "TIMED_WAIT"] ELSE p
      BY <1>6 DEF PeerTakes
    <2>2. CASE peer' \in {peer, [peer EXCEPT !.st = "ESTABLISHED", !.rcv = 1, !.una = 1],
                          [peer EXCEPT !.st = "CLOSED", !.una = 1]}
      <3>1. peer'.got = peer.got
        BY <1>1, <2>2 DEF PeerRecord
      <3> QED BY <1>3, <3>1
    <2>3. CASE /\ peer.st = "ESTABLISHED"
               /\ peer' = LET p == Taken(peer, s)
                          IN  IF Finished(p) THEN [p EXCEPT !.st = "TIMED_WAIT"] ELSE p
      <3> DEFINE t == Taken(peer, s)
      <3>1. \A i \in Position : InPlace(peer.got, i) => InPlace(t.got, i)
        BY <1>1, <2>3, TakenHeld DEF SInv
      <3>2. t \in PeerRecord
        BY <1>1, TakenType
      <3>3. peer' \in {t, [t EXCEPT !.st = "TIMED_WAIT"]}
        BY <2>3
      <3> HIDE DEF t
      <3>4. peer'.got = t.got
        BY <3>2, <3>3 DEF PeerRecord
      <3> QED BY <1>2, <3>1, <3>4 DEF Ordered, StreamIntact, InPlace
    <2> QED BY <2>1, <2>2, <2>3
  <1> QED BY <1>4, <1>5, <1>6 DEF Peer

(* Every byte the peer holds is where the application put it in the stream, as *)
(* long as there are never more than two messages' data that may be sent at    *)
(* once, whatever is lost, delayed, repeated or cannot be sent.                *)
THEOREM StreamKept == Spec /\ []Few(z) => []StreamIntact
  <1>1. Init => Ordered
    BY DEF Init, NewPeer, Ordered, StreamIntact
  <1>2. SInv /\ Few(z)' /\ Ordered /\ [Next]_vars => Ordered'
    <2> SUFFICES ASSUME SInv, Few(z)', Ordered, [Next]_vars PROVE Ordered'
      OBVIOUS
    <2>1. CASE Bmz
      <3>1. Adds
        BY <2>1, BmzStream
      <3>2. peer' = peer
        BY <2>1 DEF Bmz, Open, SendData, CloseDown, AbortDown, Receive, RetryTimer, DelayedAckTimer
      <3> QED BY <3>1, <3>2 DEF Ordered, StreamIntact, Adds
    <2>2. CASE Peer
      BY <2>2, PeerOrdered
    <2>3. CASE Network
      BY <2>3 DEF Network, LoseToPeer, LoseToBmz, Ordered, StreamIntact
    <2>4. CASE UNCHANGED vars
      BY <2>4 DEF vars, Ordered, StreamIntact
    <2> QED BY <2>1, <2>2, <2>3, <2>4 DEF Next
  <1>3. Ordered => StreamIntact
    BY DEF Ordered
  <1> QED BY <1>1, <1>2, <1>3, StreamInvariance, PTL DEF Spec

(* With the sizes of the code, whatever windows the peer opens: a byte that is *)
(* out of place is one of a third segment, that is it comes after two messages *)
(* of the stream or more, and it lies one message too far on.                  *)
Misplaced(i) == peer.got[i] \notin {0, i}
OnlyThirds == \A i \in Position : Misplaced(i) => /\ peer.got[i] = i - MsgRoom
                                                 /\ peer.got[i] > 2 * MsgRoom
THEOREM OnlyThirdsMisplaced ==
  ASSUME TxSize <= 3 * MsgRoom
  PROVE  Spec => []OnlyThirds
  <1>1. SInv => OnlyThirds
    BY DEF SInv, Held, InPlace, Shifted, ThreeMessages, Misplaced, OnlyThirds
  <1> QED BY <1>1, StreamInvariance, PTL

(* No byte leaves the tx buffer before the peer has it.                        *)
THEOREM NothingDropped == Spec => []AckedIsReceived
  <1>1. SInv => AckedIsReceived
    BY DEF SInv
  <1> QED BY StreamInvariance, <1>1, PTL

-------------------------------------------------------------------------------
(* The ranges: what the peer has sent bounds what the socket expects, and what *)
(* the application has sent bounds what it numbers.  While data may be sent    *)
(* the SYN or the data is being acknowledged, so that there is one FIN.        *)
PeerEnd(p) == 1 + p.snd + (IF p.fin THEN 1 ELSE 0)
Sending    == {"SYN_RECVD", "ESTABLISHED", "CLOSE_WAIT"}
Bounded(y) == /\ y.put <= MaxPut
              /\ y.tx_window \in Windows \cup {0}
              /\ y.tx_seq \in 0..MaxPut+2
              /\ y.ack_phase # "IDLE" => y.tx_seq <= MaxPut + 1
Phased(y)  == y.state \in Sending => y.ack_phase \in {"SYN", "DATA"}
Within(y, p) == Bounded(y) /\ Phased(y) /\ y.rx_seq \in 0..PeerEnd(p)

(* A segment of a peer that has come as far as p.                              *)
Comes(s, p) == /\ s.len >= 0 /\ s.seq >= 0
               /\ s.seq + s.len <= PeerEnd(p)
               /\ s.win \in Windows \cup {0}
               /\ "SYN" \in s.bits => s.seq = 0
               /\ "FIN" \in s.bits => s.seq < PeerEnd(p)
RangeInv == /\ SInv
            /\ Within(z, peer)
            /\ \A s \in toBmz : Comes(s, peer)
            /\ peer.snd \in 0..PeerMax /\ peer.una >= 0
            /\ failed \in 0..MaxFailed

(* The fields the ranges depend on.                                            *)
Same(x, y) == /\ Alike(x, y)
              /\ x.tx_window = y.tx_window /\ x.rx_seq = y.rx_seq

LEMMA SameWithin ==
  ASSUME NEW x, NEW y, NEW p, Same(x, y)
  PROVE  /\ Bounded(y) => Bounded(x)
         /\ Phased(y) => Phased(x)
         /\ Within(y, p) => Within(x, p)
  BY DEF Same, Alike, Bounded, Phased, Within

LEMMA ResetWithin ==
  ASSUME NEW p, PeerEnd(p) \in Nat
  PROVE  Within(ResetZ, p)
  BY TcpLinkAssumption DEF ResetZ, Within, Bounded, Phased, Sending

LEMMA PeerEndType ==
  ASSUME NEW p \in PeerRecord, p.snd \in 0..PeerMax
  PROVE  /\ PeerEnd(p) \in Nat /\ PeerEnd(p) <= PeerMax + 2 /\ PeerEnd(p) >= 1
         /\ 1 + p.snd <= PeerEnd(p)
         /\ p.fin => PeerEnd(p) = p.snd + 2
         /\ ~p.fin => PeerEnd(p) = p.snd + 1
  BY TcpLinkAssumption DEF PeerEnd, PeerRecord

(* The one FIN is sent by a socket that leaves the states in which data is.    *)
LEMMA FinTable ==
  ASSUME NEW st \in State \ {"CLOSED", "SYN_SENT"}, NEW ev
  PROVE  LET nx == NextState(st, ev)
             a  == ActionOf(st, ev)
         IN  /\ a = "TX_FIN" => st \in Sending /\ nx \notin Sending
             /\ nx \in Sending => st \in Sending \/ a = "TX_SYN_ACK"
  <1> DEFINE Row(e) ==
        e[1] \notin {"CLOSED", "SYN_SENT"} =>
             /\ e[3] = "TX_FIN" => e[1] \in Sending /\ e[4] \notin Sending
             /\ e[4] \in Sending => e[1] \in Sending \/ e[3] = "TX_SYN_ACK"
  <1>1. \A e \in Edges : Row(e)
    BY DEF Edges, Sending
  <1>2. CASE EdgeOf(st, ev) = {}
    <2>1. NextState(st, ev) = st /\ ActionOf(st, ev) = "NULL"
      BY <1>2 DEF NextState, ActionOf
    <2> QED BY <2>1
  <1>3. CASE EdgeOf(st, ev) # {}
    <2> DEFINE c == CHOOSE e \in EdgeOf(st, ev) : TRUE
    <2>1. c \in EdgeOf(st, ev)
      BY <1>3
    <2>2. NextState(st, ev) = c[4] /\ ActionOf(st, ev) = c[3]
      BY <1>3 DEF NextState, ActionOf
    <2> HIDE DEF c
    <2>3. c \in Edges /\ c[1] = st /\ c[2] = ev
      BY <2>1 DEF EdgeOf
    <2>4. Row(c)
      BY <1>1, <2>3
    <2> QED BY <2>2, <2>3, <2>4
  <1> QED BY <1>2, <1>3

LEMMA TxWithin ==
  ASSUME NEW y \in Socket, NEW action \in Action, NEW p, y.rx_seq \in 0..PeerEnd(p),
         Bounded(y),
         action \notin {"TX_SYN_ACK", "TX_SYN"} => Phased(y),
         action = "TX_FIN" => y.ack_phase # "IDLE" /\ y.state \notin Sending,
         NEW o \in TxProcess(y, action)
  PROVE  Within(o.z, p)
  <1> DEFINE r == Prepared(y, action)
             After(n) == [r EXCEPT !.unacked = MinOf(n * MsgRoom, Amount(y, action)),
                                   !.pending = IF n > 0 THEN FALSE ELSE @]
  <1>1. r \in Socket
    BY PreparedType
  <1>2. Within(r, p)
    <2>1. CASE action \in {"TX_SYN_ACK", "TX_SYN"}
      <3>1. /\ r.ack_phase = "SYN" /\ r.tx_seq = 0 /\ r.put = y.put
            /\ r.tx_window = y.tx_window /\ r.rx_seq = y.rx_seq
        BY <2>1 DEF Prepared, Socket, SocketRecord
      <3> HIDE DEF r
      <3> QED BY <3>1, TcpLinkAssumption DEF Within, Bounded, Phased
    <2>2. CASE action = "TX_FIN"
      <3>1. /\ r.ack_phase = "FIN" /\ r.tx_seq = y.tx_seq /\ r.put = y.put
            /\ r.tx_window = y.tx_window /\ r.rx_seq = y.rx_seq /\ r.state = y.state
        BY <2>2 DEF Prepared, Socket, SocketRecord
      <3> HIDE DEF r
      <3> QED BY <2>2, <3>1 DEF Within, Bounded, Phased
    <2>3. CASE action \notin {"TX_SYN_ACK", "TX_SYN", "TX_FIN"}
      <3>1. r \in {y, [y EXCEPT !.send_ack = TRUE]}
        BY <2>3 DEF Prepared
      <3> HIDE DEF r
      <3>2. Same(r, y)
        BY <3>1 DEF Same, Alike, Socket, SocketRecord
      <3>3. Within(y, p)
        BY <2>3 DEF Within
      <3> QED BY <3>2, <3>3, SameWithin
    <2> QED BY <2>1, <2>2, <2>3
  <1>3. \E n \in Int : o.z = ArmRetry(After(n)) \/ o.z = ArmRetry(r)
    <2>1. CASE Sends(y, action)
      <3>1. NbrSegments(y, action) \in Int
        BY AmountType, TcpSockAssumption DEF NbrSegments
      <3>2. PICK n \in 0..NbrSegments(y, action) :
               o = [z |-> ArmRetry(After(n)), out |-> {Segment(y, action, k) : k \in 1..n},
                    failed |-> n < NbrSegments(y, action)]
        BY <2>1 DEF TxProcess
      <3>3. n \in Int
        BY <3>1
      <3> QED BY <3>2, <3>3
    <2>2. CASE ~Sends(y, action)
      <3>1. o.z = ArmRetry(r)
        BY <2>2 DEF TxProcess
      <3> QED BY <3>1
    <2> QED BY <2>1, <2>2
  <1> HIDE DEF r
  <1>4. Same(o.z, r)
    <2>1. PICK n \in Int : o.z = ArmRetry(After(n)) \/ o.z = ArmRetry(r)
      BY <1>3
    <2>2. Same(ArmRetry(r), r)
      BY <1>1 DEF Same, Alike, ArmRetry, Socket, SocketRecord
    <2>3. Same(ArmRetry(After(n)), r)
      BY <1>1 DEF Same, Alike, ArmRetry, Socket, SocketRecord
    <2> HIDE DEF After
    <2> QED BY <2>1, <2>2, <2>3
  <1> QED BY <1>2, <1>4, SameWithin

LEMMA AckedWithin ==
  ASSUME NEW y \in Socket, Placed(y), y.state # "CLOSED", NEW s \in FromPeer,
         NEW p, Within(y, p), s.win \in Windows \cup {0}
  PROVE  Within(Acked(y, s), p) /\ Acked(y, s).rx_seq = y.rx_seq
  <1> DEFINE a == Acked(y, s)
             n == NbrAcked(y, s)
             w == [y EXCEPT !.tx_seq = @ + n, !.tx_window = s.win,
                            !.retry = @ /\ ~Stops(y, s)]
  <1>1. /\ n \in Int /\ n = s.ack - y.tx_seq /\ y.tx_seq \in Int /\ s.ack \in Int
        /\ y.get \in Nat /\ y.put \in Nat /\ y.get <= y.put /\ MaxPut \in Nat
    BY TcpLinkAssumption DEF NbrAcked, Socket, SocketRecord, FromPeer
  <1>2. a \in Socket /\ Placed(a)
    BY AckedType, AckedPlaced
  <1>3. CASE ~AckOk(y, s) \/ n <= 0
    BY <1>3 DEF Acked
  <1>4. CASE AckOk(y, s) /\ ~(n <= 0)
    <2>1. a = CASE y.ack_phase = "SYN"  -> [w EXCEPT !.ack_phase = "DATA", !.unacked = 0]
                [] y.ack_phase = "FIN"  -> [w EXCEPT !.ack_phase = "IDLE"]
                [] y.ack_phase = "DATA" -> [w EXCEPT !.get = @ + n, !.unacked = @ - n]
      BY <1>4 DEF Acked
    <2> HIDE DEF n
    <2>2. /\ w.state = y.state /\ w.put = y.put /\ w.tx_seq = y.tx_seq + n
          /\ w.ack_phase = y.ack_phase /\ w.rx_seq = y.rx_seq /\ w.tx_window = s.win
          /\ \A v1, v2 : LET x == [w EXCEPT !.ack_phase = v1, !.unacked = v2]
                         IN  /\ x.state = y.state /\ x.put = y.put /\ x.rx_seq = y.rx_seq
                             /\ x.tx_seq = y.tx_seq + n /\ x.ack_phase = v1 /\ x.tx_window = s.win
          /\ \A v : LET x == [w EXCEPT !.ack_phase = v]
                    IN  /\ x.state = y.state /\ x.put = y.put /\ x.rx_seq = y.rx_seq
                        /\ x.tx_seq = y.tx_seq + n /\ x.ack_phase = v /\ x.tx_window = s.win
          /\ \A v1, v2 : LET x == [w EXCEPT !.get = v1, !.unacked = v2]
                         IN  /\ x.state = y.state /\ x.put = y.put /\ x.rx_seq = y.rx_seq
                             /\ x.tx_seq = y.tx_seq + n /\ x.ack_phase = y.ack_phase
                             /\ x.tx_window = s.win
      BY DEF Socket, SocketRecord
    <2> HIDE DEF w, a
    <2>3. CASE y.ack_phase = "SYN"
      <3>1. y.tx_seq = 0 /\ n = 1
        BY <1>1, <1>4, <2>3 DEF Placed, SynEarly, AckOk, n
      <3>2. a = [w EXCEPT !.ack_phase = "DATA", !.unacked = 0]
        BY <2>1, <2>3
      <3>3. /\ a.state = y.state /\ a.put = y.put /\ a.rx_seq = y.rx_seq
            /\ a.tx_seq = 1 /\ a.ack_phase = "DATA" /\ a.tx_window = s.win
        BY <2>2, <3>1, <3>2
      <3> QED BY <1>1, <3>3 DEF Within, Bounded, Phased, a
    <2>4. CASE y.ack_phase = "FIN"
      <3>1. n = 1 /\ y.tx_seq \in 0..MaxPut+1 /\ y.state \notin Sending
        BY <1>1, <1>4, <2>4 DEF AckOk, n, Within, Bounded, Phased
      <3>2. /\ a.state = y.state /\ a.put = y.put /\ a.rx_seq = y.rx_seq
            /\ a.tx_seq = y.tx_seq + 1 /\ a.ack_phase = "IDLE" /\ a.tx_window = s.win
        BY <2>1, <2>2, <2>4, <3>1
      <3> QED BY <1>1, <3>1, <3>2 DEF Within, Bounded, Phased, a
    <2>5. CASE y.ack_phase = "DATA"
      <3>3. \E v1, v2 : a = [w EXCEPT !.get = v1, !.unacked = v2]
        BY <2>1, <2>5
      <3>1. /\ a.state = y.state /\ a.put = y.put /\ a.rx_seq = y.rx_seq
            /\ a.ack_phase = "DATA" /\ a.tx_window = s.win
        BY <2>2, <2>5, <3>3
      <3>2. a.tx_seq = a.get + 1 /\ a.get <= a.put /\ a.get \in Nat /\ a.put \in Nat
        BY <1>2, <3>1 DEF Placed, Located, Socket, SocketRecord
      <3> QED BY <1>1, <3>1, <3>2 DEF Within, Bounded, Phased, a
    <2> QED BY <1>4, <2>3, <2>4, <2>5 DEF AckOk
  <1> QED BY <1>3, <1>4

(* connection_state_machine: a state in which data is sent is entered only     *)
(* with a SYN to be acknowledged.                                              *)
LEMMA CsmWithin ==
  ASSUME NEW y \in Socket, Placed(y), y.state # "CLOSED", NEW ev, NEW p, Within(y, p),
         PeerEnd(p) \in Nat
  PROVE  LET c == Csm(y, ev)
             act == ActionOf(y.state, ev)
         IN  /\ Bounded(c) /\ c.rx_seq \in {0, y.rx_seq} /\ c.rx_seq \in 0..PeerEnd(p)
             /\ act # "TX_SYN_ACK" => Phased(c)
             /\ act = "TX_FIN" => c.ack_phase # "IDLE" /\ c.state \notin Sending
  <1> DEFINE st == NextState(y.state, ev)
             act == ActionOf(y.state, ev)
             c == Csm(y, ev)
  <1>1. y.state \in State \ {"CLOSED", "SYN_SENT"}
    BY DEF Placed, Located, Socket, SocketRecord
  <1>2. /\ act = "TX_FIN" => y.state \in Sending /\ st \notin Sending
        /\ st \in Sending => y.state \in Sending \/ act = "TX_SYN_ACK"
        /\ act = "TX_FIN" => st \in {"FIN_WAIT1", "LASTACK"}
    BY <1>1, FinTable, Table
  <1> HIDE DEF st, act
  <1>3. CASE st = y.state
    <2>1. c = y
      BY <1>3 DEF Csm, st
    <2> QED BY <1>2, <1>3, <2>1 DEF Within, act
  <1>4. CASE st # y.state /\ st = "CLOSED"
    <2>1. c = ResetZ
      BY <1>4 DEF Csm, st
    <2>2. Within(ResetZ, p) /\ ResetZ.rx_seq = 0
      BY ResetWithin DEF ResetZ
    <2> QED BY <1>2, <1>4, <2>1, <2>2 DEF Within, act
  <1>5. CASE st # y.state /\ st = "LISTEN" /\ y.state = "SYN_RECVD"
    <2>1. c = [y EXCEPT !.state = st, !.ack_phase = "IDLE", !.send_ack = FALSE]
      BY <1>5 DEF Csm, st
    <2> HIDE DEF c
    <2>2. /\ c.state = st /\ c.ack_phase = "IDLE" /\ c.put = y.put /\ c.tx_seq = y.tx_seq
          /\ c.tx_window = y.tx_window /\ c.rx_seq = y.rx_seq
      BY <2>1 DEF Socket, SocketRecord
    <2> QED BY <1>2, <1>5, <2>2 DEF Within, Bounded, Phased, Sending, act, c
  <1>6. CASE st # y.state /\ st # "CLOSED" /\ ~(st = "LISTEN" /\ y.state = "SYN_RECVD")
    <2>1. c = [y EXCEPT !.state = st, !.retry = (st = "TIMED_WAIT") \/ @]
      BY <1>6 DEF Csm, st
    <2> HIDE DEF c
    <2>2. /\ c.state = st /\ c.ack_phase = y.ack_phase /\ c.put = y.put /\ c.tx_seq = y.tx_seq
          /\ c.tx_window = y.tx_window /\ c.rx_seq = y.rx_seq
      BY <2>1 DEF Socket, SocketRecord
    <2>3. act = "TX_FIN" => c.ack_phase # "IDLE" /\ c.state \notin Sending
      BY <1>2, <2>2 DEF Within, Phased
    <2> QED BY <1>2, <1>6, <2>2, <2>3 DEF Within, Bounded, Phased, act, c
  <1> QED BY <1>3, <1>4, <1>5, <1>6

(* tcpsock_up: what the socket expects next is never more than was sent.       *)
LEMMA UpWithin ==
  ASSUME NEW y \in Socket, Placed(y), Armed(y), y.state # "CLOSED", NEW s \in FromPeer,
         NEW p, Within(y, p), Comes(s, p), PeerEnd(p) \in Nat, PeerEnd(p) >= 1,
         NEW o \in Up(y, s)
  PROVE  Within(o.z, p)
  <1> DEFINE ev == EventOf(y, s)
             a == Acked(y, s)
             c == Csm(a, ev)
             m == Moved(y, s, ev)
             w == Accepted(y, m, s)
             act == ActionOf(y.state, ev)
  <1>1. /\ a \in Socket /\ Placed(a) /\ a.state = y.state
        /\ Within(a, p) /\ a.rx_seq = y.rx_seq
    BY AckedPlaced, AckedWithin DEF Comes
  <1>2. /\ ev \in {"RX_SYN", "RX_SYN_ACK"} => s.seq = 0
        /\ ev \in {"RX_FIN", "RX_FIN_ACK"} => s.seq = y.rx_seq /\ s.seq < PeerEnd(p)
    BY DEF EventOf, Comes
  <1>3. m \in Socket /\ w \in Socket
    BY MovedType, AcceptedType
  <1>4. /\ act \in {"NULL", "TX_ACK", "TX_SYN_ACK", "TX_FIN"}
        /\ act = "TX_SYN_ACK" => y.state = "LISTEN"
    BY Table DEF Placed, Located, Socket, SocketRecord
  <1>5. /\ s.seq \in Nat /\ s.len \in Nat /\ s.seq + s.len <= PeerEnd(p)
        /\ y.rx_seq \in Int /\ m.rx_seq \in Int
    BY <1>3 DEF Comes, FromPeer, Socket, SocketRecord
  <1> HIDE DEF ev, a
  <1>6. /\ Bounded(c) /\ c.rx_seq \in {0, y.rx_seq} /\ c.rx_seq \in 0..PeerEnd(p)
        /\ act # "TX_SYN_ACK" => Phased(c)
        /\ act = "TX_FIN" => c.ack_phase # "IDLE" /\ c.state \notin Sending
        /\ c \in Socket
    BY <1>1, CsmWithin, CsmType
  <1> HIDE DEF c
  <1>7. Alike(m, c) /\ m.tx_window = c.tx_window /\ m.rx_seq \in 0..PeerEnd(p)
    <2>1. m = IF c.state = y.state THEN c
              ELSE CASE ev \in {"RX_SYN", "RX_SYN_ACK"} -> [c EXCEPT !.rx_seq = s.seq + 1]
                     [] ev \in {"RX_FIN", "RX_FIN_ACK"} -> [c EXCEPT !.rx_seq = @ + 1]
                     [] OTHER -> c
      BY DEF Moved, a, c
    <2> HIDE DEF m
    <2>2. CASE m = c
      BY <1>6, <2>2 DEF Alike
    <2>3. CASE ev \in {"RX_SYN", "RX_SYN_ACK"} /\ m = [c EXCEPT !.rx_seq = s.seq + 1]
      <3>1. Alike(m, c) /\ m.tx_window = c.tx_window /\ m.rx_seq = s.seq + 1
        BY <1>6, <2>3 DEF Alike, Socket, SocketRecord
      <3> QED BY <1>2, <2>3, <3>1
    <2>4. CASE ev \in {"RX_FIN", "RX_FIN_ACK"} /\ m = [c EXCEPT !.rx_seq = @ + 1]
      <3>1. Alike(m, c) /\ m.tx_window = c.tx_window /\ m.rx_seq = c.rx_seq + 1
        BY <1>6, <2>4 DEF Alike, Socket, SocketRecord
      <3> QED BY <1>2, <1>5, <1>6, <2>4, <3>1
    <2> QED BY <2>1, <2>2, <2>3, <2>4
  <1> HIDE DEF m
  <1>8. Alike(w, c) /\ w.tx_window = c.tx_window /\ w.rx_seq \in 0..PeerEnd(p)
    <2>1. \/ w = m
          \/ w = [m EXCEPT !.rx_seq = m.rx_seq + s.len, !.delay = TRUE, !.pending = TRUE]
             /\ m.rx_seq = s.seq
      BY DEF Accepted
    <2> HIDE DEF w
    <2>2. CASE w = m
      BY <1>7, <2>2
    <2>3. CASE /\ w = [m EXCEPT !.rx_seq = m.rx_seq + s.len, !.delay = TRUE, !.pending = TRUE]
               /\ m.rx_seq = s.seq
      <3>1. Alike(w, m) /\ w.tx_window = m.tx_window /\ w.rx_seq = s.seq + s.len
        BY <1>3, <2>3 DEF Alike, Socket, SocketRecord
      <3> QED BY <1>5, <1>7, <3>1 DEF Alike
    <2> QED BY <2>1, <2>2, <2>3
  <1>9. Listens(y, m) => act # "TX_SYN_ACK"
    BY <1>4 DEF Listens, IsRxState
  <1> HIDE DEF w, act
  <1>10. /\ Bounded(w)
         /\ act # "TX_SYN_ACK" => Phased(w) /\ Within(w, p)
         /\ act = "TX_FIN" => w.ack_phase # "IDLE" /\ w.state \notin Sending
    BY <1>6, <1>8 DEF Alike, Bounded, Phased, Within
  <1>11. \/ o \in TxProcess(w, "TX_ACK") /\ Listens(y, m)
         \/ o \in TxProcess(w, "TX_NEW_DATA") /\ act = "NULL"
         \/ o \in Act(w, act)
    BY DEF Up, m, w, act, ev
  <1>12. CASE o \in TxProcess(w, "TX_ACK") /\ Listens(y, m)
    BY <1>3, <1>8, <1>9, <1>10, <1>12, TxWithin DEF Action
  <1>13. CASE o \in TxProcess(w, "TX_NEW_DATA") /\ act = "NULL"
    BY <1>3, <1>8, <1>10, <1>13, TxWithin DEF Action
  <1>14. CASE o \in Act(w, act) /\ act = "NULL"
    <2>1. o.z = w
      BY <1>14 DEF Act, Quiet
    <2> QED BY <1>10, <1>14, <2>1
  <1>15. CASE o \in Act(w, act) /\ act # "NULL"
    <2>1. o \in TxProcess(w, act) /\ act \in Action
      BY <1>4, <1>15 DEF Act, Action, act
    <2> QED BY <1>3, <1>8, <1>10, <2>1, TxWithin
  <1> QED BY <1>11, <1>12, <1>13, <1>14, <1>15

(* tcpsock_down and the timers.                                                *)
LEMMA TxOfWithin ==
  ASSUME NEW y \in Socket, NEW p, Within(y, p),
         NEW action \in {"TX_NEW_DATA", "TX_ACK", "TX_RETRY", "TX_RESET"},
         NEW o \in TxProcess(y, action)
  PROVE  Within(o.z, p)
  BY TxWithin DEF Action, Within

LEMMA DownWithin ==
  ASSUME NEW y \in Socket, Placed(y), y.state # "CLOSED", NEW p, Within(y, p),
         PeerEnd(p) \in Nat
  PROVE  /\ \A n \in Nat : y.put + n <= MaxPut =>
                \A o \in DownData(y, n) : Within(o.z, p)
         /\ \A o \in DownClose(y) : Within(o.z, p)
         /\ \A o \in DownAbort(y) : Within(o.z, p)
         /\ \A o \in TimeoutRetry(y) : Within(o.z, p)
         /\ \A o \in TimeoutDelayedAck(y) : Within(o.z, p)
  <1>1. ASSUME NEW n \in Nat, y.put + n <= MaxPut, NEW o \in DownData(y, n)
        PROVE  Within(o.z, p)
    <2> DEFINE x == [y EXCEPT !.put = y.put + n]
    <2>1. /\ x \in Socket /\ x.put = y.put + n /\ x.state = y.state
          /\ x.ack_phase = y.ack_phase /\ x.tx_seq = y.tx_seq /\ x.rx_seq = y.rx_seq
          /\ x.tx_window = y.tx_window
      BY DEF Socket, SocketRecord
    <2>2. o \in TxProcess(x, "TX_NEW_DATA") \/ o \in Quiet(y)
          \/ o \in Quiet(x)
      BY <1>1 DEF DownData
    <2> HIDE DEF x
    <2>3. Within(x, p)
      BY <1>1, <2>1 DEF Within, Bounded, Phased
    <2> QED BY <2>1, <2>2, <2>3, TxOfWithin DEF Quiet
  <1>2. ASSUME NEW o \in DownClose(y) PROVE Within(o.z, p)
    <2> DEFINE c == Csm(y, "CLOSE")
               act == ActionOf(y.state, "CLOSE")
    <2>1. /\ act \in {"NULL", "TX_ACK", "TX_SYN_ACK", "TX_FIN"}
          /\ act = "TX_SYN_ACK" => y.state = "LISTEN" /\ NextState(y.state, "CLOSE") = "SYN_RECVD"
          /\ y.state \in State
      BY Table DEF Placed, Located, Socket, SocketRecord
    <2>2. /\ Bounded(c) /\ c.rx_seq \in 0..PeerEnd(p)
          /\ act # "TX_SYN_ACK" => Phased(c)
          /\ act = "TX_FIN" => c.ack_phase # "IDLE" /\ c.state \notin Sending
          /\ c \in Socket
      BY CsmWithin, CsmType
    <2>3. o \in Act(c, act) \/ o \in Quiet(y)
      BY <1>2 DEF DownClose
    <2> HIDE DEF c
    <2>4. CASE act = "NULL"
      BY <2>2, <2>3, <2>4 DEF Act, Quiet, Within
    <2>5. CASE act # "NULL"
      <3>1. o \in TxProcess(c, act) \/ o.z = y
        BY <2>3, <2>5 DEF Act, Quiet
      <3>2. act \in Action
        BY <2>1 DEF Action
      <3> HIDE DEF act
      <3> QED BY <2>2, <3>1, <3>2, TxWithin
    <2> QED BY <2>4, <2>5
  <1>3. ASSUME NEW o \in DownAbort(y) PROVE Within(o.z, p)
    BY DownAbortPlaced, ResetWithin
  <1>4. ASSUME NEW x \in Socket, Same(x, y), NEW action \in {"TX_RETRY", "TX_ACK"},
               NEW o, o \in TxProcess(x, action) \/ o \in Quiet(x)
        PROVE  Within(o.z, p)
    <2>1. Within(x, p)
      BY <1>4, SameWithin
    <2>2. o \in TxProcess(x, action) \/ o.z = x
      BY <1>4 DEF Quiet
    <2> QED BY <2>1, <2>2, TxOfWithin
  <1>5. ASSUME NEW o \in TimeoutRetry(y) PROVE Within(o.z, p)
    <2> DEFINE x == [y EXCEPT !.retry = FALSE]
    <2>1. x \in Socket /\ Same(x, y)
      BY DEF Socket, SocketRecord, Same, Alike
    <2>2. o \in TxProcess(x, "TX_RETRY") \/ o \in Quiet(ResetZ)
      BY <1>5 DEF TimeoutRetry
    <2> HIDE DEF x
    <2> QED BY <1>4, <2>1, <2>2, ResetWithin DEF Quiet
  <1>6. ASSUME NEW o \in TimeoutDelayedAck(y) PROVE Within(o.z, p)
    <2> DEFINE x == [y EXCEPT !.delay = FALSE]
    <2>1. x \in Socket /\ Same(x, y)
      BY DEF Socket, SocketRecord, Same, Alike
    <2>2. o \in TxProcess(x, "TX_ACK") \/ o \in Quiet(x)
      BY <1>6 DEF TimeoutDelayedAck
    <2> HIDE DEF x
    <2> QED BY <1>4, <2>1, <2>2
  <1> QED BY <1>1, <1>2, <1>3, <1>5, <1>6

-------------------------------------------------------------------------------
(* The steps.                                                                  *)
LEMMA BmzRange ==
  ASSUME RangeInv, Bmz
  PROVE  RangeInv'
  <1>1. /\ SInv /\ z \in Socket /\ Armed(z) /\ Placed(z) /\ peer \in PeerRecord
        /\ toBmz \subseteq FromPeer /\ Within(z, peer) /\ failed \in 0..MaxFailed
        /\ MaxFailed \in Nat
    BY TcpLinkAssumption DEF RangeInv, SInv, IInv, Typed
  <1>2. SInv'
    BY <1>1, BmzStream
  <1>3. /\ PeerEnd(peer) \in Nat /\ PeerEnd(peer) >= 1
    BY <1>1, PeerEndType DEF RangeInv
  <1>4. peer' = peer /\ toBmz' \subseteq toBmz
    BY DEF Bmz, Open, SendData, CloseDown, AbortDown, Receive, RetryTimer, DelayedAckTimer
  <1>5. ASSUME NEW outcomes, Becomes(outcomes), \A o \in outcomes : Within(o.z, peer)
        PROVE  Within(z', peer) /\ failed' \in 0..MaxFailed
    BY <1>1, <1>5 DEF Becomes
  <1>6. Within(z', peer) /\ failed' \in 0..MaxFailed
    <2>1. CASE Open
      <3>1. Within(Listening, peer)
        BY <1>3, ListeningIs, TcpLinkAssumption DEF Within, Bounded, Phased, Sending
      <3>2. z' = Listening \/ z' = z
        BY <1>1, <2>1 DEF Open, Listening, Placed, Cleared
      <3> QED BY <1>1, <2>1, <3>1, <3>2 DEF Open
    <2>2. ASSUME NEW n \in 1..TxSize, SendData(n) PROVE Within(z', peer) /\ failed' \in 0..MaxFailed
      <3>1. n \in Nat /\ z.state # "CLOSED" /\ z.put + n <= MaxPut
        BY <2>2, TcpSockAssumption DEF SendData, IsTxState
      <3> QED BY <1>1, <1>3, <1>5, <2>2, <3>1, DownWithin DEF SendData
    <2>3. CASE CloseDown
      BY <1>1, <1>3, <1>5, <2>3, DownWithin DEF CloseDown
    <2>4. CASE AbortDown
      BY <1>1, <1>3, <1>5, <2>4, DownWithin DEF AbortDown
    <2>5. ASSUME NEW s \in toBmz, Receive(s) PROVE Within(z', peer) /\ failed' \in 0..MaxFailed
      <3>1. s \in FromPeer /\ Comes(s, peer)
        BY <1>1 DEF RangeInv
      <3>2. CASE z.state = "CLOSED"
        BY <1>1, <2>5, <3>2 DEF Receive
      <3>3. CASE z.state # "CLOSED"
        <4>1. \A o \in Up(z, s) : Within(o.z, peer)
          BY <1>1, <1>3, <3>1, <3>3, UpWithin
        <4> QED BY <1>5, <2>5, <3>3, <4>1 DEF Receive
      <3> QED BY <3>2, <3>3
    <2>6. CASE RetryTimer \/ DelayedAckTimer
      <3>1. z.state # "CLOSED"
        BY <1>1, <2>6, ResetPlaced DEF RetryTimer, DelayedAckTimer, Placed, Cleared
      <3> QED BY <1>1, <1>3, <1>5, <2>6, <3>1, DownWithin DEF RetryTimer, DelayedAckTimer
    <2> QED BY <2>1, <2>2, <2>3, <2>4, <2>5, <2>6 DEF Bmz
  <1> QED BY <1>2, <1>4, <1>6 DEF RangeInv

(* What the peer sends is part of what it has sent so far.                     *)
LEMMA PeerSendsRange ==
  ASSUME RangeInv, SInv', z' = z, failed' = failed, peer' \in PeerRecord,
         peer.snd <= peer'.snd, peer'.snd \in 0..PeerMax, peer'.una >= 0,
         peer.fin => peer'.fin, \A s \in toBmz' : s \in toBmz \/ Comes(s, peer')
  PROVE  RangeInv'
  <1>1. /\ peer \in PeerRecord /\ peer.snd \in 0..PeerMax /\ toBmz \subseteq FromPeer
        /\ z.rx_seq \in Int
    BY DEF RangeInv, SInv, IInv, Typed, Socket, SocketRecord
  <1>2. PeerEnd(peer) \in Nat /\ PeerEnd(peer') \in Nat /\ PeerEnd(peer) <= PeerEnd(peer')
    BY <1>1, PeerEndType DEF PeerEnd, PeerRecord
  <1>3. Within(z, peer')
    BY <1>1, <1>2 DEF RangeInv, Within
  <1>4. \A s \in toBmz : s \in FromPeer /\ Comes(s, peer')
    <2> SUFFICES ASSUME NEW s \in toBmz PROVE s \in FromPeer /\ Comes(s, peer')
      OBVIOUS
    <2>1. s \in FromPeer /\ Comes(s, peer)
      BY <1>1 DEF RangeInv
    <2>2. s.seq \in Int /\ s.len \in Int
      BY <2>1 DEF FromPeer
    <2> QED BY <1>2, <2>1, <2>2 DEF Comes
  <1> QED BY <1>3, <1>4 DEF RangeInv

LEMMA PeerRange ==
  ASSUME RangeInv, Peer
  PROVE  RangeInv'
  <1>1. /\ SInv /\ peer \in PeerRecord /\ peer.snd \in 0..PeerMax /\ peer.una >= 0
        /\ peer.una \in Int /\ PeerMax \in Nat
    BY TcpLinkAssumption DEF RangeInv, SInv, IInv, Typed, PeerRecord
  <1>2. SInv' /\ peer' \in PeerRecord /\ toPeer \subseteq FromBmz
    <2>1. SInv'
      BY <1>1, PeerStream
    <2> QED BY <1>1, <2>1 DEF SInv, IInv, Typed
  <1>3. \A x : PeerSends(x) => \A s \in toBmz' : s \in toBmz \/ s = x
    BY DEF PeerSends, Carry
  <1>4. ASSUME NEW p \in PeerRecord, p.snd \in 0..PeerMax, NEW q
        PROVE  /\ Comes(PeerSegment(q, {"SYN"}, 0, 0, 0), p)
               /\ \A win \in Windows :
                    /\ Comes(Ack(p, win), p)
                    /\ \A seq \in 0..p.snd : Comes(PeerSegment(q, {"ACK"}, seq, 1, win), p)
                    /\ p.fin => Comes(PeerSegment(q, {"FIN", "ACK"}, p.snd + 1, 0, win), p)
    <2>1. /\ PeerEnd(p) \in Nat /\ 1 + p.snd <= PeerEnd(p)
          /\ p.fin => PeerEnd(p) = p.snd + 2
      BY <1>4, PeerEndType
    <2>2. \A win : Ack(p, win) = PeerSegment(p, {"ACK"}, PeerEnd(p), 0, win)
      BY DEF Ack, PeerEnd
    <2>3. p.snd \in Nat /\ 0 \in Windows \cup {0} /\ \A win \in Windows : win \in Windows \cup {0}
      BY <1>4
    <2>4. \A win \in Windows : Comes(PeerSegment(p, {"ACK"}, PeerEnd(p), 0, win), p)
      BY <2>1, <2>3 DEF Comes, PeerSegment
    <2>5. Comes(PeerSegment(q, {"SYN"}, 0, 0, 0), p)
      BY <2>1, <2>3 DEF Comes, PeerSegment
    <2>6. \A win \in Windows : \A seq \in 0..p.snd : Comes(PeerSegment(q, {"ACK"}, seq, 1, win), p)
      BY <2>1, <2>3 DEF Comes, PeerSegment
    <2>7. \A win \in Windows : p.fin => Comes(PeerSegment(q, {"FIN", "ACK"}, p.snd + 1, 0, win), p)
      BY <2>1, <2>3 DEF Comes, PeerSegment
    <2> QED BY <2>2, <2>4, <2>5, <2>6, <2>7
  <1>5. CASE Connect
    <2>1. /\ UNCHANGED <<z, failed>> /\ peer' = [peer EXCEPT !.st = "SYN_SENT"]
          /\ PeerSends(PeerSegment(peer, {"SYN"}, 0, 0, 0))
      BY <1>5 DEF Connect
    <2>2. peer'.snd = peer.snd /\ peer'.una = peer.una /\ peer'.fin = peer.fin
      BY <1>1, <2>1 DEF PeerRecord
    <2>3. Comes(PeerSegment(peer, {"SYN"}, 0, 0, 0), peer')
      BY <1>1, <1>2, <1>4, <2>2
    <2>4. \A s \in toBmz' : s \in toBmz \/ Comes(s, peer')
      BY <1>3, <2>1, <2>3
    <2> QED BY <1>1, <1>2, <2>1, <2>2, <2>4, PeerSendsRange
  <1>6. ASSUME NEW win \in Windows, PeerData(win) PROVE RangeInv'
    <2>1. /\ UNCHANGED <<z, failed>> /\ peer' = [peer EXCEPT !.snd = peer.snd + 1]
          /\ PeerSends(PeerSegment(peer, {"ACK"}, 1 + peer.snd, 1, win)) /\ peer.snd < PeerMax
      BY <1>6 DEF PeerData
    <2>2. peer'.snd = peer.snd + 1 /\ peer'.una = peer.una /\ peer'.fin = peer.fin
      BY <1>1, <2>1 DEF PeerRecord
    <2>3. peer'.snd \in 0..PeerMax /\ 1 + peer.snd \in 0..peer'.snd
      BY <1>1, <2>1, <2>2
    <2>4. Comes(PeerSegment(peer, {"ACK"}, 1 + peer.snd, 1, win), peer')
      BY <1>2, <1>4, <2>3
    <2>5. \A s \in toBmz' : s \in toBmz \/ Comes(s, peer')
      BY <1>3, <2>1, <2>4
    <2> QED BY <1>1, <1>2, <2>1, <2>2, <2>3, <2>5, PeerSendsRange
  <1>7. ASSUME NEW win \in Windows, PeerClose(win) PROVE RangeInv'
    <2>1. /\ UNCHANGED <<z, failed>> /\ peer' = [peer EXCEPT !.fin = TRUE]
          /\ PeerSends(PeerSegment(peer, {"FIN", "ACK"}, 1 + peer.snd, 0, win))
      BY <1>7 DEF PeerClose
    <2>2. peer'.snd = peer.snd /\ peer'.una = peer.una /\ peer'.fin = TRUE /\ 1 + peer.snd = peer.snd + 1
      BY <1>1, <2>1 DEF PeerRecord
    <2>3. Comes(PeerSegment(peer, {"FIN", "ACK"}, 1 + peer.snd, 0, win), peer')
      BY <1>1, <1>2, <1>4, <2>2
    <2>4. \A s \in toBmz' : s \in toBmz \/ Comes(s, peer')
      BY <1>3, <2>1, <2>3
    <2>5. /\ z' = z /\ failed' = failed /\ peer.snd <= peer'.snd /\ peer'.snd \in 0..PeerMax
          /\ peer'.una >= 0 /\ (peer.fin => peer'.fin)
      BY <1>1, <2>1, <2>2
    <2> QED BY <1>2, <2>4, <2>5, PeerSendsRange
  <1>8. ASSUME NEW win \in Windows, PeerRepeats(win) PROVE RangeInv'
    <2>1. /\ UNCHANGED <<z, failed, peer>>
          /\ \/ PeerSends(PeerSegment(peer, {"SYN"}, 0, 0, 0))
             \/ /\ peer.una <= peer.snd
                /\ PeerSends(PeerSegment(peer, {"ACK"}, peer.una, 1, win))
             \/ /\ peer.una = peer.snd + 1 /\ peer.fin
                /\ PeerSends(PeerSegment(peer, {"FIN", "ACK"}, peer.una, 0, win))
      BY <1>8 DEF PeerRepeats
    <2>2. peer.una <= peer.snd => peer.una \in 0..peer.snd
      BY <1>1
    <2>3. PICK x : PeerSends(x) /\ Comes(x, peer)
      BY <1>1, <1>4, <2>1, <2>2
    <2>4. \A s \in toBmz' : s \in toBmz \/ Comes(s, peer')
      BY <1>3, <2>1, <2>3
    <2>5. peer'.snd = peer.snd /\ peer'.una = peer.una /\ peer'.fin = peer.fin
      BY <2>1
    <2> QED BY <1>1, <1>2, <2>1, <2>4, <2>5, PeerSendsRange
  <1>9. ASSUME NEW win \in Windows, NEW s \in toPeer, PeerTakes(s, win) PROVE RangeInv'
    <2>1. s \in FromBmz /\ s.ack \in Int
      BY <1>2, <1>9 DEF FromBmz
    <2>2. Taken(peer, s) \in PeerRecord /\ \E got, rcv, end, una :
             /\ Taken(peer, s) = [peer EXCEPT !.got = got, !.end = end, !.una = una, !.rcv = rcv]
             /\ una \in {s.ack, peer.una} /\ una >= peer.una
      <3> DEFINE una == IF "ACK" \in s.bits /\ s.ack > peer.una THEN s.ack ELSE peer.una
      <3>1. una \in {s.ack, peer.una} /\ una >= peer.una
        BY <1>1, <2>1
      <3> HIDE DEF una
      <3>2. \E got, rcv, end : Taken(peer, s) = [peer EXCEPT !.got = got, !.end = end, !.una = una,
                                                             !.rcv = rcv]
        BY DEF Taken, una
      <3> QED BY <1>1, <2>1, <3>1, <3>2, TakenType
    <2>3. /\ Taken(peer, s).snd = peer.snd /\ Taken(peer, s).fin = peer.fin
          /\ Taken(peer, s).una >= peer.una /\ Taken(peer, s).una \in Int
      BY <1>1, <2>1, <2>2 DEF PeerRecord
    <2>4. \A p \in PeerRecord : /\ [p EXCEPT !.st = "TIMED_WAIT"].snd = p.snd
                                /\ [p EXCEPT !.st = "TIMED_WAIT"].fin = p.fin
                                /\ [p EXCEPT !.st = "TIMED_WAIT"].una = p.una
      BY DEF PeerRecord
    <2>5. \/ peer' = [peer EXCEPT !.st = "ESTABLISHED", !.rcv = 1, !.una = 1]
          \/ peer' \in {Taken(peer, s), [Taken(peer, s) EXCEPT !.st = "TIMED_WAIT"]}
          \/ peer' = [peer EXCEPT !.st = "CLOSED", !.una = 1]
          \/ peer' = peer
      BY <1>9 DEF PeerTakes
    <2>6. peer'.snd = peer.snd /\ peer'.fin = peer.fin /\ peer'.una >= 0
      <3>1. CASE \/ peer' = [peer EXCEPT !.st = "ESTABLISHED", !.rcv = 1, !.una = 1]
                 \/ peer' = [peer EXCEPT !.st = "CLOSED", !.una = 1]
        <4>1. peer'.snd = peer.snd /\ peer'.fin = peer.fin /\ peer'.una = 1
          BY <1>1, <3>1 DEF PeerRecord
        <4> QED BY <4>1
      <3>2. CASE peer' \in {Taken(peer, s), [Taken(peer, s) EXCEPT !.st = "TIMED_WAIT"]}
        <4>1. Taken(peer, s).una >= 0
          BY <1>1, <2>3
        <4>2. peer'.snd = Taken(peer, s).snd /\ peer'.fin = Taken(peer, s).fin
              /\ peer'.una = Taken(peer, s).una
          BY <2>2, <2>4, <3>2
        <4> QED BY <2>3, <4>1, <4>2
      <3> QED BY <1>1, <2>5, <3>1, <3>2
    <2>7. /\ z' = z /\ failed' = failed
          /\ UNCHANGED toBmz \/ PeerSends(Ack(peer, win)) \/ PeerSends(Ack(peer', win))
      BY <1>9 DEF PeerTakes
    <2>8. Comes(Ack(peer, win), peer') /\ Comes(Ack(peer', win), peer')
      <3>1. Ack(peer, win).len = Ack(peer', win).len /\ Ack(peer, win).seq = Ack(peer', win).seq
            /\ Ack(peer, win).win = Ack(peer', win).win /\ Ack(peer, win).bits = Ack(peer', win).bits
        BY <2>6 DEF Ack, PeerSegment
      <3> QED BY <1>1, <1>2, <1>4, <2>6, <3>1 DEF Comes
    <2>9. \A x \in toBmz' : x \in toBmz \/ Comes(x, peer')
      BY <1>3, <2>7, <2>8
    <2> QED BY <1>1, <1>2, <2>6, <2>7, <2>9, PeerSendsRange
  <1>10. CASE PeerForgets
    <2>1. z = ResetZ /\ z' = z /\ toBmz' = {} /\ peer' = NewPeer /\ failed' = failed
      BY <1>1, <1>10 DEF PeerForgets, SInv, Placed, Cleared
    <2>2. NewPeer.snd = 0 /\ NewPeer.una = 0 /\ NewPeer.fin = FALSE
      BY DEF NewPeer
    <2>3. PeerEnd(NewPeer) \in Nat
      BY <2>2 DEF PeerEnd
    <2>4. Within(ResetZ, NewPeer)
      BY <2>3, ResetWithin
    <2> QED BY <1>1, <1>2, <2>1, <2>2, <2>4 DEF RangeInv
  <1> QED BY <1>5, <1>6, <1>7, <1>8, <1>9, <1>10 DEF Peer

LEMMA NetworkRange ==
  ASSUME RangeInv, Network
  PROVE  RangeInv'
  <1>1. SInv'
    BY NetworkStream DEF RangeInv
  <1>2. UNCHANGED <<z, peer, failed>> /\ toBmz' \subseteq toBmz
    BY DEF Network, LoseToPeer, LoseToBmz
  <1> QED BY <1>1, <1>2 DEF RangeInv

(* The invariant of the proof: how far each side has come bounds every number. *)
THEOREM RangeInvariance == Spec => []RangeInv
  <1>1. Init => RangeInv
    <2> SUFFICES ASSUME Init PROVE RangeInv
      OBVIOUS
    <2>1. IInv
      BY ResetType, NewPeerType DEF Init, IInv, Typed
    <2>2. SInv
      BY <2>1, NewPeerHeld, ResetPlaced DEF Init, SInv, Epoch, FinSent, RstSent, AckedIsReceived
    <2>3. peer.snd = 0 /\ peer.una = 0 /\ PeerEnd(peer) = 1
      BY DEF Init, NewPeer, PeerEnd
    <2>4. Within(z, peer)
      BY <2>3, ResetWithin DEF Init
    <2> QED BY <2>2, <2>3, <2>4, TcpLinkAssumption DEF Init, RangeInv
  <1>2. RangeInv /\ UNCHANGED vars => RangeInv'
    <2>1. SInv /\ UNCHANGED vars => SInv'
      <3>1. SInv /\ UNCHANGED vars => IInv'
        BY DEF SInv, IInv, Typed, Armed, Awaits, vars
      <3> QED BY <3>1 DEF SInv, Epoch, FinSent, RstSent, AckedIsReceived, BytesOf, vars
    <2> QED BY <2>1 DEF RangeInv, vars
  <1>3. RangeInv /\ [Next]_vars => RangeInv'
    BY <1>2, BmzRange, PeerRange, NetworkRange DEF Next
  <1> QED BY <1>1, <1>3, PTL DEF Spec

(* Every number the socket keeps is in its range: what it expects of the peer  *)
(* is never beyond what the peer can have sent, what it numbers never beyond   *)
(* what the application has sent and the one FIN.                              *)
THEOREM NumbersInRange == Spec => []TypeOK
  <1>1. RangeInv => TypeOK
    <2> SUFFICES ASSUME RangeInv PROVE TypeOK
      OBVIOUS
    <2>1. /\ z \in Socket /\ Located(z) /\ Within(z, peer) /\ peer \in PeerRecord
          /\ peer.snd \in 0..PeerMax /\ failed \in 0..MaxFailed
      BY DEF RangeInv, SInv, IInv, Typed, Placed
    <2>2. PeerEnd(peer) \in Nat /\ PeerEnd(peer) <= PeerMax + 2 /\ PeerMax \in Nat /\ MaxPut \in Nat
          /\ TxSize \in Nat
      BY <2>1, PeerEndType, TcpLinkAssumption, TcpSockAssumption
    <2>3. /\ z.get \in Nat /\ z.put \in Nat /\ z.get <= z.put /\ z.put <= MaxPut
          /\ z.put - z.get <= TxSize /\ z.unacked \in Nat /\ z.unacked <= z.put - z.get
          /\ z.rx_seq \in 0..PeerEnd(peer)
      BY <2>1 DEF Socket, SocketRecord, Located, Within, Bounded
    <2>4. /\ z.get \in 0..MaxPut /\ z.put \in 0..MaxPut /\ z.unacked \in 0..TxSize
          /\ z.rx_seq \in 0..PeerMax+2
      BY <2>2, <2>3
    <2>5. z \in SocketType
      BY <2>1, <2>4 DEF SocketType, Socket, SocketRecord, Within, Bounded
    <2> QED BY <2>1, <2>3, <2>5 DEF TypeOK
  <1> QED BY RangeInvariance, <1>1, PTL

(* A socket never expects, and so never acknowledges, a byte or a FIN beyond   *)
(* what its peer has sent, whatever is delayed, reordered or repeated.         *)
ExpectsOnlySent == z.rx_seq <= PeerEnd(peer)
THEOREM NothingInvented == Spec => []ExpectsOnlySent
  <1>1. RangeInv => ExpectsOnlySent
    <2> SUFFICES ASSUME RangeInv PROVE ExpectsOnlySent
      OBVIOUS
    <2>1. z.rx_seq \in 0..PeerEnd(peer) /\ PeerEnd(peer) \in Nat
      BY PeerEndType DEF RangeInv, SInv, IInv, Typed, Within
    <2> QED BY <2>1 DEF ExpectsOnlySent
  <1> QED BY RangeInvariance, <1>1, PTL
===============================================================================
