-------------------------------- MODULE TcpLink --------------------------------
(* A socket of BMZ (TcpSock) and a peer that connects to it, across a network  *)
(* that loses, delays and reorders segments in both directions.  The peer is a *)
(* TCP of another make: it takes data within its window in any order, acknow-  *)
(* ledges what it has contiguously, and repeats what is not acknowledged.      *)
EXTENDS TcpSock

CONSTANTS MaxPut,     \* bound: bytes the application sends on a connection
          PeerMax,    \* bound: bytes the peer sends on a connection
          Windows,    \* the windows the peer may advertise
          NetMax,     \* bound: segments on their way to one end
          Busy,       \* bound: segments in the network when anything is repeated
          MaxFailed   \* bound: times that the message pool is found empty

ASSUME TcpLinkAssumption == /\ MaxPut \in Nat /\ PeerMax \in Nat /\ Windows \subseteq Nat
                            /\ NetMax \in Nat /\ Busy \in Nat /\ MaxFailed \in Nat

VARIABLES z,        \* the socket
          toPeer,   \* segments on their way to the peer
          toBmz,    \* and to BMZ
          peer,     \* the peer
          failed    \* times the pool was found empty, counted for MaxFailed
vars == <<z, toPeer, toBmz, peer, failed>>

Position == 1..MaxPut+2

(* The peer: its state; fin: it has sent its FIN; got: the byte of BMZ's       *)
(* stream it holds for each position, 0 for none; rcv: what it expects next;   *)
(* end: it has taken BMZ's FIN; snd: bytes it has sent; una: what BMZ expects  *)
(* next of it, as far as it knows.                                             *)
NewPeer == [st |-> "CLOSED", fin |-> FALSE, got |-> [p \in Position |-> 0],
            rcv |-> 0, end |-> FALSE, snd |-> 0, una |-> 0]

Init == /\ z = ResetZ
        /\ toPeer = {}
        /\ toBmz = {}
        /\ peer = NewPeer
        /\ failed = 0

(* What is sent when too much is on its way displaces it: that is lost.        *)
Carry(net, S) == IF Cardinality(net \cup S) <= NetMax THEN net \cup S ELSE S

-------------------------------------------------------------------------------
(* BMZ.                                                                        *)
Becomes(outcomes) ==
    \E o \in outcomes : /\ o.failed => failed < MaxFailed
                        /\ failed' = IF o.failed THEN failed + 1 ELSE failed
                        /\ z' = o.z
                        /\ toPeer' = Carry(toPeer, o.out)

Open == /\ z.state = "CLOSED"
        /\ peer = NewPeer
        /\ z' = Csm(z, "OPEN_PASSIVE")
        /\ UNCHANGED <<toPeer, toBmz, peer, failed>>

SendData(n) == /\ IsTxState(z.state)
               /\ n <= TxSize - (z.put - z.get)
               /\ z.put + n <= MaxPut
               /\ Becomes(DownData(z, n))
               /\ UNCHANGED <<toBmz, peer>>

(* An application closes and aborts what it has opened.                        *)
CloseDown == /\ z.state # "CLOSED"
             /\ Becomes(DownClose(z))
             /\ UNCHANGED <<toBmz, peer>>

AbortDown == /\ z.state \notin {"CLOSED", "LISTEN"}
             /\ Becomes(DownAbort(z))
             /\ UNCHANGED <<toBmz, peer>>

(* A segment for a closed socket finds no task in tcpsock_select.              *)
Receive(s) == /\ s \in toBmz
              /\ toBmz' = toBmz \ {s}
              /\ IF z.state = "CLOSED" THEN UNCHANGED <<z, toPeer, failed>>
                                       ELSE Becomes(Up(z, s))
              /\ UNCHANGED peer

NotBusy == Cardinality(toPeer) + Cardinality(toBmz) <= Busy

RetryTimer == /\ z.retry
              /\ NotBusy
              /\ Becomes(TimeoutRetry(z))
              /\ UNCHANGED <<toBmz, peer>>

DelayedAckTimer == /\ z.delay
                   /\ Becomes(TimeoutDelayedAck(z))
                   /\ UNCHANGED <<toBmz, peer>>

-------------------------------------------------------------------------------
(* The peer and the network.                                                   *)
PeerSegment(p, bits, seq, len, win) ==
    [bits |-> bits, seq |-> seq, ack |-> p.rcv, len |-> len, win |-> win]
Ack(p, win) == PeerSegment(p, {"ACK"}, 1 + p.snd + (IF p.fin THEN 1 ELSE 0), 0, win)
PeerSends(s) == toBmz' = Carry(toBmz, {s})

Connect == /\ peer.st = "CLOSED"
           /\ z.state = "LISTEN"
           /\ peer' = [peer EXCEPT !.st = "SYN_SENT"]
           /\ PeerSends(PeerSegment(peer, {"SYN"}, 0, 0, 0))
           /\ UNCHANGED <<z, toPeer, failed>>

PeerData(win) == /\ peer.st = "ESTABLISHED"
                 /\ ~peer.fin
                 /\ peer.snd < PeerMax
                 /\ peer' = [peer EXCEPT !.snd = @ + 1]
                 /\ PeerSends(PeerSegment(peer, {"ACK"}, 1 + peer.snd, 1, win))
                 /\ UNCHANGED <<z, toPeer, failed>>

PeerClose(win) == /\ peer.st = "ESTABLISHED"
                  /\ ~peer.fin
                  /\ peer' = [peer EXCEPT !.fin = TRUE]
                  /\ PeerSends(PeerSegment(peer, {"FIN", "ACK"}, 1 + peer.snd, 0, win))
                  /\ UNCHANGED <<z, toPeer, failed>>

(* The peer repeats the first thing that is not acknowledged.                  *)
PeerRepeats(win) ==
    /\ NotBusy
    /\ \/ peer.st = "SYN_SENT" /\ PeerSends(PeerSegment(peer, {"SYN"}, 0, 0, 0))
       \/ /\ peer.st = "ESTABLISHED"
          /\ peer.una <= peer.snd
          /\ PeerSends(PeerSegment(peer, {"ACK"}, peer.una, 1, win))
       \/ /\ peer.st = "ESTABLISHED"
          /\ peer.una = peer.snd + 1
          /\ peer.fin
          /\ PeerSends(PeerSegment(peer, {"FIN", "ACK"}, peer.una, 0, win))
    /\ UNCHANGED <<z, toPeer, peer, failed>>

(* The peer takes a segment: its data, then its FIN if all before is there.    *)
GotWith(got, s) == [p \in Position |->
                      IF got[p] = 0 /\ p \in s.seq..s.seq+s.len-1 THEN s.lo + p - s.seq + 1
                      ELSE got[p]]
Contiguous(got) == CHOOSE p \in 1..MaxPut+3 : /\ \A q \in 1..p-1 : got[q] # 0
                                              /\ p \in Position => got[p] = 0
Taken(p, s) ==
    LET got == IF p.end THEN p.got ELSE GotWith(p.got, s)
        next == IF p.end THEN p.rcv ELSE Contiguous(got)
        end == p.end \/ ("FIN" \in s.bits /\ s.seq = next)
        una == IF "ACK" \in s.bits /\ s.ack > p.una THEN s.ack ELSE p.una
    IN  [p EXCEPT !.got = got, !.end = end, !.una = una,
                  !.rcv = IF end /\ ~p.end THEN next + 1 ELSE next]
Finished(p) == p.end /\ p.fin /\ p.una = p.snd + 2

PeerTakes(s, win) ==
    /\ s \in toPeer
    /\ toPeer' = toPeer \ {s}
    /\ \/ /\ peer.st = "SYN_SENT"
          /\ {"SYN", "ACK"} \subseteq s.bits
          /\ peer' = [peer EXCEPT !.st = "ESTABLISHED", !.rcv = 1, !.una = 1]
          /\ PeerSends(Ack(peer', win))
       \/ /\ peer.st = "ESTABLISHED"
          /\ {"SYN", "RST"} \cap s.bits = {}
          /\ peer' = LET p == Taken(peer, s)
                     IN  IF Finished(p) THEN [p EXCEPT !.st = "TIMED_WAIT"] ELSE p
          /\ IF s.len > 0 \/ "FIN" \in s.bits \/ s.seq # peer'.rcv
               THEN PeerSends(Ack(peer', win)) ELSE UNCHANGED toBmz
       \/ /\ peer.st \in {"ESTABLISHED", "TIMED_WAIT"}
          /\ "SYN" \in s.bits \/ (peer.st = "TIMED_WAIT" /\ "RST" \notin s.bits)
          /\ PeerSends(Ack(peer, win))
          /\ UNCHANGED peer
       \/ /\ peer.st # "CLOSED"
          /\ "RST" \in s.bits
          /\ peer' = [peer EXCEPT !.st = "CLOSED", !.una = 1]
          /\ UNCHANGED toBmz
       \/ /\ peer.st \in {"SYN_SENT", "CLOSED"}
          /\ ~(peer.st = "SYN_SENT" /\ ({"SYN", "ACK"} \subseteq s.bits \/ "RST" \in s.bits))
          /\ UNCHANGED <<peer, toBmz>>
    /\ UNCHANGED <<z, failed>>

LoseToPeer(s) == /\ s \in toPeer
                 /\ toPeer' = toPeer \ {s}
                 /\ UNCHANGED <<z, toBmz, peer, failed>>
LoseToBmz(s)  == /\ s \in toBmz
                 /\ toBmz' = toBmz \ {s}
                 /\ UNCHANGED <<z, toPeer, peer, failed>>

(* When the socket is closed and the network is empty the peer gives up or     *)
(* forgets the connection, and another can be made.                            *)
PeerForgets == /\ z.state = "CLOSED"
               /\ toPeer = {} /\ toBmz = {}
               /\ peer # NewPeer
               /\ peer' = NewPeer
               /\ UNCHANGED <<z, toPeer, toBmz, failed>>

Bmz == \/ Open \/ \E n \in 1..TxSize : SendData(n)
       \/ CloseDown \/ AbortDown
       \/ \E s \in toBmz : Receive(s)
       \/ RetryTimer \/ DelayedAckTimer

Peer == \/ Connect
        \/ \E win \in Windows : \/ PeerData(win) \/ PeerClose(win) \/ PeerRepeats(win)
                                \/ \E s \in toPeer : PeerTakes(s, win)
        \/ PeerForgets

Network == (\E s \in toPeer : LoseToPeer(s)) \/ (\E s \in toBmz : LoseToBmz(s))

Next == Bmz \/ Peer \/ Network
Spec == Init /\ [][Next]_vars

-------------------------------------------------------------------------------
SocketType == [state : State, ack_phase : AckPhase, send_ack : BOOLEAN,
               get : 0..MaxPut, put : 0..MaxPut, tx_seq : 0..MaxPut+2,
               rx_seq : 0..PeerMax+2, unacked : 0..TxSize,
               tx_window : Windows \cup {0}, retry : BOOLEAN, delay : BOOLEAN,
               pending : BOOLEAN]

TypeOK == /\ z \in SocketType
          /\ z.get <= z.put /\ z.put - z.get <= TxSize
          /\ z.unacked <= z.put - z.get
          /\ failed \in 0..MaxFailed

(* Every byte the peer holds is where the application put it in the stream:    *)
(* the sequence number of a segment names the data in it.                      *)
StreamIntact == \A p \in Position : peer.got[p] \in {0, p}

(* No byte leaves the tx buffer before the peer has it, whatever stale and     *)
(* reordered acknowledgments come in.                                          *)
BytesOf(p) == IF p.end THEN p.rcv - 2 ELSE p.rcv - 1
AckedIsReceived == z.get > 0 => z.get <= BytesOf(peer)

(* As long as the socket expects an acknowledgment its retry timer runs, so    *)
(* that one lost segment cannot silence it.                                    *)
RetryArmed == Awaits(z) => z.retry
===============================================================================
