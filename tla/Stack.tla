--------------------------------- MODULE Stack ---------------------------------
(* The protocol stack of BMZ: what a frame does on its way up through ether,   *)
(* arp, ip, icmp, tcp and a socket to the terminal server, and what is sent    *)
(* down again.  None of these tasks has a queue above the sockets, so bmz_up   *)
(* and bmz_down call the next handler, and a frame is done with in one step.   *)
(* Handlers are operators on the world w: the messages, the cache, the sockets *)
(* and what has left the stack in this step.                                   *)
(*                                                                             *)
(* Left out: how a socket counts its stream (module TcpLink), how a cache      *)
(* entry is chosen and retried (module Arp: here each hop has one of its own), *)
(* and checksums, which are good or bad.                                       *)
EXTENDS TcpConn, Msg

CONSTANTS Local, Remote,  \* hosts of the local network, and beyond
          Gateway,        \* config.default_route
          Me,             \* config.my_ipaddr
          NbrSocks,       \* sockets, each with its list of ports (2)
          RemPort,        \* a port of another host
          Baud,           \* the rates a port selects
          HeardPort,      \* ports of the sockets that segments come for
          PoolNbr,        \* messages of the sockets' pool (4)
          Depth,          \* of an entry's queue (8)
          PoolLen,        \* DEFAULT_POOL_LEN (500)
          PoolOffset,     \* DEFAULT_POOL_OFFSET (54)
          NULL

Sock == 1..NbrSocks
Host == Local \cup Remote
Hop  == Local \cup {Gateway}

(* The ports of the lists, 3000 and 4000, and the one of each rate.            *)
ListPort(s)  == 1000 * (s + 2)
MagicPort(s) == {ListPort(s) + b : b \in Baud}
Port         == UNION {MagicPort(s) \cup {ListPort(s)} : s \in Sock}
OtherPort    == 23

(* The headers of a segment, 14 + 20 + 20 bytes, fit in front of the data of a *)
(* message, and there is room for some.                                        *)
ASSUME StackAssumption == /\ NbrSocks \in Nat \ {0}
                          /\ Baud \subseteq Nat \ {0}
                          /\ PoolNbr \in Nat \ {0}
                          /\ Depth \in Nat \ {0}
                          /\ PoolLen \in Nat /\ PoolOffset \in 54..(PoolLen - 1)
                          /\ HeardPort \subseteq Port
                          /\ NULL \notin Host

(* The message a frame is made into, the pool, and ARP's own messages: the one *)
(* of the entry concerned is free again when send_request or send_reply ends.  *)
Frame   == 0
Pool    == 1..PoolNbr
Request == PoolNbr + 1

VARIABLES msg, cache, sock,
          out,    \* the datagrams given to the chip in the last step
          up,     \* the data a terminal server took in the last step
          heard   \* the segment or echo the last step was about, or NULL
vars == <<msg, cache, sock, out, up, heard>>

Closed == [state |-> "CLOSED", loc |-> 0, rem |-> NULL, ip |-> NULL]

Init == /\ msg = [i \in {Frame, Request} \cup Pool |->
                    IF i = Request THEN NewMsg(60, 14)
                    ELSE IF i = Frame THEN NewMsg(0, 0) ELSE NewMsg(PoolLen, PoolOffset)]
        /\ cache = [h \in Hop |-> [state |-> "IDLE", mq |-> <<>>]]
        /\ sock = [s \in Sock |-> Closed]
        /\ out = {}
        /\ up = <<>>
        /\ heard = NULL

(* A step from World; the memory of a frame goes back to the chip.             *)
World == [msg |-> msg, cache |-> cache, sock |-> sock, out |-> {}, up |-> <<>>]
Returned(m) == [NewMsg(0, 0) EXCEPT !.inuse = m.inuse, !.ok = m.ok]
Becomes(v) == \E w \in {v} : /\ msg' = [w.msg EXCEPT ![Frame] = Returned(@)]
                             /\ cache' = w.cache
                             /\ sock' = w.sock
                             /\ out' = w.out
                             /\ up' = w.up

-------------------------------------------------------------------------------
Keep(w, i, m) == [w EXCEPT !.msg[i] = m]
Free(w, i)    == Keep(w, i, MsgFree(w.msg[i]))

(* pool_alloc: the first free message, or none.                                *)
Unused(w)   == {i \in Pool : ~w.msg[i].inuse}
Alloc(w)    == Min(Unused(w))
Alloced(w)  == InUse(w.msg[Alloc(w)])

(* ether_down: the frame is copied to the chip's memory and freed.  Datagrams  *)
(* are noted.                                                                  *)
EtherDown(w, i) ==
    LET f == w.msg[i].body
    IN  Free(IF f[3][2] = "IP" THEN [w EXCEPT !.out = @ \cup {f}] ELSE w, i)

EthHeader(dst, type) == << <<6, dst>>, <<6, Me>>, <<2, type>> >>

(* send_request and send_reply of arp.c.                                       *)
ArpSend(w, dst, opcode, hop) ==
    LET frame == << <<2, 1>>, <<2, "IP">>, <<1, 6>>, <<1, 4>>, <<2, opcode>>,
                    <<6, Me>>, <<4, Me>>, <<6, dst>>, <<4, hop>> >>
    IN  EtherDown(Keep(w, Request,
                       Write(Push(InUse(w.msg[Request]), EthHeader(dst, "ARP")), frame)),
                  Request)

(* arp_down: send to a bound hop; or wait for it, with a request the first     *)
(* time.                                                                       *)
SendTo(w, i, hop) == EtherDown(Keep(w, i, Push(w.msg[i], EthHeader(hop, "IP"))), i)
EnqueueUpToDepth(w, i, hop) == IF Len(w.cache[hop].mq) < Depth
                               THEN [w EXCEPT !.cache[hop].mq = Append(@, i)]
                               ELSE Free(w, i)
EnqueueKeepsFull(w, i, hop) == IF Len(w.cache[hop].mq) < Depth - 1
                               THEN [w EXCEPT !.cache[hop].mq = Append(@, i)]
                               ELSE w
Enqueue(w, i, hop) == IF Len(w.cache[hop].mq) < Depth - 1
                      THEN [w EXCEPT !.cache[hop].mq = Append(@, i)]
                      ELSE Free(w, i)
ArpDown(w, i) ==
    LET hop == Val(w.msg[i], 1)
        v == Keep(w, i, Pop(w.msg[i], <<4>>))
    IN  CASE w.cache[hop].state = "BOUND"   -> SendTo(v, i, hop)
          [] w.cache[hop].state = "WAITING" -> Enqueue(v, i, hop)
          [] w.cache[hop].state = "IDLE"    ->
               ArpSend([Enqueue(v, i, hop) EXCEPT !.cache[hop].state = "WAITING"],
                       "broadcast", "REQUEST", hop)

(* ip_down and route.                                                          *)
Route(dst) == IF dst \in Local THEN dst ELSE Gateway
IpHeader(total, protocol, dst) ==
    << <<2, 20>>, <<2, total>>, <<2, "id">>, <<2, FALSE>>, <<1, "ttl">>, <<1, protocol>>,
       <<2, TRUE>>, <<4, Me>>, <<4, dst>> >>
IpDownEarly(w, i) ==
    LET m == Pop(w.msg[i], <<1, 4>>)
        dst == Val(w.msg[i], 2)
        header == IpHeader(20 + w.msg[i].len, Val(w.msg[i], 1), dst)
    IN  ArpDown(Keep(w, i, Push(Push(m, header), << <<4, Route(dst)>> >>)), i)
IpDown(w, i) ==
    LET m == Pop(w.msg[i], <<1, 4>>)
        dst == Val(w.msg[i], 2)
        header == IpHeader(20 + m.len, Val(w.msg[i], 1), dst)
    IN  ArpDown(Keep(w, i, Push(Push(m, header), << <<4, Route(dst)>> >>)), i)

(* What tcp_down and tcp_up add in front of a segment to be sent, with the     *)
(* pseudo header pushed and popped for the checksum on the way.                *)
Pseudo(m, src, dst) ==
    Drop(Push(m, << <<4, src>>, <<4, dst>>, <<1, 0>>, <<1, "TCP">>, <<2, m.len>> >>), 12)
TcpHeader(src_port, dst_port) ==
    << <<2, src_port>>, <<2, dst_port>>, <<4, "seq">>, <<4, "ack">>, <<2, "bits">>,
       <<2, "window">>, <<2, TRUE>>, <<2, 0>> >>
TcpSend(w, i, m, header, dst) ==
    IpDown(Keep(w, i, Push(Pseudo(Push(m, header), Me, dst), << <<1, "TCP">>, <<4, dst>> >>)), i)

(* tcp_down.                                                                   *)
TcpDown(w, i) ==
    LET m == w.msg[i]
    IN  TcpSend(w, i, Pop(m, <<4, 2, 2, 4, 4, 2, 2>>),
                TcpHeader(Val(m, 2), Val(m, 3)), Val(m, 1))

(* tx_process of socket s, for one segment of n bytes, if the pool has a       *)
(* message for it.                                                             *)
TxProcess(w, s, n) ==
    LET z == w.sock[s]
        data == IF n = 0 THEN <<>> ELSE << <<n, "data">> >>
        params == << <<4, z.ip>>, <<2, z.loc>>, <<2, z.rem>>, <<4, "seq">>, <<4, "ack">>,
                     <<2, "bits">>, <<2, "window">> >>
    IN  IF Unused(w) = {} THEN w
        ELSE TcpDown(Keep(w, Alloc(w), Push(Write(Alloced(w), data), params)), Alloc(w))

-------------------------------------------------------------------------------
(* tserver_up: data goes to the UART.                                          *)
TserverUp(w, i) ==
    LET m == Pop(w.msg[i], <<1>>)
    IN  Free([Keep(w, i, m) EXCEPT !.up = IF Val(w.msg[i], 1) = "DATA" THEN m.body ELSE @], i)

(* tcpsock_up.  An acknowledgment is "next" when it is that of all that was    *)
(* sent, a sequence number when it is the one expected.                        *)
AckOk(z, bits, ack) == /\ "ACK" \in bits
                       /\ z.state \notin {"CLOSED", "LISTEN"}
                       /\ ack = "next" \/ z.state = "ESTABLISHED"
EventOf(bits, ack, fin) ==
    CASE "RST" \in bits                             -> "RX_RESET"
      [] "RST" \notin bits /\ "SYN" \in bits        -> IF ack THEN "RX_SYN_ACK" ELSE "RX_SYN"
      [] bits \cap {"RST", "SYN"} = {} /\ fin       -> IF ack THEN "RX_FIN_ACK" ELSE "RX_FIN"
      [] bits \cap {"RST", "SYN"} = {} /\ ~fin      -> IF ack THEN "RX_ACK" ELSE "NULL"

SockUp(w, s) ==
    LET m == w.msg[Frame]
        bits == Val(m, 3)
        z == w.sock[s]
        ev == EventOf(bits, AckOk(z, bits, Val(m, 2)), "FIN" \in bits /\ Val(m, 1) = "next")
        st == NextState(z.state, ev)
        y == IF st = "CLOSED" THEN Closed ELSE [z EXCEPT !.state = st]
        data == Pop(m, <<4, 4, 2, 2>>)
        close == st # z.state /\ st = "LASTACK"
        listens == ~close /\ IsRxState(z.state)
        wrong == listens /\ Val(m, 1) # "next"
        Told(v) == IF close
                     THEN TserverUp(Keep(v, Frame, Push(MsgClear(data), << <<1, "CLOSE">> >>)), Frame)
                   ELSE IF listens /\ ~wrong /\ data.len > 0
                     THEN TserverUp(Keep(v, Frame, Push(data, << <<1, "DATA">> >>)), Frame)
                   ELSE v
        Acted(v) == IF wrong \/ ActionOf(z.state, ev) # "NULL" THEN TxProcess(v, s, 0) ELSE v
        Done(v) == IF v.msg[Frame].inuse THEN Free(v, Frame) ELSE v
    IN  Done(Acted(Told([Keep(w, Frame, data) EXCEPT !.sock[s] = y])))

(* tcpsock_select: the first socket that listens on the port, or has the       *)
(* connection; one that listens takes the port and the sender from the segment. *)
BindsHalfOpen(z) == z.state \in {"LISTEN", "SYN_RECVD"}
Binds(z) == z.state = "LISTEN"
ListensOn(z, loc) == loc = z.loc \/ \E s \in Sock : z.loc = ListPort(s) /\ loc \in MagicPort(s)
HearsAnyone(z, loc, rem, ip) == IF Binds(z) THEN ListensOn(z, loc)
                                ELSE <<loc, rem>> = <<z.loc, z.rem>>
Hears(z, loc, rem, ip) == IF Binds(z) THEN ListensOn(z, loc)
                          ELSE <<loc, rem, ip>> = <<z.loc, z.rem, z.ip>>
Selected(w, loc, rem, ip) == {s \in Sock : Hears(w.sock[s], loc, rem, ip)}
Bind(w, s, loc, rem, ip) ==
    IF Binds(w.sock[s])
      THEN [w EXCEPT !.sock[s] = [@ EXCEPT !.loc = loc, !.rem = rem, !.ip = ip]] ELSE w

(* tcp_up: to the socket, or a reset for a SYN that no socket wants, or away.  *)
Refuse(w, loc, rem, ip) ==
    LET v == Free(w, Frame)
    IN  IF Unused(v) = {} THEN v
        ELSE TcpSend(v, Alloc(v), Alloced(v), TcpHeader(loc, rem), ip)

StrayKept(w, bits, loc, rem, ip) ==
    IF "SYN" \in bits THEN Refuse(w, loc, rem, ip) ELSE w
Stray(w, bits, loc, rem, ip) ==
    IF "SYN" \in bits THEN Refuse(w, loc, rem, ip) ELSE Free(w, Frame)

TcpUp(w) ==
    LET ip == Val(w.msg[Frame], 1)
        m == Pseudo(Pop(w.msg[Frame], <<4>>), ip, Me)
        rem == Val(m, 1)
        loc == Val(m, 2)
        bits == Val(m, 5)
        data == Pop(m, <<2, 2, 4, 4, 2, 2, 2, 2>>)
        params == << <<4, Val(m, 3)>>, <<4, Val(m, 4)>>, <<2, bits>>, <<2, "window">> >>
        found == Selected(w, loc, rem, ip)
        s == Min(found)
    IN  IF m.len < 20 \/ ~Val(m, 7) THEN Free(w, Frame)
        ELSE IF found = {} THEN Stray(Keep(w, Frame, data), bits, loc, rem, ip)
        ELSE SockUp(Bind(Keep(w, Frame, Push(data, params)), s, loc, rem, ip), s)

(* icmp_up: an echo request is copied, as far as there is room, and returned.  *)
(* A message of fewer than two bytes ends in the panic of msg_read1, with the  *)
(* frame kept: it arrives with zeros behind it, where the checksum would be,   *)
(* and these checksum_test lets pass.                                          *)
IcmpUpInPlace(w) ==
    LET ip == Val(w.msg[Frame], 1)
        m == Read(Pop(w.msg[Frame], <<4>>), 2)
        v == Free(Keep(w, Frame, m), Frame)
        copy == << <<1, "reply">> >> \o Tail(Shorten(m, MsgRoom(Alloced(v))).body)
        reply == Push(Write(Alloced(v), copy), << <<1, "ICMP">>, <<4, ip>> >>)
        answers == Val(m, 3) /\ Val(m, 1) = "request" /\ Unused(v) # {}
    IN  IF m.len < 2 THEN Keep(w, Frame, m)
        ELSE IF answers THEN Free(IpDown(Keep(v, Alloc(v), reply), Alloc(v)), Frame)
        ELSE v
IcmpUp(w) ==
    LET ip == Val(w.msg[Frame], 1)
        m == Read(Pop(w.msg[Frame], <<4>>), 2)
        v == Keep(w, Frame, m)
        copy == << <<1, "reply">> >> \o Tail(Shorten(m, MsgRoom(Alloced(v))).body)
        reply == Push(Write(Alloced(v), copy), << <<1, "ICMP">>, <<4, ip>> >>)
        answers == Val(m, 3) /\ Val(m, 1) = "request" /\ Unused(v) # {}
    IN  IF m.len < 2 THEN v
        ELSE IF answers THEN Free(IpDown(Keep(v, Alloc(v), reply), Alloc(v)), Frame)
        ELSE Free(v, Frame)

(* ip_up: the header is verified, what is longer than the datagram is cut off  *)
(* (the padding of a short frame), options are dropped.                        *)
IpOk(m) == /\ m.len >= 20
           /\ Val(m, 7)
           /\ Val(m, 1) \in 20..m.len
           /\ Val(m, 2) \in Val(m, 1)..m.len
           /\ ~Val(m, 4)
PayloadUncut(m) == Drop(Pop(m, <<2, 2, 2, 2, 1, 1, 2, 4, 4>>), Val(m, 1) - 20)
Payload(m) == Drop(Pop(Shorten(m, Val(m, 2)), <<2, 2, 2, 2, 1, 1, 2, 4, 4>>), Val(m, 1) - 20)
IpUp(w) ==
    LET m == w.msg[Frame]
        v == Keep(w, Frame, Push(Payload(m), << <<4, Val(m, 8)>> >>))
    IN  CASE IpOk(m) /\ Val(m, 6) = "TCP"           -> TcpUp(v)
          [] IpOk(m) /\ Val(m, 6) = "ICMP"          -> IcmpUp(v)
          [] IpOk(m) => Val(m, 6) \notin {"TCP", "ICMP"} -> Free(w, Frame)

(* The messages of an entry's queue, each sent in its turn.                    *)
SendAll(w, q, hop) ==
    LET upto[k \in 0..Len(q)] == IF k = 0 THEN w ELSE SendTo(upto[k - 1], q[k], hop)
    IN  upto[Len(q)]

(* arp_up: a request is replied to, the sender is bound, and the messages that *)
(* wait for it are sent.                                                       *)
ArpUp(w) ==
    LET m == Read(w.msg[Frame], 28)
        from == Val(m, 7)
        v == IF Val(m, 5) = "REQUEST" THEN ArpSend(w, from, "REPLY", from) ELSE w
        sent == SendAll(v, w.cache[from].mq, from)
    IN  Free(IF Val(m, 9) # Me THEN Keep(w, Frame, m)
             ELSE [Keep(sent, Frame, m) EXCEPT !.cache[from] = [state |-> "BOUND", mq |-> <<>>]],
             Frame)

(* arp_timeout gives an entry up: the messages that wait for it are freed.     *)
FreeAll(w, q) == LET upto[k \in 0..Len(q)] == IF k = 0 THEN w ELSE Free(upto[k - 1], q[k])
                 IN  upto[Len(q)]

(* ether_idle: the frame's type is taken off.                                  *)
EtherUp(w) ==
    LET type == Val(w.msg[Frame], 1)
        v == Keep(w, Frame, Pop(w.msg[Frame], <<2>>))
    IN  CASE type = "IP"                -> IpUp(v)
          [] type = "ARP"               -> ArpUp(v)
          [] type \notin {"IP", "ARP"}  -> Free(v, Frame)

-------------------------------------------------------------------------------
(* Frames that arrive.  A datagram is padded to the least length of a frame;   *)
(* heard says what it holds for whom.                                          *)
Datagram(src, hlen, frag, good, protocol, payload) ==
    LET options == IF hlen <= 20 THEN <<>> ELSE << <<hlen - 20, "options">> >>
        total == hlen + Size(payload)
        pad == IF total >= 46 THEN <<>> ELSE << <<46 - total, "pad">> >>
    IN  << <<2, "IP">>, <<2, hlen>>, <<2, total>>, <<2, "id">>, <<2, frag>>, <<1, "ttl">>,
           <<1, protocol>>, <<2, good>>, <<4, src>>, <<4, Me>> >> \o options \o payload \o pad

Segment(loc, bits, seq, ack, good, n) ==
    << <<2, RemPort>>, <<2, loc>>, <<4, seq>>, <<4, ack>>, <<2, bits>>, <<2, "window">>,
       <<2, good>>, <<2, 0>> >> \o (IF n = 0 THEN <<>> ELSE << <<n, "data">> >>)
Data(loc) == Segment(loc, {"ACK"}, "next", "next", TRUE, 3)
Plain(loc) == {Segment(loc, {"SYN"}, "next", "old", TRUE, 0),
               Segment(loc, {"RST", "ACK"}, "next", "next", TRUE, 0)}
              \cup {Segment(loc, bits, n[1], n[2], TRUE, 0) :
                       bits \in {{"ACK"}, {"FIN", "ACK"}},
                       n \in {<<"next", "next">>, <<"next", "old">>, <<"old", "next">>}}
Echo(type, good, n) == << <<1, type>>, <<1, 0>>, <<2, good>>, <<n, "echo">> >>
Echoes == {Echo("request", TRUE, PoolLen), Echo("request", FALSE, 4),
           Echo("other", TRUE, 4)}

Heard(ip, loc, n) == [ip |-> ip, loc |-> loc, n |-> n]
SegmentFrames ==
    (UNION {{<<Heard(ip, loc, 0), Datagram(ip, 20, FALSE, TRUE, "TCP", p)>> : p \in Plain(loc)} :
              ip \in Host, loc \in HeardPort})
    \cup {<<Heard(ip, OtherPort, 0),
            Datagram(ip, 20, FALSE, TRUE, "TCP", Segment(OtherPort, bits, "old", "old", TRUE, 0))>> :
            ip \in Host, bits \in {{"SYN"}, {"ACK"}}}
    \cup {<<Heard(ip, loc, 3), Datagram(ip, hlen, FALSE, TRUE, "TCP", Data(loc))>> :
            ip \in Host, loc \in HeardPort, hlen \in {20, 24}}
EchoFrames ==
    {<<Heard(ip, 0, 0), Datagram(ip, 24, FALSE, TRUE, "ICMP", p)>> : ip \in Host, p \in Echoes}
(* Another protocol, a fragment, a bad header or checksum, a segment cut short. *)
BadFrames ==
    {<<NULL, f>> :
      f \in UNION {
        {Datagram(ip, 20, FALSE, TRUE, "UDP", Data(OtherPort)),
         Datagram(ip, 20, TRUE, TRUE, "TCP", Data(OtherPort)),
         Datagram(ip, 20, FALSE, FALSE, "TCP", Data(OtherPort)),
         Datagram(ip, 16, FALSE, TRUE, "TCP", Data(OtherPort)),
         Datagram(ip, 20, FALSE, TRUE, "TCP", SubSeq(Data(OtherPort), 1, 5)),
         Datagram(ip, 20, FALSE, TRUE, "TCP",
                  Segment(OtherPort, {"SYN"}, "next", "next", FALSE, 0))} : ip \in Remote}}
(* An ICMP message that ends before its code, or before its type.              *)
ShortFrames ==
    {<<NULL, Datagram(ip, hlen, FALSE, TRUE, "ICMP", p)>> :
        ip \in Host, hlen \in {20, 24}, p \in {<<>>, << <<1, "request">> >>}}
ArpFrames ==
    {<< <<2, "ARP">>, <<2, 1>>, <<2, "IP">>, <<1, 6>>, <<1, 4>>, <<2, op[1]>>, <<6, h>>,
        <<4, h>>, <<6, "any">>, <<4, op[2]>>, <<18, "pad">> >> :
        op \in {<<"REQUEST", Me>>, <<"REPLY", Me>>, <<"REQUEST", NULL>>}, h \in Hop}

(* ether_idle makes a frame of fields f a message.                             *)
Arrived(f) == [World EXCEPT !.msg[Frame] =
                 [ptr |-> 0, len |-> Size(f), body |-> f, size |-> Size(f), offset |-> 2,
                  inuse |-> TRUE, ok |-> @.ok]]

HearArp == /\ \E f \in ArpFrames : Becomes(EtherUp(Arrived(f)))
           /\ heard' = NULL
Hear(f) == /\ Becomes(EtherUp(Arrived(f[2])))
           /\ heard' = IF out' = {} /\ up' = <<>> /\ msg' = msg THEN NULL ELSE f[1]
HearSegment == \E f \in SegmentFrames : Hear(f)
HearEcho    == \E f \in EchoFrames : Hear(f)
HearBad     == \E f \in BadFrames : Hear(f)
HearShort   == \E f \in ShortFrames : Hear(f)

(* tserver_idle opens a socket that is closed.                                 *)
OpenPassive(s) == /\ sock[s].state = "CLOSED"
                  /\ Becomes([World EXCEPT !.sock[s].state = NextState("CLOSED", "OPEN_PASSIVE"),
                                           !.sock[s].loc = ListPort(s)])
                  /\ heard' = NULL

(* A socket sends again at a timeout, or sends new data, a full message of it. *)
SockSend(s) ==
    /\ sock[s].state \notin {"CLOSED", "LISTEN"}
    /\ Becomes(TxProcess(World, s, IF sock[s].state = "ESTABLISHED" THEN PoolLen - PoolOffset ELSE 0))
    /\ heard' = NULL

(* arp_timeout: the next request, the last one given up, a binding flushed.    *)
Retry(h) == /\ cache[h].state = "WAITING"
            /\ Becomes(ArpSend(World, "broadcast", "REQUEST", h))
            /\ heard' = NULL
GiveUp(h) == /\ cache[h].state = "WAITING"
             /\ Becomes([FreeAll(World, cache[h].mq)
                           EXCEPT !.cache[h] = [state |-> "IDLE", mq |-> <<>>]])
             /\ heard' = NULL
Flush(h) == /\ cache[h].state = "BOUND"
            /\ Becomes([World EXCEPT !.cache[h].state = "IDLE"])
            /\ heard' = NULL

(* bmz_panic does not return.                                                  *)
Panicked == \E i \in DOMAIN msg : ~msg[i].ok
Halted   == Panicked /\ UNCHANGED vars

Runs == \/ HearArp \/ HearSegment \/ HearEcho \/ HearBad \/ HearShort
        \/ \E s \in Sock : OpenPassive(s) \/ SockSend(s)
        \/ \E h \in Hop : Retry(h) \/ GiveUp(h) \/ Flush(h)

Next == \/ ~Panicked /\ Runs
        \/ Halted

Spec == Init /\ [][Next]_vars

-------------------------------------------------------------------------------
Connected(z) == z.state \notin {"CLOSED", "LISTEN"}
Waiting(h)   == {cache[h].mq[k] : k \in DOMAIN cache[h].mq}

TypeOK == /\ \A i \in DOMAIN msg : msg[i].ptr >= 0 /\ MsgRoom(msg[i]) >= 0
          /\ \A h \in Hop : /\ cache[h].state \in {"IDLE", "WAITING", "BOUND"}
                            /\ cache[h].mq \in Seq(Pool)
                            /\ Len(cache[h].mq) < Depth
          /\ sock \in [Sock -> [state : State, loc : Port \cup {0},
                                rem : {RemPort, NULL}, ip : Host \cup {NULL}]]

(* No handler panics in msg.c, takes off other parameters than its caller      *)
(* pushed, or touches a message it or another has freed, but icmp_up on a      *)
(* message of fewer than two bytes: the offset of 54 bytes is enough for the   *)
(* headers and parameters of every way down.                                   *)
NoPanic == [][Panicked' => Panicked \/ HearShort]_vars

(* Whatever a frame holds, it is free when ether_idle is done with it, and was *)
(* freed once: otherwise the chip's ring would never move past it.             *)
FrameFreed == Panicked \/ ~msg[Frame].inuse

(* A message of the pool is in use only while it waits for a hop, and in one   *)
(* queue, wherever its way down ended.                                         *)
PoolAccount == /\ \A i \in Pool : msg[i].inuse <=> \E h \in Hop : i \in Waiting(h)
               /\ \A g, h \in Hop : \A j \in DOMAIN cache[g].mq, k \in DOMAIN cache[h].mq :
                     cache[g].mq[j] = cache[h].mq[k] => g = h /\ j = k

(* An IP datagram is as long on the wire as its header says, goes to the hop   *)
(* its destination is routed to, and has nothing of the parameters left.       *)
SentWell(f) == /\ f[5][2] = Size(f) - 14
               /\ f[1][2] = Route(f[12][2])
               /\ f[9][2] \in {"TCP", "ICMP"}
WellFormed == \A f \in out : SentWell(f)

(* Whatever a segment or an echo makes the stack send goes back to who sent    *)
(* it, from the port it was sent to: a socket never answers in another's name  *)
(* nor to another connection's peer, also when the answer has to wait for ARP. *)
Answers(f, k, h) == /\ f[k][2] = h.ip
                    /\ f[k + 1] = <<2, h.loc>> \/ f[k + 1] = <<1, "reply">>
AnswersSender ==
    [][heard' # NULL =>
         /\ \A f \in out' : Answers(f, 12, heard')
         /\ \A h \in Hop : \A i \in Waiting(h)' \ Waiting(h) :
               Answers(msg'[i].body, 9, heard')]_vars

(* A terminal server is given just the data that the sender put in, none of    *)
(* the padding of a short frame nor of the options of the IP header, and from  *)
(* the peer of its connection only.                                            *)
PayloadOnly ==
    [][up' # <<>> => /\ up' = << <<heard'.n, "data">> >>
                     /\ \E s \in Sock : /\ Connected(sock[s])
                                        /\ <<sock[s].loc, sock[s].ip>> = <<heard'.loc, heard'.ip>>]_vars

(* A connection keeps its peer and its port from the first segment to the last. *)
PeerKept ==
    [][\A s \in Sock : Connected(sock[s]) /\ Connected(sock'[s]) =>
          [sock'[s] EXCEPT !.state = "-"] = [sock[s] EXCEPT !.state = "-"]]_vars
===============================================================================
