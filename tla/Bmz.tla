---------------------------------- MODULE Bmz ----------------------------------
(* The run loop of BMZ (bmz.c) with the tasks that meet in it: the terminal    *)
(* server applications (tserver.c), whose idle routines feed the down queues   *)
(* of the sockets from a shared message pool (pool.c), the sockets' down       *)
(* handlers (tcpsock.c), and the Ethernet driver's idle routine, from which    *)
(* every segment of the peers reaches the sockets.  One step is one turn of    *)
(* the task loop, or the run of the timers that ends a pass.                   *)
(*                                                                             *)
(* The tasks are numbered as in project.h: the applications first, then the    *)
(* sockets, then ETHER, the last one left in the loop.  A queue is the bounded *)
(* sequence of module Deque, which MQProofs shows mq.c to implement; a tx      *)
(* buffer is the number of bytes in it.  What tx_process makes of tx_unacked   *)
(* is any value between 0 and what is buffered.                                *)
EXTENDS TcpConn, Sequences, FiniteSets

CONSTANTS NbrSocks,     \* 2 in the source: sockets, each with its application
          PoolNbr,      \* messages of the applications' pool (12)
          Depth,        \* depth of each socket's down queue (16 and 20)
          TxSize,       \* bytes a tx buffer can take (TX_BUF_SIZE-1)
          MaxLen,       \* bytes an application puts into one message (39)
          Byte          \* values of the bytes the UARTs receive

Sock == 1..NbrSocks
Msg  == 1..PoolNbr

ASSUME SizeAssumption == /\ NbrSocks \in Nat \ {0}
                         /\ PoolNbr \in Nat \ {0}
                         /\ Depth \in [Sock -> 1..255]
                         /\ \A s \in Sock : PoolNbr < Depth[s]
                         /\ TxSize \in Nat \ {0}
                         /\ MaxLen \in Nat \ {0}
                         /\ Byte \subseteq 0..255

(* Message types, the first byte of a message to a socket.                     *)
OPEN_ACTIVE  == 0
OPEN_PASSIVE == 1
DATA         == 2
DATA_PUSH    == 3
CLOSE        == 4
ABORT        == 5

VARIABLES task,     \* the loop variable i of bmz_run; End when the loop is left
          inuse,    \* the messages of the pool in use
          body,     \* of each message in use: its bytes, from msg_ptr on
          mq,       \* the down queue of each socket
          st,       \* the state of each socket
          publish,  \* the publish state of each socket
          buf,      \* bytes in the tx buffer of each socket
          unacked,  \* tx_unacked
          halted,   \* bmz_panic has been called
          chars,    \* ghost: of each message, the characters put into it
          stale     \* ghost: messages of a connection that is over
sockVars == <<st, publish, buf, unacked>>
ghosts == <<chars, stale>>
vars == <<task, inuse, body, mq, sockVars, halted, ghosts>>

AppTask(s)  == s
SockTask(s) == NbrSocks + s
ETHER       == 2 * NbrSocks + 1
End         == ETHER + 1

Init == /\ task = 1
        /\ inuse = {}
        /\ body = [m \in Msg |-> <<>>]
        /\ mq = [s \in Sock |-> <<>>]
        /\ st = [s \in Sock |-> "CLOSED"]
        /\ publish = [s \in Sock |-> "IDLE"]
        /\ buf = [s \in Sock |-> 0]
        /\ unacked = [s \in Sock |-> 0]
        /\ halted = FALSE
        /\ chars = [m \in Msg |-> 0]
        /\ stale = {}

(* It is the turn of task t; the next is that of t + 1, or the pass Ends when  *)
(* a handler has pushed its message back.                                      *)
Turn(t, break) == /\ task = t
                  /\ ~halted
                  /\ task' = IF break THEN End ELSE t + 1

-------------------------------------------------------------------------------
(* pool_alloc: the first message not in use.                                   *)
Free == Msg \ inuse
FirstFree == CHOOSE m \in Free : \A n \in Free : m <= n

(* A new message for socket s: allocated, filled and given to bmz_down, which  *)
(* ignores whether mq_write had room.                                          *)
Post(s, bytes, n) ==
    /\ Free # {}
    /\ inuse' = inuse \cup {FirstFree}
    /\ body' = [body EXCEPT ![FirstFree] = bytes]
    /\ mq' = IF Len(mq[s]) < Depth[s] - 1
               THEN [mq EXCEPT ![s] = Append(@, FirstFree)] ELSE mq
    /\ chars' = [chars EXCEPT ![FirstFree] = n]
    /\ stale' = stale \ {FirstFree}

(* What UART characters one message takes: as many as are there and fit.       *)
Input == UNION {[1..n -> Byte] : n \in 1..MaxLen}

(* tserver_idle.                                                               *)
AppOpen(s) == /\ Turn(AppTask(s), FALSE)
              /\ publish[s] = "IDLE"
              /\ Post(s, <<OPEN_PASSIVE, 0, 0>>, 0)   \* the port, two bytes
              /\ UNCHANGED <<sockVars, halted>>

AppSend(s) == /\ Turn(AppTask(s), FALSE)
              /\ publish[s] = "ACTIVE"
              /\ \E c \in Input : Post(s, <<DATA_PUSH>> \o c, Len(c))
              /\ UNCHANGED <<sockVars, halted>>

(* It is not the time, there are no characters, or the pool is exhausted.      *)
AppNothing(s) == /\ Turn(AppTask(s), FALSE)
                 /\ publish[s] = "IDLE" => Free = {}
                 /\ UNCHANGED <<inuse, body, mq, sockVars, halted, ghosts>>

-------------------------------------------------------------------------------
(* A socket after connection_state_machine, tcpsock_reset and tx_process: the  *)
(* state st2, with b bytes left in the tx buffer.                              *)
BecomesKept(s, st2, b) ==
    /\ st' = [st EXCEPT ![s] = st2]
    /\ publish' = IF st2 = st[s] THEN publish ELSE [publish EXCEPT ![s] = PublishOf(st2)]
    /\ buf' = [buf EXCEPT ![s] = b]
    /\ \E u \in 0..buf'[s] : unacked' = [unacked EXCEPT ![s] = u]
Becomes(s, st2, b) ==
    /\ st' = [st EXCEPT ![s] = st2]
    /\ publish' = IF st2 = st[s] THEN publish ELSE [publish EXCEPT ![s] = PublishOf(st2)]
    /\ buf' = [buf EXCEPT ![s] = IF st2 = "CLOSED" THEN 0 ELSE b]
    /\ \E u \in 0..buf'[s] : unacked' = [unacked EXCEPT ![s] = u]

Stays(s, b, sends) ==
    /\ buf' = [buf EXCEPT ![s] = b]
    /\ IF sends THEN \E u \in 0..b : unacked' = [unacked EXCEPT ![s] = u]
                ELSE UNCHANGED unacked
    /\ UNCHANGED <<st, publish>>

(* msg_free of a message that has been read.                                   *)
Done(s, m) == /\ inuse' = inuse \ {m}
              /\ body' = [body EXCEPT ![m] = <<>>]
              /\ mq' = [mq EXCEPT ![s] = Tail(@)]
              /\ chars' = [chars EXCEPT ![m] = 0]
              /\ stale' = stale \ {m}

TypeByte(m) == Head(body[m])
Rest(m)     == Tail(body[m])      \* after msg_pop1
IsData(ty)  == ty \in {DATA, DATA_PUSH}
RoomFull(s) == TxSize - buf[s] + 1
Room(s)     == TxSize - buf[s]

(* tcpsock_down takes data that fits, and sends if nothing is unacknowledged.  *)
DownStore(s, m) == /\ IsData(TypeByte(m))
                   /\ IsTxState(st[s])
                   /\ Len(Rest(m)) <= Room(s)
                   /\ Turn(SockTask(s), FALSE)
                   /\ Stays(s, buf[s] + Len(Rest(m)), unacked[s] = 0)
                   /\ Done(s, m)
                   /\ UNCHANGED halted

(* Data that does not fit goes back to the front of the queue without the type *)
(* byte that has been popped; whatever is buffered is sent (again), and        *)
(* bmz_run leaves the task loop.                                               *)
PushedBackWhole(m) == body[m]
PushedBack(m) == Rest(m)
DownPushbackFreed(s, m) == /\ IsData(TypeByte(m))
                           /\ IsTxState(st[s])
                           /\ Len(Rest(m)) > Room(s)
                           /\ Turn(SockTask(s), TRUE)
                           /\ Stays(s, buf[s], TRUE)
                           /\ inuse' = inuse \ {m}
                           /\ body' = [body EXCEPT ![m] = PushedBack(m)]
                           /\ stale' = stale \ {m}
                           /\ UNCHANGED <<mq, halted, chars>>
DownPushback(s, m) == /\ IsData(TypeByte(m))
                      /\ IsTxState(st[s])
                      /\ Len(Rest(m)) > Room(s)
                      /\ Turn(SockTask(s), TRUE)
                      /\ Stays(s, buf[s], TRUE)
                      /\ body' = [body EXCEPT ![m] = PushedBack(m)]
                      /\ UNCHANGED <<inuse, mq, halted, ghosts>>

(* Data in another state is dropped, as are messages of no type.               *)
DownIgnore(s, m) == /\ \/ IsData(TypeByte(m)) /\ ~IsTxState(st[s])
                       \/ TypeByte(m) > ABORT
                    /\ Turn(SockTask(s), FALSE)
                    /\ Done(s, m)
                    /\ UNCHANGED <<sockVars, halted>>

(* Bytes the handler pops after the type, and panics when there are fewer.     *)
ParametersFirst(s, ty) ==
    CASE ty = OPEN_ACTIVE  -> 8
      [] ty = OPEN_PASSIVE -> 2
      [] OTHER -> 0
Parameters(s, ty) ==
    CASE ty = OPEN_ACTIVE  -> IF ActionOf(st[s], "OPEN_ACTIVE") = "TX_SYN" THEN 8 ELSE 0
      [] ty = OPEN_PASSIVE -> IF NextState(st[s], "OPEN_PASSIVE") = "LISTEN" THEN 2 ELSE 0
      [] OTHER -> 0

EventOf(ty) == CASE ty = OPEN_ACTIVE  -> "OPEN_ACTIVE"
                 [] ty = OPEN_PASSIVE -> "OPEN_PASSIVE"
                 [] ty = CLOSE        -> "CLOSE"

(* An action TX_RESET closes the socket.                                       *)
DownCommand(s, m) ==
    LET ty == TypeByte(m)
        ev == EventOf(ty)
        st2 == IF ActionOf(st[s], ev) = "TX_RESET" THEN "CLOSED" ELSE NextState(st[s], ev)
    IN  /\ ty \in {OPEN_ACTIVE, OPEN_PASSIVE, CLOSE}
        /\ Turn(SockTask(s), FALSE)
        /\ halted' = (Len(Rest(m)) < Parameters(s, ty))
        /\ IF ty = CLOSE /\ unacked[s] # 0 THEN UNCHANGED sockVars
           ELSE IF ActionOf(st[s], ev) = "NULL" /\ st2 = st[s] THEN UNCHANGED sockVars
           ELSE Becomes(s, st2, buf[s])
        /\ Done(s, m)

DownAbort(s, m) == /\ TypeByte(m) = ABORT
                   /\ Turn(SockTask(s), FALSE)
                   /\ Becomes(s, "CLOSED", 0)
                   /\ Done(s, m)
                   /\ UNCHANGED halted

SockDown(s) == /\ mq[s] # <<>>
               /\ LET m == Head(mq[s])
                  IN \/ DownStore(s, m)
                     \/ DownPushback(s, m)
                     \/ DownIgnore(s, m)
                     \/ DownCommand(s, m)
                     \/ DownAbort(s, m)

SockNothing(s) == /\ mq[s] = <<>>
                  /\ Turn(SockTask(s), FALSE)
                  /\ UNCHANGED <<inuse, body, mq, sockVars, halted, ghosts>>

-------------------------------------------------------------------------------
(* ether_idle hands one frame up; tcpsock_up: the segment acknowledges k bytes *)
(* and is the event ev.  Entering CLOSED empties the tx buffer; a SYN in       *)
(* LISTEN begins a connection, for which all that is queued is stale.          *)
Segment(s, ev, k) ==
    /\ Turn(ETHER, FALSE)
    /\ Becomes(s, NextState(st[s], ev), buf[s] - k)
    /\ stale' = IF st[s] = "LISTEN" /\ st'[s] = "SYN_RECVD"
                  THEN stale \cup {mq[s][i] : i \in 1..Len(mq[s])} ELSE stale
    /\ UNCHANGED <<inuse, body, mq, halted, chars>>

NoFrame == /\ Turn(ETHER, FALSE)
           /\ UNCHANGED <<inuse, body, mq, sockVars, halted, ghosts>>

EtherIdle == \/ \E s \in Sock, ev \in RxEvent : \E k \in 0..unacked[s] : Segment(s, ev, k)
             \/ NoFrame

(* The end of a pass: the heartbeat may have ticked, and timer_run finds the   *)
(* retry timer of a socket expired.                                            *)
Retry(s) == /\ task = End /\ ~halted /\ task' = 1
            /\ st[s] \notin {"CLOSED", "LISTEN"}
            /\ Becomes(s, IF st[s] = "TIMED_WAIT" THEN "CLOSED" ELSE st[s], buf[s])
            /\ UNCHANGED <<inuse, body, mq, halted, ghosts>>

NoRetry == /\ task = End /\ ~halted /\ task' = 1
           /\ UNCHANGED <<inuse, body, mq, sockVars, halted, ghosts>>

Next == \/ \E s \in Sock : \/ AppOpen(s) \/ AppSend(s) \/ AppNothing(s)
                           \/ SockDown(s) \/ SockNothing(s)
                           \/ Retry(s)
        \/ EtherIdle
        \/ NoRetry

Spec == Init /\ [][Next]_vars

(* bmz_run is an endless loop and every handler returns.                       *)
FairSpec == Spec /\ WF_vars(Next)

-------------------------------------------------------------------------------
Holds(s, m) == \E i \in 1..Len(mq[s]) : mq[s][i] = m

TypeOK == /\ task \in 1..End
          /\ inuse \subseteq Msg
          /\ body \in [Msg -> Seq(0..255)]
          /\ mq \in [Sock -> Seq(Msg)]
          /\ st \in [Sock -> State]
          /\ publish \in [Sock -> Publish]
          /\ buf \in [Sock -> 0..TxSize]
          /\ unacked \in [Sock -> 0..TxSize]
          /\ \A s \in Sock : unacked[s] <= buf[s]
          /\ halted \in BOOLEAN
          /\ chars \in [Msg -> 0..MaxLen]
          /\ stale \subseteq inuse

(* Between two turns every message in use waits in exactly one queue, once,    *)
(* and no free message is in a queue: whatever pushbacks, connections closed   *)
(* and writes whose result bmz_down ignores happen, no message of the pool is  *)
(* lost, none is freed while a queue still holds it, and none is queued twice. *)
Ownership ==
    /\ \A m \in Msg : m \in inuse <=> \E s \in Sock : Holds(s, m)
    /\ \A s \in Sock : \A i, j \in 1..Len(mq[s]) : mq[s][i] = mq[s][j] => i = j
    /\ \A s, r \in Sock : \A m \in Msg : Holds(s, m) /\ Holds(r, m) => s = r

(* tcpsock_down never runs a message dry: although a message pushed back comes *)
(* back without its type byte and its characters are read as a command, that   *)
(* command finds the socket in a state in which it pops no parameters.  No     *)
(* segment comes between the two readings, as bmz_run leaves the task loop,    *)
(* and the timers that do cannot close a socket that takes data.               *)
NoPanic == ~halted

(* No byte that is left in the tx buffer when a connection ends, in whatever   *)
(* way, is sent on the next: from CLOSED until a connection is established     *)
(* there is nothing in it, also when the peer takes its SYN back.              *)
BeginsEmpty == \A s \in Sock :
    st[s] \in {"CLOSED", "LISTEN", "SYN_SENT", "SYN_RECVD"} => buf[s] = 0

(* No character that waits in a queue since an earlier connection goes out on  *)
(* a later one.  This is NOT so in general, and no run claims it: it holds for *)
(* a pool of six messages or fewer and one socket, and fails for seven, when a *)
(* backlog of one connection delays the requests to open the next so much that *)
(* some of them, and data behind them, are left over when that one ends.       *)
SessionIsolation ==
    [][\A s \in Sock : buf'[s] > buf[s] => Head(mq[s]) \notin stale]_vars

(* tcpsock.c: "If not enough room, push the message back on the queue": a      *)
(* message for an established connection is freed only when all its characters *)
(* are in the tx buffer (or the connection is closed with it).                 *)
NoCharLost ==
  [][\A s \in Sock :
        (\E m \in inuse \ inuse' : Holds(s, m)) /\ st[s] = "ESTABLISHED" /\ st'[s] = st[s]
           => buf'[s] = buf[s] + chars[Head(mq[s])]]_vars

(* The Ethernet driver, by which the acknowledgments come that make room in a  *)
(* full tx buffer, always runs again, although a socket whose buffer is full   *)
(* ends the pass before the driver's turn.                                     *)
EtherRuns == []<>(task = ETHER)

(* A socket that is closed, in whatever way, listens again, if in the end the  *)
(* other UARTs give the messages of the shared pool a chance to reach its      *)
(* application.                                                                *)
OthersSilent(s) == <>[][\A r \in Sock \ {s} : ~AppSend(r)]_vars
OpensAgain == \A s \in Sock :
                 OthersSilent(s) => (st[s] = "CLOSED" ~> st[s] = "LISTEN")
===============================================================================
