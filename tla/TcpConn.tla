-------------------------------- MODULE TcpConn --------------------------------
(* The connection state machine of tcpsock.c, as a table, and what a socket    *)
(* publishes of its state for the application.                                 *)
EXTENDS Naturals

State == {"CLOSED", "LISTEN", "SYN_RECVD", "SYN_SENT", "ESTABLISHED", "CLOSE_WAIT",
          "LASTACK", "FIN_WAIT1", "FIN_WAIT2", "CLOSING", "TIMED_WAIT"}

RxEvent == {"NULL", "RX_SYN", "RX_ACK", "RX_SYN_ACK", "RX_FIN", "RX_FIN_ACK", "RX_RESET"}
Event   == RxEvent \cup {"OPEN_PASSIVE", "OPEN_ACTIVE", "CLOSE"}

Action == {"NULL", "TX_SYN", "TX_ACK", "TX_SYN_ACK", "TX_FIN", "TX_RESET",
           "TX_NEW_DATA", "TX_RETRY"}

IsTxState(st) == st \in {"ESTABLISHED", "CLOSE_WAIT"}
IsRxState(st) == st \in {"ESTABLISHED", "FIN_WAIT1", "FIN_WAIT2"}

(* <<state, event, action, next state>>.  EV_SEND and EV_TIMEOUT are generated *)
(* nowhere in the source and left out.                                         *)
Edges ==
  { <<"CLOSED",      "OPEN_PASSIVE", "NULL",       "LISTEN">>,
    <<"CLOSED",      "OPEN_ACTIVE",  "TX_SYN",     "SYN_SENT">>,
    <<"LISTEN",      "RX_SYN",       "TX_SYN_ACK", "SYN_RECVD">>,
    <<"LISTEN",      "CLOSE",        "NULL",       "CLOSED">>,
    <<"SYN_RECVD",   "RX_RESET",     "NULL",       "LISTEN">>,
    <<"SYN_RECVD",   "RX_ACK",       "NULL",       "ESTABLISHED">>,
    <<"SYN_RECVD",   "CLOSE",        "TX_FIN",     "FIN_WAIT1">>,
    <<"SYN_SENT",    "RX_SYN",       "TX_SYN_ACK", "SYN_RECVD">>,
    <<"SYN_SENT",    "RX_SYN_ACK",   "TX_ACK",     "ESTABLISHED">>,
    <<"SYN_SENT",    "CLOSE",        "TX_RESET",   "CLOSED">>,
    <<"ESTABLISHED", "CLOSE",        "TX_FIN",     "FIN_WAIT1">>,
    <<"ESTABLISHED", "RX_FIN",       "TX_FIN",     "LASTACK">>,
    <<"ESTABLISHED", "RX_FIN_ACK",   "TX_FIN",     "LASTACK">>,
    <<"CLOSE_WAIT",  "CLOSE",        "TX_FIN",     "LASTACK">>,
    <<"LASTACK",     "RX_ACK",       "NULL",       "CLOSED">>,
    <<"FIN_WAIT1",   "RX_ACK",       "NULL",       "FIN_WAIT2">>,
    <<"FIN_WAIT1",   "RX_FIN",       "TX_ACK",     "CLOSING">>,
    <<"FIN_WAIT1",   "RX_FIN_ACK",   "TX_ACK",     "TIMED_WAIT">>,
    <<"FIN_WAIT2",   "RX_FIN",       "TX_ACK",     "TIMED_WAIT">>,
    <<"FIN_WAIT2",   "RX_FIN_ACK",   "TX_ACK",     "TIMED_WAIT">>,
    <<"CLOSING",     "RX_ACK",       "NULL",       "TIMED_WAIT">> }

EdgeOf(st, ev) == {e \in Edges : e[1] = st /\ e[2] = ev}

(* connection_state_machine: the state it moves to and the action it returns.  *)
NextState(st, ev) == IF EdgeOf(st, ev) = {} THEN st
                     ELSE (CHOOSE e \in EdgeOf(st, ev) : TRUE)[4]
ActionOf(st, ev)  == IF EdgeOf(st, ev) # {} THEN (CHOOSE e \in EdgeOf(st, ev) : TRUE)[3]
                     ELSE IF st = "CLOSED" THEN "TX_RESET" ELSE "NULL"

(* What a socket publishes when it enters a state.                             *)
Publish == {"IDLE", "ACTIVE", "OTHER"}
PublishOfNeverIdle(st) == IF st = "ESTABLISHED" THEN "ACTIVE" ELSE "OTHER"
PublishOf(st) == CASE st = "CLOSED"                       -> "IDLE"
                   [] IsRxState(st) /\ IsTxState(st)       -> "ACTIVE"
                   [] st # "CLOSED" /\ ~(IsRxState(st) /\ IsTxState(st)) -> "OTHER"
===============================================================================
