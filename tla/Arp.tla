---------------------------------- MODULE Arp ----------------------------------
(* The address resolution cache of BMZ (arp.c): CACHE_NBR entries, each with a *)
(* queue of messages for the address it waits for and a timer that retries a   *)
(* request or flushes a binding.  Frames of other hosts may arrive at any      *)
(* time, asked for or not.  The hardware address of an entry is left out: it is *)
(* read only when the entry is bound, and is then that of the host ip.  Queues *)
(* are the bounded sequences of module Deque.                                  *)
EXTENDS Naturals, Sequences, FiniteSets

CONSTANTS CacheNbr,     \* entries of the cache (4)
          Ip,           \* IP addresses on the local network
          Msg,          \* messages that IP sends
          Depth,        \* depth of an entry's queue (8)
          RetryLimit,   \* (3)
          RetryTime,    \* seconds between requests (1)
          FlushTime,    \* seconds a binding lasts (600)
          NULL

Entry == 1..CacheNbr

ASSUME ArpAssumption == /\ CacheNbr \in Nat \ {0}
                        /\ NULL \notin Ip
                        /\ Depth \in 1..255
                        /\ RetryLimit \in Nat
                        /\ RetryTime \in Nat \ {0}
                        /\ FlushTime \in Nat \ {0}

VARIABLES state, ip, mq, retry_count,   \* of each entry
          timer,    \* of each entry: seconds remaining, 0 when not running
          due,      \* entries whose timer has expired and who are not yet told
          dest      \* of each message in use its next hop, NULL when it is free
vars == <<state, ip, mq, retry_count, timer, due, dest>>

State == {"IDLE", "WAITING", "BOUND"}

Init == /\ state = [e \in Entry |-> "IDLE"]
        /\ ip = [e \in Entry |-> NULL]
        /\ mq = [e \in Entry |-> <<>>]
        /\ retry_count = [e \in Entry |-> 0]
        /\ timer = [e \in Entry |-> 0]
        /\ due = {}
        /\ dest = [m \in Msg |-> NULL]

-------------------------------------------------------------------------------
In(st) == {e \in Entry : state[e] = st}
First(S) == CHOOSE e \in S : \A f \in S : e <= f
Last(S)  == CHOOSE e \in S : \A f \in S : f <= e

(* lookup: the bound entries of an address.                                    *)
Bound(i) == {e \in In("BOUND") : ip[e] = i}

(* select: an entry of the address, or the first idle one, or the binding that *)
(* is flushed first, or else the request that has been retried most often.     *)
MatchingBoundOnly(i) == {e \in In("BOUND") : ip[e] = i}
Matching(i) == {e \in In("BOUND") \cup In("WAITING") : ip[e] = i}
Oldest      == {e \in In("BOUND") : \A f \in In("BOUND") : timer[e] <= timer[f]}
MostRetried == {e \in In("WAITING") : \A f \in In("WAITING") :
                                         retry_count[f] <= retry_count[e]}
Select(i) == CASE Matching(i) # {} -> First(Matching(i))
               [] Matching(i) = {} /\ In("IDLE") # {} -> First(In("IDLE"))
               [] Matching(i) = {} /\ In("IDLE") = {} /\ In("BOUND") # {} -> Last(Oldest)
               [] Matching(i) = {} /\ In("WAITING") = Entry -> Last(MostRetried)

(* Whether it had to clear a waiting entry: its queue and its state after.     *)
Evicts(i)     == Matching(i) = {} /\ In("WAITING") = Entry
QueueAfter(i) == IF Evicts(i) THEN <<>> ELSE mq[Select(i)]
StateAfter(i) == IF Evicts(i) THEN "IDLE" ELSE state[Select(i)]
DroppedNone(i) == {}
Dropped(i)    == IF Evicts(i) THEN {mq[Select(i)][k] : k \in 1..Len(mq[Select(i)])} ELSE {}
Freed(M, d)   == [m \in Msg |-> IF m \in M THEN NULL ELSE d[m]]

(* arp_down: the address is bound, and the frame leaves at once.               *)
SendNow(m, i) == /\ dest[m] = NULL
                 /\ Bound(i) # {}
                 /\ UNCHANGED vars

(* Or it is not: the message is queued (or freed when the queue is full) at    *)
(* the entry select finds; only an idle one sends a request.                   *)
StartRequest(e, i) ==
    /\ state' = [state EXCEPT ![e] = "WAITING"]
    /\ ip' = [ip EXCEPT ![e] = i]
    /\ retry_count' = [retry_count EXCEPT ![e] = 0]
    /\ timer' = [timer EXCEPT ![e] = RetryTime]

StillWaitingResets(e) == /\ retry_count' = [retry_count EXCEPT ![e] = 0]
                         /\ UNCHANGED <<state, ip, timer>>
StillWaiting(e) == UNCHANGED <<state, ip, retry_count, timer>>

RoomForNbr(q) == Len(q) < Depth
Room(q) == Len(q) < Depth - 1
Enqueue(m, i) ==
    LET e == Select(i)
        room == Room(QueueAfter(i))
    IN  /\ dest[m] = NULL
        /\ Bound(i) = {}
        /\ mq' = [mq EXCEPT ![e] = IF room THEN Append(QueueAfter(i), m) ELSE QueueAfter(i)]
        /\ dest' = Freed(Dropped(i), IF room THEN [dest EXCEPT ![m] = i] ELSE dest)
        /\ IF StateAfter(i) = "IDLE" THEN StartRequest(e, i) ELSE StillWaiting(e)
        /\ UNCHANGED due

arp_down(m, i) == SendNow(m, i) \/ Enqueue(m, i)

(* arp_up, a request or a reply of the host i: it is bound; if its entry was   *)
(* waiting the queue is sent to it.                                            *)
arp_up(i) ==
    LET e == Select(i)
        waited == StateAfter(i) = "WAITING"
        gone == {mq[e][k] : k \in 1..Len(mq[e])}
    IN  /\ due = {}
        /\ state' = [state EXCEPT ![e] = "BOUND"]
        /\ ip' = [ip EXCEPT ![e] = i]
        /\ timer' = [timer EXCEPT ![e] = FlushTime]
        /\ mq' = [mq EXCEPT ![e] = IF waited THEN <<>> ELSE QueueAfter(i)]
        /\ dest' = Freed(IF waited THEN gone ELSE Dropped(i), dest)
        /\ UNCHANGED <<retry_count, due>>

-------------------------------------------------------------------------------
(* A second passes, and timer_run finds which timers expire.                   *)
Second == /\ due = {}
          /\ \E e \in Entry : timer[e] > 0
          /\ timer' = [e \in Entry |-> IF timer[e] = 0 THEN 0 ELSE timer[e] - 1]
          /\ due' = {e \in Entry : timer[e] = 1}
          /\ UNCHANGED <<state, ip, mq, retry_count, dest>>

(* arp_timeout.  Between two of these another task's timeout may send.         *)
Flush(e) == /\ state[e] = "BOUND"
            /\ state' = [state EXCEPT ![e] = "IDLE"]
            /\ UNCHANGED <<mq, dest, retry_count, timer>>

RetryForgetsTimer(e) == /\ state[e] = "WAITING"
                        /\ retry_count[e] <= RetryLimit
                        /\ retry_count' = [retry_count EXCEPT ![e] = @ + 1]
                        /\ UNCHANGED <<state, mq, dest, timer>>
Retry(e) == /\ state[e] = "WAITING"
            /\ retry_count[e] <= RetryLimit
            /\ retry_count' = [retry_count EXCEPT ![e] = @ + 1]
            /\ timer' = [timer EXCEPT ![e] = RetryTime]
            /\ UNCHANGED <<state, mq, dest>>

GiveUp(e) == /\ state[e] = "WAITING"
             /\ retry_count[e] > RetryLimit
             /\ state' = [state EXCEPT ![e] = "IDLE"]
             /\ mq' = [mq EXCEPT ![e] = <<>>]
             /\ dest' = Freed({mq[e][k] : k \in 1..Len(mq[e])}, dest)
             /\ UNCHANGED <<retry_count, timer>>

arp_timeout(e) == /\ e \in due
                  /\ due' = due \ {e}
                  /\ Flush(e) \/ Retry(e) \/ GiveUp(e)
                  /\ UNCHANGED ip

Next == \/ \E m \in Msg, i \in Ip : arp_down(m, i)
        \/ \E i \in Ip : arp_up(i)
        \/ Second
        \/ \E e \in Entry : arp_timeout(e)

(* Time passes, and timer_run calls every handler that is due.                 *)
Fairness == WF_vars(Second) /\ \A e \in Entry : WF_vars(arp_timeout(e))
Spec == Init /\ [][Next]_vars /\ Fairness

-------------------------------------------------------------------------------
Queued(e, m) == \E k \in 1..Len(mq[e]) : mq[e][k] = m

TypeOK == /\ state \in [Entry -> State]
          /\ ip \in [Entry -> Ip \cup {NULL}]
          /\ mq \in [Entry -> Seq(Msg)]
          /\ \A e \in Entry : Len(mq[e]) < Depth
          /\ retry_count \in [Entry -> 0..RetryLimit+1]
          /\ timer \in [Entry -> 0..RetryTime+FlushTime]
          /\ due \subseteq Entry
          /\ dest \in [Msg -> Ip \cup {NULL}]

(* An address never has two entries in use, whichever way its entries are      *)
(* asked for, answered, flushed, given up and taken over: lookup and select    *)
(* stop at the first, and a second would keep its queue for ever.              *)
OneEntryPerAddress ==
    \A e, f \in Entry : state[e] # "IDLE" /\ state[f] # "IDLE" /\ ip[e] = ip[f] => e = f

(* An entry in use always has a timer running or about to be notified, so that *)
(* none is waiting or bound for ever; an idle one has none.                    *)
TimerArmed == \A e \in Entry : state[e] # "IDLE" <=> timer[e] > 0 \/ e \in due

(* A message is in use as long as it is in a queue, and is in one only: it is  *)
(* freed when its entry is taken over, gives up or its queue is full, and not  *)
(* freed twice.                                                                *)
PoolAccount ==
    /\ \A m \in Msg : dest[m] # NULL <=> \E e \in Entry : Queued(e, m)
    /\ \A e, f \in Entry : \A j \in 1..Len(mq[e]), k \in 1..Len(mq[f]) :
          mq[e][j] = mq[f][k] => e = f /\ j = k

(* No entry waits for one address for ever, whatever is sent to that address   *)
(* in the meantime and whoever else takes entries over.                        *)
WaitsFor(e, i) == state[e] = "WAITING" /\ ip[e] = i
GivesUp == \A e \in Entry, i \in Ip : WaitsFor(e, i) ~> ~WaitsFor(e, i)

(* arp.c: "queue the message in anticipation of getting the IP address later": *)
(* a queued message's entry is waiting for the message's address.              *)
QueuedForItsAddress ==
    \A e \in Entry, m \in Msg : Queued(e, m) => WaitsFor(e, dest[m])
===============================================================================
