---------------------------------- MODULE MQ ----------------------------------
(* The message queues of BMZ (mq.c, mq.h): a ring of nbr slots with an index   *)
(* to get from and an index to put at.  One slot always stays empty, so that   *)
(* get = put means "empty".  The operators are functions of the MQ record, for *)
(* the modules whose tasks own queues; MQUser is the state machine of one MQ.  *)
EXTENDS Naturals, Sequences

CONSTANT NULL                       \* no message

(* mq_init: the slots are uninitialised memory that is never read; NULL stands *)
(* for what they hold.                                                         *)
MqInit(depth) == [ring     |-> [i \in 0..depth-1 |-> NULL],
                  nbr      |-> depth,
                  get      |-> 0,
                  put      |-> 0,
                  pushback |-> FALSE]

NextIx(q, i) == IF i + 1 = q.nbr THEN 0 ELSE i + 1
PrevIxNoWrap(q, i) == IF i = 0 THEN q.nbr ELSE i - 1
PrevIx(q, i) == IF i = 0 THEN q.nbr - 1 ELSE i - 1

MqEmpty(q) == q.get = q.put

(* Whether mq_write and mq_pushback find room: both return this.               *)
MqWriteOkayNoWrap(q) == q.put + 1 # q.get
MqWriteOkay(q)    == NextIx(q, q.put) # q.get
MqPushbackOkay(q) == PrevIx(q, q.get) # q.put

MqWrite(q, m) ==
    IF MqWriteOkay(q)
      THEN [q EXCEPT !.ring = [@ EXCEPT ![q.put] = m], !.put = NextIx(q, q.put)]
      ELSE q

(* mq_read: what it returns, and the queue after it.                           *)
MqHead(q) == IF MqEmpty(q) THEN NULL ELSE q.ring[q.get]
MqRead(q) == IF MqEmpty(q) THEN q ELSE [q EXCEPT !.get = NextIx(q, q.get)]

MqPushback(q, m) ==
    IF MqPushbackOkay(q)
      THEN [q EXCEPT !.ring     = [@ EXCEPT ![PrevIx(q, q.get)] = m],
                     !.get      = PrevIx(q, q.get),
                     !.pushback = TRUE]
      ELSE q

MqCheckAndClear(q) == [q EXCEPT !.pushback = FALSE]

(* mq_clear reads and frees until the queue is empty.                          *)
MqClear(q) == [q EXCEPT !.get = q.put, !.pushback = FALSE]

-------------------------------------------------------------------------------
(* What a queue holds, oldest message first.                                   *)
MqLen(q) == IF q.get <= q.put THEN q.put - q.get ELSE q.put + q.nbr - q.get
SlotOf(q, i) == IF q.get + i - 1 < q.nbr THEN q.get + i - 1
                                         ELSE q.get + i - 1 - q.nbr
Contents(q) == [i \in 1..MqLen(q) |-> q.ring[SlotOf(q, i)]]
===============================================================================
