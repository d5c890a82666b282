-------------------------------- MODULE MQUser --------------------------------
(* One MQ under every sequence of calls of its six functions.  okay and got    *)
(* record what the last call returned.                                         *)
EXTENDS MQ

CONSTANTS Msg,      \* the messages
          Depth     \* the depth given to mq_init, a byte

ASSUME MsgAssumption   == NULL \notin Msg
ASSUME DepthAssumption == Depth \in 1..255

VARIABLES mq, okay, got
vars == <<mq, okay, got>>

Init == mq = MqInit(Depth) /\ okay = TRUE /\ got = <<>>

Write(m) == mq' = MqWrite(mq, m) /\ okay' = MqWriteOkay(mq) /\ got' = <<>>

Read == /\ mq' = MqRead(mq)
        /\ okay' = ~MqEmpty(mq)
        /\ got' = IF MqEmpty(mq) THEN <<>> ELSE <<MqHead(mq)>>

Pushback(m) == /\ mq' = MqPushback(mq, m)
               /\ okay' = MqPushbackOkay(mq)
               /\ got' = <<>>

CheckAndClear == mq' = MqCheckAndClear(mq) /\ okay' = mq.pushback /\ got' = <<>>

Clear == mq' = MqClear(mq) /\ okay' = TRUE /\ got' = Contents(mq)

Next == \/ \E m \in Msg : Write(m) \/ Pushback(m)
        \/ Read
        \/ CheckAndClear
        \/ Clear

Spec == Init /\ [][Next]_vars

-------------------------------------------------------------------------------
(* Type invariant.  The indices stay inside the ring, and every slot from get  *)
(* up to put holds a message that was written: mq_read never returns NULL (nor *)
(* an uninitialised pointer) for a queue that is not empty.                    *)
TypeOK == /\ mq \in [ring : [0..Depth-1 -> Msg \cup {NULL}], nbr : {Depth},
                     get : 0..Depth-1, put : 0..Depth-1, pushback : BOOLEAN]
          /\ okay \in BOOLEAN
          /\ \A i \in 1..MqLen(mq) : mq.ring[SlotOf(mq, i)] \in Msg
          /\ got \in Seq(Msg)

(* The ring implements the bounded deque: messages come out in the order they  *)
(* went in, none is overwritten or read twice when the indices wrap, a message *)
(* pushed back is the next one read, a write or pushback is refused exactly    *)
(* when nbr-1 messages are queued, and mq_clear frees each of them once.       *)
Abstract == INSTANCE Deque WITH content <- Contents(mq), flag <- mq.pushback,
                                Capacity <- Depth - 1
ImplementsDeque == Abstract!Spec
===============================================================================
