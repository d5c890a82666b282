--------------------------------- MODULE Deque ---------------------------------
(* What an MQ promises its users: a bounded sequence of messages, written at   *)
(* one end, read at the other, and to which the reader may return a message.   *)
EXTENDS Naturals, Sequences

CONSTANTS Msg, Capacity

VARIABLES content,   \* the messages queued, oldest first
          flag,      \* a message has been pushed back since the flag was read
          okay,      \* the Boolean the last operation returned
          got        \* the messages the last operation took out

vars == <<content, flag, okay, got>>

Init == content = <<>> /\ flag = FALSE /\ okay = TRUE /\ got = <<>>

Room == Len(content) < Capacity

Write(m) == /\ got' = <<>>
            /\ UNCHANGED flag
            /\ \/ Room /\ okay' = TRUE /\ content' = Append(content, m)
               \/ ~Room /\ okay' = FALSE /\ UNCHANGED content

Read == \/ /\ content = <<>>
           /\ okay' = FALSE
           /\ got' = <<>>
           /\ UNCHANGED <<content, flag>>
        \/ /\ content # <<>>
           /\ okay' = TRUE
           /\ got' = <<Head(content)>>
           /\ content' = Tail(content)
           /\ UNCHANGED flag

Pushback(m) == /\ got' = <<>>
               /\ \/ Room /\ okay' = TRUE /\ content' = <<m>> \o content /\ flag' = TRUE
                  \/ ~Room /\ okay' = FALSE /\ UNCHANGED <<content, flag>>

CheckAndClear == okay' = flag /\ flag' = FALSE /\ got' = <<>> /\ UNCHANGED content

Clear == content' = <<>> /\ flag' = FALSE /\ got' = content /\ okay' = TRUE

Next == \/ \E m \in Msg : Write(m) \/ Pushback(m)
        \/ Read
        \/ CheckAndClear
        \/ Clear

Spec == Init /\ [][Next]_vars
===============================================================================
