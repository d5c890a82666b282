---------------------------------- MODULE Msg ----------------------------------
(* The messages of BMZ (msg.c, pool.c), as operators on one message.  A message *)
(* is a buffer of size bytes with len bytes of data in the middle, from ptr on, *)
(* so that headers are pushed onto the front and data is written at the end.   *)
(* The data is a sequence of fields <<bytes, value>>.                          *)
(*                                                                             *)
(* ok is FALSE once a call on the message has ended in bmz_panic_msg, has      *)
(* taken off a field of another width than was put there, or has touched a     *)
(* message that was already freed: the last two the code does not notice.      *)
EXTENDS Integers, Sequences, FiniteSetsExt

(* The bytes of the first k of a sequence of fields, for each k.               *)
Sum(fields) == LET upto[k \in 0..Len(fields)] ==
                     IF k = 0 THEN 0 ELSE upto[k - 1] + fields[k][1]
               IN  upto
Size(fields) == Sum(fields)[Len(fields)]

(* What is left of the fields when they are cut off after n bytes.             *)
FirstBytes(fields, n) ==
    LET k == Max({j \in 0..Len(fields) : Sum(fields)[j] <= n})
    IN  IF Sum(fields)[k] = n THEN SubSeq(fields, 1, k)
        ELSE Append(SubSeq(fields, 1, k), <<n - Sum(fields)[k], fields[k + 1][2]>>)

(* A message that pool_init makes.                                             *)
NewMsg(size, offset) == [ptr |-> offset, len |-> 0, body |-> <<>>, size |-> size,
                         offset |-> offset, inuse |-> FALSE, ok |-> TRUE]

MsgClear(m) == [m EXCEPT !.ptr = m.offset, !.len = 0, !.body = <<>>]
MsgRoom(m)  == m.size - (m.ptr + m.len)

(* msg_free.  What a free message holds is forgotten: pool_alloc clears it.    *)
MsgFree(m)  == [MsgClear(m) EXCEPT !.inuse = FALSE, !.ok = @ /\ m.inuse]

(* pool_alloc's and pool_idx's message.                                        *)
InUse(m) == [MsgClear(m) EXCEPT !.inuse = TRUE]

(* msg_push: the fields come to stand in front of the data in this order.      *)
Push(m, fields) ==
    LET n == Size(fields)
    IN  [m EXCEPT !.ptr = @ - n, !.len = @ + n, !.body = fields \o @,
                  !.ok = @ /\ m.inuse /\ m.ptr >= n]

(* msg_write: the fields are added at the end.                                 *)
Write(m, fields) ==
    LET n == Size(fields)
    IN  [m EXCEPT !.len = @ + n, !.body = @ \o fields, !.ok = @ /\ m.inuse /\ MsgRoom(m) >= n]

(* msg_read: n bytes can be read.                                              *)
Read(m, n) == [m EXCEPT !.ok = @ /\ m.inuse /\ m.len >= n]

(* The first k fields are taken off, which are n bytes: msg_pop1, 2, 4 and 6   *)
(* of fields of these widths, and msg_pop of n bytes of whatever fields.       *)
TakeOff(m, k, n, right) ==
    [m EXCEPT !.ptr = @ + n, !.len = @ - n, !.body = SubSeq(@, k + 1, Len(@)),
              !.ok = @ /\ m.inuse /\ right]
Pop(m, widths) ==
    LET k == Len(widths)
    IN  TakeOff(m, k, Sum(m.body)[k],
                Len(m.body) >= k /\ \A j \in 1..k : m.body[j][1] = widths[j])
Drop(m, n) ==
    LET k == Min({j \in 0..Len(m.body) : j = Len(m.body) \/ Sum(m.body)[j] >= n})
    IN  IF n = 0 THEN m ELSE TakeOff(m, k, n, Sum(m.body)[k] = n)

(* msg_len(msg) = n, smaller than it was.                                      *)
Shorten(m, n) == IF n >= m.len THEN m
                 ELSE [m EXCEPT !.len = n, !.body = FirstBytes(@, n)]

(* What the k-th field of a message holds; FALSE when there is none.           *)
Val(m, k) == IF k \in DOMAIN m.body THEN m.body[k][2] ELSE FALSE
===============================================================================
