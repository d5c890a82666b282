------------------------------ MODULE UartProofs ------------------------------
(* Proofs about Uart, for rings of any size and any characters: the interrupt  *)
(* is armed while there is something to send, and each direction implements a  *)
(* channel that keeps order, wherever the interrupt comes.                     *)
EXTENDS Uart, SequenceTheorems, TLAPS

(* The transmit interrupt is armed also in the middle of the routine.          *)
Armed == tx_put # tx_get => ier \/ pc = "enable"

(* What the main program knows while the routine may run: as long as it waits, *)
(* the routine has taken no more characters than there were; a ring found      *)
(* empty stays empty and one with room keeps it; what is being stored or read  *)
(* is not touched.                                                             *)
Knows == /\ pc = "write" => Count(get, tx_get, TxSize) <= Count(get, tx_put, TxSize)
         /\ pc = "chip" => thr = <<>> /\ tx_get = tx_put
         /\ pc \in {"store", "advance"} => Succ(tx_put, TxSize) # tx_get
         /\ pc = "advance" => tx_buf[tx_put] = c
         /\ pc = "read" => rx_get # rx_put /\ c = rx_buf[rx_get]

IInv == TypeOK /\ Armed /\ Knows

TxRing == Ring(tx_buf, tx_get, tx_put, TxSize)
RxRing == Ring(rx_buf, rx_get, rx_put, RxSize)

(* A ring and its indices.                                                     *)
IsRing(buf, from, to, size) == /\ size \in 2..256
                               /\ from \in 0..size-1 /\ to \in 0..size-1
                               /\ buf \in [0..size-1 -> Char]

-------------------------------------------------------------------------------
(* Rings: the arithmetic of the indices.                                       *)
LEMMA Indices ==
  ASSUME NEW buf, NEW from, NEW to, NEW size, IsRing(buf, from, to, size)
  PROVE  /\ Succ(from, size) \in 0..size-1
         /\ Count(from, to, size) \in 0..size-1
         /\ Count(from, to, size) = 0 <=> from = to
         /\ Count(from, to, size) = size - 1 <=> Succ(to, size) = from
         /\ \A i \in 1..Count(from, to, size) :
               /\ Slot(from, i, size) \in 0..size-1
               /\ Slot(from, i, size) # to
  <1>1. Succ(from, size) \in 0..size-1
    BY DEF Succ, IsRing
  <1>2. /\ Count(from, to, size) \in 0..size-1
        /\ Count(from, to, size) = 0 <=> from = to
    BY DEF Count, IsRing
  <1>3. Count(from, to, size) = size - 1 <=> Succ(to, size) = from
    BY DEF Count, Succ, IsRing
  <1>4. ASSUME NEW i \in 1..Count(from, to, size)
        PROVE  Slot(from, i, size) \in 0..size-1 /\ Slot(from, i, size) # to
    BY <1>2 DEF Slot, Count, IsRing
  <1> QED BY <1>1, <1>2, <1>3, <1>4

LEMMA RingType ==
  ASSUME NEW buf, NEW from, NEW to, NEW size, IsRing(buf, from, to, size)
  PROVE  /\ Ring(buf, from, to, size) \in Seq(Char)
         /\ Len(Ring(buf, from, to, size)) = Count(from, to, size)
         /\ \A i \in 1..Count(from, to, size) :
               Ring(buf, from, to, size)[i] = buf[Slot(from, i, size)]
         /\ Ring(buf, from, to, size) = <<>> <=> from = to
  <1> DEFINE n == Count(from, to, size)
             r == Ring(buf, from, to, size)
  <1>1. n \in Nat /\ (n = 0 <=> from = to)
    BY Indices
  <1>2. \A i \in 1..n : buf[Slot(from, i, size)] \in Char
    BY Indices DEF IsRing
  <1>3. r = [i \in 1..n |-> buf[Slot(from, i, size)]]
    BY DEF Ring
  <1>4. r \in [1..n -> Char]
    BY <1>2, <1>3
  <1>5. r \in Seq(Char) /\ Len(r) = n
    <2> HIDE DEF r, n
    <2> QED BY <1>1, <1>4
  <1>6. r = <<>> <=> from = to
    <2>1. r = <<>> => n = 0
      BY <1>5
    <2>2. n = 0 => r = <<>>
      <3> HIDE DEF r, n
      <3> QED BY <1>5, EmptySeq
    <2> QED BY <1>1, <2>1, <2>2
  <1> QED BY <1>3, <1>5, <1>6

(* A character stored at to is in the ring when to has moved past it, and does *)
(* not change what was there.                                                  *)
LEMMA RingStore ==
  ASSUME NEW buf, NEW from, NEW to, NEW size, IsRing(buf, from, to, size),
         NEW ch \in Char
  PROVE  Ring([buf EXCEPT ![to] = ch], from, to, size) = Ring(buf, from, to, size)
  <1>0. \A i \in 1..Count(from, to, size) :
           Slot(from, i, size) \in 0..size-1 /\ Slot(from, i, size) # to
    BY Indices
  <1>1. \A i \in 1..Count(from, to, size) :
           [buf EXCEPT ![to] = ch][Slot(from, i, size)] = buf[Slot(from, i, size)]
    BY <1>0 DEF IsRing
  <1> QED BY <1>1 DEF Ring

LEMMA RingAppend ==
  ASSUME NEW buf, NEW from, NEW to, NEW size, IsRing(buf, from, to, size),
         Succ(to, size) # from
  PROVE  Ring(buf, from, Succ(to, size), size) = Append(Ring(buf, from, to, size), buf[to])
  <1> DEFINE n == Count(from, to, size)
             r == Ring(buf, from, to, size)
             s == Ring(buf, from, Succ(to, size), size)
  <1>1. /\ IsRing(buf, from, Succ(to, size), size)
        /\ n \in Nat /\ buf[to] \in Char
    BY DEF IsRing, Succ, Count
  <1>2. Count(from, Succ(to, size), size) = n + 1
    BY DEF Count, Succ, IsRing
  <1>3. Slot(from, n + 1, size) = to
    BY DEF Count, Slot, IsRing
  <1>4. /\ r \in Seq(Char) /\ Len(r) = n
        /\ \A i \in 1..n : r[i] = buf[Slot(from, i, size)]
    BY RingType
  <1>5. /\ s \in Seq(Char) /\ Len(s) = n + 1
        /\ \A i \in 1..n+1 : s[i] = buf[Slot(from, i, size)]
    BY <1>1, <1>2, RingType
  <1> HIDE DEF n, r, s
  <1>6. /\ Append(r, buf[to]) \in Seq(Char) /\ Len(Append(r, buf[to])) = n + 1
        /\ \A i \in 1..n : Append(r, buf[to])[i] = r[i]
        /\ Append(r, buf[to])[n + 1] = buf[to]
    BY <1>1, <1>4, AppendProperties
  <1>7. \A i \in 1..n+1 : i \in 1..n \/ i = n + 1
    BY <1>1
  <1>8. \A i \in 1..n+1 : s[i] = Append(r, buf[to])[i]
    BY <1>3, <1>4, <1>5, <1>6, <1>7
  <1>9. s = Append(r, buf[to])
    BY <1>5, <1>6, <1>8, SeqEqual
  <1> QED BY <1>9 DEF r, s

(* The character at from is the oldest, and gone when from has moved past it.  *)
LEMMA RingTail ==
  ASSUME NEW buf, NEW from, NEW to, NEW size, IsRing(buf, from, to, size),
         from # to
  PROVE  /\ Ring(buf, from, to, size) # <<>>
         /\ Head(Ring(buf, from, to, size)) = buf[from]
         /\ Ring(buf, Succ(from, size), to, size) = Tail(Ring(buf, from, to, size))
  <1> DEFINE n == Count(from, to, size)
             r == Ring(buf, from, to, size)
             s == Ring(buf, Succ(from, size), to, size)
  <1>1. IsRing(buf, Succ(from, size), to, size) /\ n \in Nat /\ n > 0
    BY DEF IsRing, Succ, Count
  <1>2. Count(Succ(from, size), to, size) = n - 1
    BY DEF Count, Succ, IsRing
  <1>3. Slot(from, 1, size) = from
    BY DEF Slot, IsRing
  <1>4. \A i \in 1..n-1 : /\ Slot(Succ(from, size), i, size) = Slot(from, i + 1, size)
                          /\ i + 1 \in 1..n
    BY DEF Count, Slot, Succ, IsRing
  <1>5. /\ r \in Seq(Char) /\ Len(r) = n /\ r # <<>>
        /\ \A i \in 1..n : r[i] = buf[Slot(from, i, size)]
    BY RingType
  <1>6. /\ s \in Seq(Char) /\ Len(s) = n - 1
        /\ \A i \in 1..n-1 : s[i] = buf[Slot(Succ(from, size), i, size)]
    BY <1>1, <1>2, RingType
  <1> HIDE DEF n, r, s
  <1>7. /\ Tail(r) \in Seq(Char) /\ Len(Tail(r)) = n - 1
        /\ \A i \in 1..n-1 : Tail(r)[i] = r[i + 1]
    BY <1>5, HeadTailProperties
  <1>8. \A i \in 1..n-1 : s[i] = Tail(r)[i]
    BY <1>4, <1>5, <1>6, <1>7
  <1>9. s = Tail(r)
    BY <1>6, <1>7, <1>8, SeqEqual
  <1>10. Head(r) = buf[from]
    <2>1. 1 \in 1..n
      BY <1>1
    <2> QED BY <1>3, <1>5, <2>1
  <1> QED BY <1>5, <1>9, <1>10 DEF r, s

-------------------------------------------------------------------------------
(* Sequences.                                                                  *)
LEMMA HeadAndTail ==
  ASSUME NEW f \in Seq(Char), f # <<>>
  PROVE  <<Head(f)>> \o Tail(f) = f
  <1>1. /\ Head(f) \in Char /\ Head(f) = f[1]
        /\ Tail(f) \in Seq(Char) /\ Len(Tail(f)) = Len(f) - 1
        /\ \A i \in 1..Len(f)-1 : Tail(f)[i] = f[i + 1]
    BY HeadTailProperties
  <1>2. Len(f) \in Nat /\ Len(f) > 0
    BY EmptySeq
  <1>3. <<Head(f)>> \in Seq(Char) /\ Len(<<Head(f)>>) = 1 /\ <<Head(f)>>[1] = Head(f)
    BY <1>1
  <1> DEFINE h == <<Head(f)>>
             t == Tail(f)
  <1>4. /\ h \o t \in Seq(Char) /\ Len(h \o t) = Len(f)
        /\ \A i \in 1..Len(f) : (h \o t)[i] = IF i <= 1 THEN h[i] ELSE t[i - 1]
    <2> HIDE DEF h, t
    <2>1. /\ h \in Seq(Char) /\ t \in Seq(Char) /\ Len(h) = 1 /\ Len(t) = Len(f) - 1
      BY <1>1, <1>3 DEF h, t
    <2>2. Len(h) + Len(t) = Len(f)
      BY <2>1, <1>2
    <2>3. /\ h \o t \in Seq(Char) /\ Len(h \o t) = Len(h) + Len(t)
          /\ \A i \in 1..Len(h)+Len(t) :
                (h \o t)[i] = IF i <= Len(h) THEN h[i] ELSE t[i - Len(h)]
      BY <2>1, ConcatProperties
    <2> QED BY <2>1, <2>2, <2>3
  <1>5. ASSUME NEW i \in 1..Len(f) PROVE (h \o t)[i] = f[i]
    <2>1. CASE i = 1
      BY <2>1, <1>1, <1>3, <1>4
    <2>2. CASE i # 1
      <3>1. i - 1 \in 1..Len(f)-1 /\ (i - 1) + 1 = i /\ ~(i <= 1)
        BY <2>2, <1>2
      <3>2. t[i - 1] = f[i]
        BY <3>1, <1>1
      <3> QED BY <3>1, <3>2, <1>4
    <2> QED BY <2>1, <2>2
  <1>6. h \o t = f
    <2> HIDE DEF h, t
    <2> QED BY <1>4, <1>5, SeqEqual
  <1> QED BY <1>6

LEMMA MoveHead ==
  ASSUME NEW s \in Seq(Char), NEW f \in Seq(Char), f # <<>>
  PROVE  Append(s, Head(f)) \o Tail(f) = s \o f
  <1>1. Head(f) \in Char /\ Tail(f) \in Seq(Char) /\ <<Head(f)>> \in Seq(Char)
    BY HeadTailProperties
  <1>2. Append(s, Head(f)) = s \o <<Head(f)>>
    BY <1>1, AppendIsConcat
  <1>3. (s \o <<Head(f)>>) \o Tail(f) = s \o (<<Head(f)>> \o Tail(f))
    BY <1>1, ConcatAssociative
  <1> QED BY <1>2, <1>3, HeadAndTail

LEMMA AppendRight ==
  ASSUME NEW s \in Seq(Char), NEW f \in Seq(Char), NEW ch \in Char
  PROVE  s \o Append(f, ch) = Append(s \o f, ch)
  <1>1. <<ch>> \in Seq(Char) /\ s \o f \in Seq(Char)
    BY ConcatProperties
  <1>2. Append(f, ch) = f \o <<ch>> /\ Append(s \o f, ch) = (s \o f) \o <<ch>>
    BY <1>1, AppendIsConcat
  <1>3. (s \o f) \o <<ch>> = s \o (f \o <<ch>>)
    BY <1>1, ConcatAssociative
  <1> QED BY <1>2, <1>3

LEMMA TailLeft ==
  ASSUME NEW s \in Seq(Char), NEW f \in Seq(Char), s # <<>>
  PROVE  s \o f # <<>> /\ Tail(s \o f) = Tail(s) \o f
  <1> DEFINE q == s \o f
  <1>1. q \in Seq(Char) /\ Len(q) = Len(s) + Len(f)
        /\ \A i \in 1..Len(s)+Len(f) : q[i] = IF i <= Len(s) THEN s[i] ELSE f[i - Len(s)]
    BY ConcatProperties
  <1>2. Len(s) \in Nat /\ Len(s) > 0 /\ Len(f) \in Nat
    BY EmptySeq, LenProperties
  <1> HIDE DEF q
  <1>3. q # <<>>
    BY <1>1, <1>2
  <1>4. /\ Tail(q) \in Seq(Char) /\ Len(Tail(q)) = Len(s) + Len(f) - 1
        /\ \A i \in 1..Len(s)+Len(f)-1 : Tail(q)[i] = q[i + 1]
    BY <1>1, <1>3, HeadTailProperties
  <1>5. /\ Tail(s) \in Seq(Char) /\ Len(Tail(s)) = Len(s) - 1
        /\ \A i \in 1..Len(s)-1 : Tail(s)[i] = s[i + 1]
    BY HeadTailProperties
  <1> DEFINE t == Tail(s)
             n == Len(s) + Len(f) - 1
  <1>6. /\ t \o f \in Seq(Char) /\ Len(t \o f) = n
        /\ \A i \in 1..n : (t \o f)[i] = IF i <= Len(s) - 1 THEN t[i] ELSE f[i - (Len(s) - 1)]
    <2>1. t \in Seq(Char) /\ Len(t) = Len(s) - 1
      BY <1>5
    <2> HIDE DEF t
    <2>2. Len(t) + Len(f) = n
      BY <2>1, <1>2
    <2>3. /\ t \o f \in Seq(Char) /\ Len(t \o f) = Len(t) + Len(f)
          /\ \A i \in 1..Len(t)+Len(f) :
                (t \o f)[i] = IF i <= Len(t) THEN t[i] ELSE f[i - Len(t)]
      BY <2>1, ConcatProperties
    <2> HIDE DEF n
    <2> QED BY <2>1, <2>2, <2>3
  <1>7. ASSUME NEW i \in 1..n PROVE Tail(q)[i] = (t \o f)[i]
    <2>1. i + 1 \in 1..Len(s)+Len(f) /\ Tail(q)[i] = q[i + 1]
      BY <1>2, <1>4
    <2>2. CASE i <= Len(s) - 1
      <3>1. i \in 1..Len(s)-1 /\ i + 1 <= Len(s)
        BY <2>2, <1>2
      <3> QED BY <2>1, <2>2, <3>1, <1>1, <1>5, <1>6
    <2>3. CASE ~(i <= Len(s) - 1)
      <3>1. ~(i + 1 <= Len(s)) /\ (i + 1) - Len(s) = i - (Len(s) - 1)
        BY <2>3, <1>2
      <3> QED BY <2>1, <2>3, <3>1, <1>1, <1>6
    <2> QED BY <2>2, <2>3
  <1>8. Tail(q) = t \o f
    <2> HIDE DEF t
    <2>1. Len(Tail(q)) = n
      BY <1>4
    <2> HIDE DEF n
    <2> QED BY <2>1, <1>4, <1>6, <1>7, SeqEqual
  <1> QED BY <1>3, <1>8 DEF q

(* Without the character after the first n of them.                            *)
LEMMA LoseOne ==
  ASSUME NEW s \in Seq(Char), NEW f \in Seq(Char), f # <<>>
  PROVE  /\ Len(s \o f) > Len(s)
         /\ s \o Tail(f) = SubSeq(s \o f, 1, Len(s)) \o SubSeq(s \o f, Len(s) + 2, Len(s \o f))
  <1> DEFINE q == s \o f
             n == Len(s)
             m == Len(f)
  <1>1. Len(q) = n + m
    BY ConcatProperties
  <1>2. n \in Nat /\ m \in Nat /\ m > 0
    BY EmptySeq, LenProperties
  <1>3. SubSeq(q, 1, n) = s
    <2>1. CASE n = 0
      <3>1. s = <<>>
        BY <2>1, EmptySeq
      <3>2. SubSeq(q, 1, 0) = <<>>
        BY SubSeqEmpty
      <3> QED BY <2>1, <3>1, <3>2
    <2>2. CASE n # 0
      <3>1. 1 \in 1..n /\ n \in 1..n
        BY <2>2, <1>2
      <3>2. SubSeq(q, 1, n) = SubSeq(s, 1, n)
        BY <3>1, SubSeqOfConcat1
      <3> QED BY <3>2, SubSeqFull
    <2> QED BY <2>1, <2>2
  <1>4. SubSeq(q, n + 2, n + m) = Tail(f)
    <2>1. Tail(f) = SubSeq(f, 2, m)
      BY TailIsSubSeq
    <2>2. CASE m = 1
      <3>1. SubSeq(f, 2, 1) = <<>>
        BY SubSeqEmpty
      <3>2. n + 2 \in Int /\ n + 1 \in Int /\ n + 1 < n + 2
        BY <1>2
      <3>3. SubSeq(q, n + 2, n + 1) = <<>>
        BY <3>2, SubSeqEmpty
      <3> QED BY <2>1, <2>2, <3>1, <3>3
    <2>3. CASE m # 1
      <3>1. /\ n + 2 \in n+1..n+m /\ n + m \in n+1..n+m
            /\ (n + 2) - n = 2 /\ (n + m) - n = m
        <4> HIDE DEF n, m
        <4> QED BY <2>3, <1>2
      <3>2. SubSeq(q, n + 2, n + m) = SubSeq(f, (n + 2) - n, (n + m) - n)
        BY <3>1, SubSeqOfConcat2
      <3> QED BY <2>1, <3>1, <3>2
    <2> QED BY <2>2, <2>3
  <1>5. Len(q) > n
    BY <1>1, <1>2
  <1> QED BY <1>1, <1>3, <1>4, <1>5

-------------------------------------------------------------------------------
(* Types.                                                                      *)
LEMMA Rings ==
  ASSUME TypeOK
  PROVE  /\ IsRing(tx_buf, tx_get, tx_put, TxSize)
         /\ IsRing(rx_buf, rx_get, rx_put, RxSize)
         /\ IsRing(tx_buf, get, tx_put, TxSize)
  BY UartAssumption DEF TypeOK, IsRing

LEMMA InitInv == Init => IInv
  <1> SUFFICES ASSUME Init PROVE IInv
    OBVIOUS
  <1>1. Blank \in Char
    BY UartAssumption DEF Blank
  <1>2. <<>> \in Seq(Char) /\ Len(<<>>) = 0
    BY EmptySeq
  <1>3. TypeOK
    BY <1>1, <1>2, UartAssumption DEF Init, TypeOK, PC
  <1> QED BY <1>3 DEF Init, IInv, Armed, Knows

LEMMA TypeStep == TypeOK /\ [Next]_vars => TypeOK'
  <1> SUFFICES ASSUME TypeOK, [Next]_vars PROVE TypeOK'
    OBVIOUS
  <1> USE DEF PC
  <1>0. /\ \A i \in 0..TxSize-1 : Succ(i, TxSize) \in 0..TxSize-1
        /\ \A i \in 0..RxSize-1 : Succ(i, RxSize) \in 0..RxSize-1
        /\ 0 \in 0..TxSize-1 /\ 0 \in 0..RxSize-1 /\ Blank \in Char
    BY UartAssumption DEF Succ, Blank
  <1>1. ASSUME NEW ch \in Char, Write(ch) PROVE TypeOK'
    BY <1>1 DEF Write, At, TypeOK, rx, tx
  <1>2. CASE Wait
    BY <1>2 DEF Wait, At, TypeOK, rx, tx
  <1>3. CASE Decide
    BY <1>3 DEF Decide, At, TypeOK, rx, tx
  <1>4. CASE ToChip
    <2>1. thr' \in Seq(Char) /\ Len(thr') <= 1
      BY <1>4 DEF ToChip, TypeOK
    <2> QED BY <1>0, <1>4, <2>1 DEF ToChip, Return, At, TypeOK, rx, tx
  <1>5. CASE Store
    BY <1>5 DEF Store, At, TypeOK, rx, tx
  <1>6. CASE Advance
    BY <1>0, <1>6 DEF Advance, At, TypeOK, rx, tx
  <1>7. CASE Enable
    BY <1>0, <1>7 DEF Enable, Return, At, TypeOK, rx, tx
  <1>8. CASE Read
    BY <1>8 DEF Read, At, TypeOK, rx, tx
  <1>9. CASE ReadAdvance
    BY <1>0, <1>9 DEF ReadAdvance, Return, At, TypeOK, rx, tx
  <1>10. CASE Reinit
    BY <1>0, <1>10 DEF Reinit, At, TypeOK, main
  <1>11. CASE Interrupt
    BY <1>11 DEF Interrupt, TypeOK, rx, tx, main
  <1>12. CASE IsrReceive
    <2>1. fifo' \in Seq(Char) /\ Len(fifo') <= FifoSize /\ Head(fifo) \in Char
      <3>1. Head(fifo) \in Char /\ Tail(fifo) \in Seq(Char) /\ Len(Tail(fifo)) = Len(fifo) - 1
        BY <1>12, HeadTailProperties DEF IsrReceive, TypeOK
      <3>2. Len(fifo) \in Nat /\ Len(fifo) <= FifoSize /\ FifoSize \in Nat
        BY UartAssumption DEF TypeOK
      <3> QED BY <1>12, <3>1, <3>2 DEF IsrReceive
    <2>2. rx_buf' \in [0..RxSize-1 -> Char] /\ rx_put' \in 0..RxSize-1
      BY <1>0, <1>12, <2>1 DEF IsrReceive, TypeOK
    <2> QED BY <1>12, <2>1, <2>2 DEF IsrReceive, TypeOK, tx, main
  <1>13. CASE IsrReceived
    BY <1>13 DEF IsrReceived, TypeOK, rx, tx, main
  <1>14. CASE IsrSend
    <2>1. thr' \in Seq(Char) /\ Len(thr') <= 1
      BY <1>14 DEF IsrSend, TypeOK
    <2> QED BY <1>0, <1>14, <2>1 DEF IsrSend, TypeOK, rx, main
  <1>15. CASE IsrReturn
    BY <1>15 DEF IsrReturn, TypeOK, rx, tx, main
  <1>16. CASE Shift
    <2>1. thr' \in Seq(Char) /\ Len(thr') <= 1
      BY <1>16, EmptySeq DEF Shift
    <2> QED BY <1>16, <2>1 DEF Shift, TypeOK, rx, tx, main
  <1>17. ASSUME NEW ch \in Char, Arrive(ch) PROVE TypeOK'
    <2>1. fifo' \in Seq(Char) /\ Len(fifo') = Len(fifo) + 1
      BY <1>17, AppendProperties DEF Arrive, TypeOK
    <2>2. Len(fifo) \in Nat /\ Len(fifo) < FifoSize /\ FifoSize \in Nat
      BY <1>17, UartAssumption DEF Arrive, TypeOK
    <2> QED BY <1>17, <2>1, <2>2 DEF Arrive, TypeOK, rx, tx, main
  <1>18. CASE UNCHANGED vars
    BY <1>18 DEF TypeOK, vars, rx, tx, main
  <1> QED BY <1>1, <1>2, <1>3, <1>4, <1>5, <1>6, <1>7, <1>8, <1>9, <1>10, <1>11, <1>12,
             <1>13, <1>14, <1>15, <1>16, <1>17, <1>18 DEF Next, Writing, Isr

(* The interrupt is disabled only when nothing is left, and characters are     *)
(* added only where it is enabled next.                                        *)
LEMMA ArmedStep == TypeOK /\ Armed /\ [Next]_vars => Armed'
  <1> SUFFICES ASSUME TypeOK, Armed, [Next]_vars PROVE Armed'
    OBVIOUS
  <1> USE DEF Armed, At, rx, tx, main
  <1>1. CASE \E ch \in Char : Write(ch) \/ Arrive(ch)
    BY <1>1 DEF Write, Arrive
  <1>2. CASE Writing
    <2>1. CASE Wait \/ Decide \/ ToChip \/ Store
      BY <2>1 DEF Wait, Decide, ToChip, Store, Return
    <2>2. CASE Advance \/ Enable
      BY <2>2 DEF Advance, Enable
    <2> QED BY <1>2, <2>1, <2>2 DEF Writing
  <1>3. CASE Read \/ ReadAdvance \/ Reinit \/ Shift
    BY <1>3 DEF Read, ReadAdvance, Return, Reinit, Shift
  <1>4. CASE Isr
    <2>1. CASE Interrupt \/ IsrReceive \/ IsrReceived
      BY <2>1 DEF Interrupt, IsrReceive, IsrReceived
    <2>2. CASE IsrSend
      BY <2>2 DEF IsrSend
    <2>3. CASE IsrReturn
      BY <2>3 DEF IsrReturn
    <2> QED BY <1>4, <2>1, <2>2, <2>3 DEF Isr
  <1>5. CASE UNCHANGED vars
    BY <1>5 DEF vars
  <1> QED BY <1>1, <1>2, <1>3, <1>4, <1>5 DEF Next

LEMMA KnowsStep == TypeOK /\ Knows /\ [Next]_vars => Knows'
  <1> SUFFICES ASSUME TypeOK, Knows, [Next]_vars PROVE Knows'
    OBVIOUS
  <1> USE DEF Knows, At, rx, tx, main
  <1>0. /\ TxSize \in 2..256 /\ tx_get \in 0..TxSize-1 /\ tx_put \in 0..TxSize-1
        /\ get \in 0..TxSize-1
        /\ RxSize \in 2..256 /\ rx_get \in 0..RxSize-1 /\ rx_put \in 0..RxSize-1
    BY UartAssumption DEF TypeOK
  <1>1. Count(tx_get, tx_get, TxSize) <= Count(tx_get, tx_put, TxSize)
    BY <1>0 DEF Count
  <1>2. CASE \E ch \in Char : Write(ch)
    BY <1>1, <1>2 DEF Write
  <1>3. CASE Wait
    BY <1>1, <1>3 DEF Wait
  <1>4. CASE Decide
    <2>1. Count(get, tx_get, TxSize) <= Count(get, tx_put, TxSize)
      BY <1>4 DEF Decide
    <2>2. CASE tx_put = get /\ thr = <<>>
      <3>1. tx_get = tx_put
        BY <1>0, <2>1, <2>2 DEF Count
      <3> QED BY <1>4, <2>2, <3>1 DEF Decide
    <2>3. CASE ~(tx_put = get /\ thr = <<>>)
      <3>1. tx_put = get \/ Succ(tx_put, TxSize) # get
        BY <1>4 DEF Decide
      <3>2. Succ(tx_put, TxSize) # tx_get
        BY <1>0, <2>1, <3>1 DEF Count, Succ
      <3> QED BY <1>4, <2>3, <3>2 DEF Decide
    <2> QED BY <2>2, <2>3
  <1>5. CASE ToChip \/ Enable \/ ReadAdvance
    BY <1>5 DEF ToChip, Enable, ReadAdvance, Return
  <1>6. CASE Store
    <2>1. tx_buf'[tx_put] = c
      BY <1>6 DEF Store, TypeOK
    <2> QED BY <1>6, <2>1 DEF Store
  <1>7. CASE Advance \/ Reinit
    BY <1>7 DEF Advance, Reinit
  <1>8. CASE Read
    BY <1>8 DEF Read
  <1>9. CASE Interrupt \/ IsrReceived \/ IsrReturn \/ \E ch \in Char : Arrive(ch)
    BY <1>9 DEF Interrupt, IsrReceived, IsrReturn, Arrive
  <1>10. CASE IsrReceive
    <2>1. CASE RoomToReceive
      <3>1. pc = "read" => Succ(rx_put, RxSize) # rx_get /\ rx_buf'[rx_get] = rx_buf[rx_get]
        BY <1>0, <1>10, <2>1 DEF IsrReceive, RoomToReceive, TypeOK
      <3> QED BY <1>10, <2>1, <3>1 DEF IsrReceive
    <2>2. CASE ~RoomToReceive
      BY <1>10, <2>2 DEF IsrReceive
    <2> QED BY <2>1, <2>2
  <1>11. CASE IsrSend
    <2>1. tx_get # tx_put /\ tx_get' = Succ(tx_get, TxSize)
      BY <1>11 DEF IsrSend
    <2>2. Count(get, tx_get, TxSize) <= Count(get, tx_put, TxSize)
             => Count(get, Succ(tx_get, TxSize), TxSize) <= Count(get, tx_put, TxSize)
      BY <1>0, <2>1 DEF Count, Succ
    <2>3. Succ(tx_put, TxSize) # Succ(tx_get, TxSize)
      BY <1>0, <2>1 DEF Succ
    <2> QED BY <1>11, <2>1, <2>2, <2>3 DEF IsrSend
  <1>12. CASE Shift
    BY <1>12 DEF Shift
  <1>13. CASE UNCHANGED vars
    BY <1>13 DEF vars
  <1> QED BY <1>2, <1>3, <1>4, <1>5, <1>6, <1>7, <1>8, <1>9, <1>10, <1>11, <1>12, <1>13
          DEF Next, Writing, Isr

-------------------------------------------------------------------------------
(* A step of the system is a step of the channel that is sent through: a       *)
(* character is put in by ToChip or Advance, and taken out by Shift; the       *)
(* routine only moves the oldest from the ring to the holding register.        *)
LEMMA SendStep == IInv /\ [Next]_vars => [Sending!Next \/ Reinit]_(Sending!vars)
  <1> SUFFICES ASSUME IInv, [Next]_vars PROVE [Sending!Next \/ Reinit]_(Sending!vars)
    OBVIOUS
  <1> DEFINE ring == TxRing
             q == thr \o ring
  <1>0. /\ TypeOK /\ Knows /\ IsRing(tx_buf, tx_get, tx_put, TxSize)
        /\ thr \in Seq(Char) /\ Len(thr) <= 1 /\ c \in Char
        /\ ring \in Seq(Char) /\ (ring = <<>> <=> tx_get = tx_put)
    BY Rings, RingType DEF IInv, TypeOK, TxRing
  <1>1. q' = q => UNCHANGED Sending!vars
    BY DEF Sending!vars, TxRing
  <1>2. ASSUME NEW ch \in Char, q' = Append(q, ch) PROVE Sending!Next
    BY <1>2 DEF Sending!Next, Sending!Put, TxRing
  <1>3. ASSUME q # <<>>, q' = Tail(q) PROVE Sending!Next
    BY <1>3 DEF Sending!Next, Sending!Get, TxRing
  <1> HIDE DEF ring
  <1> USE DEF At, rx, tx, main
  <1>4. UNCHANGED <<thr, tx_buf, tx_get, tx_put>> => q' = q
    BY DEF ring, TxRing
  <1>5. CASE ToChip
    <2>1. thr = <<>> /\ tx_get = tx_put /\ thr' = <<c>> /\ UNCHANGED <<tx_buf, tx_get, tx_put>>
      BY <1>0, <1>5 DEF ToChip, Knows
    <2>2. ring = <<>> /\ ring' = <<>>
      BY <1>0, <2>1 DEF ring, TxRing
    <2>3. <<c>> \o <<>> = <<c>> /\ <<>> \o <<>> = <<>> /\ Append(<<>>, c) = <<c>>
      BY <1>0, ConcatEmptySeq, EmptySeq, AppendIsConcat
    <2> QED BY <1>0, <1>2, <2>1, <2>2, <2>3
  <1>6. CASE Store
    <2>1. ring' = ring
      <3>1. tx_buf' = [tx_buf EXCEPT ![tx_put] = c] /\ UNCHANGED <<tx_get, tx_put>>
        BY <1>6 DEF Store
      <3>2. Ring([tx_buf EXCEPT ![tx_put] = c], tx_get, tx_put, TxSize) = TxRing
        BY <1>0, RingStore DEF TxRing
      <3> QED BY <3>1, <3>2 DEF ring, TxRing
    <2> QED BY <1>1, <1>6, <2>1 DEF Store
  <1>7. CASE Advance
    <2>1. /\ Succ(tx_put, TxSize) # tx_get /\ tx_buf[tx_put] = c
          /\ tx_put' = Succ(tx_put, TxSize) /\ UNCHANGED <<thr, tx_buf, tx_get>>
      BY <1>0, <1>7 DEF Advance, Knows
    <2>2. ring' = Append(ring, c)
      BY <1>0, <2>1, RingAppend DEF ring, TxRing
    <2>3. thr \o Append(ring, c) = Append(q, c)
      BY <1>0, AppendRight
    <2> QED BY <1>0, <1>2, <2>1, <2>2, <2>3
  <1>8. CASE IsrSend
    <2>1. /\ thr = <<>> /\ tx_get # tx_put /\ thr' = <<tx_buf[tx_get]>>
          /\ tx_get' = Succ(tx_get, TxSize) /\ UNCHANGED <<tx_buf, tx_put>>
      BY <1>8 DEF IsrSend
    <2>2. ring # <<>> /\ Head(ring) = tx_buf[tx_get] /\ ring' = Tail(ring)
      BY <1>0, <2>1, RingTail DEF ring, TxRing
    <2>3. <<Head(ring)>> \o Tail(ring) = ring /\ <<>> \o ring = ring
      BY <1>0, <2>2, HeadAndTail, ConcatEmptySeq
    <2> QED BY <1>1, <2>1, <2>2, <2>3
  <1>9. CASE Shift
    <2>1. thr # <<>> /\ thr' = <<>> /\ UNCHANGED <<tx_buf, tx_get, tx_put>>
      BY <1>9 DEF Shift
    <2>2. Tail(thr) = <<>>
      <3>1. Tail(thr) \in Seq(Char) /\ Len(Tail(thr)) = Len(thr) - 1 /\ Len(thr) \in Nat \ {0}
        BY <1>0, <2>1, HeadTailProperties, EmptySeq
      <3> QED BY <1>0, <3>1, EmptySeq
    <2>3. q # <<>> /\ Tail(q) = <<>> \o ring
      BY <1>0, <2>1, <2>2, TailLeft
    <2>4. ring' = ring
      BY <2>1 DEF ring, TxRing
    <2> QED BY <1>3, <2>1, <2>3, <2>4
  <1>10. CASE \/ Wait \/ Decide \/ Enable \/ Read \/ ReadAdvance \/ UNCHANGED vars
              \/ Interrupt \/ IsrReceive \/ IsrReceived \/ IsrReturn
              \/ \E ch \in Char : Write(ch) \/ Arrive(ch)
    <2>1. UNCHANGED <<thr, tx_buf, tx_get, tx_put>>
      BY <1>10 DEF Wait, Decide, Enable, Read, ReadAdvance, vars, Interrupt, IsrReceive,
                   IsrReceived, IsrReturn, Write, Arrive
    <2> QED BY <1>1, <1>4, <2>1
  <1>11. CASE Reinit
    BY <1>11
  <1> QED BY <1>5, <1>6, <1>7, <1>8, <1>9, <1>10, <1>11 DEF Next, Writing, Isr

(* What uart_read holds is the oldest character of the ring.                   *)
LEMMA UnreadIsRing == TypeOK /\ Knows => Unread = RxRing
  <1> SUFFICES ASSUME TypeOK, Knows PROVE Unread = RxRing
    OBVIOUS
  <1> DEFINE ring == RxRing
  <1>1. IsRing(rx_buf, rx_get, rx_put, RxSize)
    BY Rings
  <1>2. CASE pc = "read"
    <2>1. rx_get # rx_put /\ c = rx_buf[rx_get]
      BY <1>2 DEF Knows
    <2>2. ring \in Seq(Char) /\ ring # <<>> /\ Head(ring) = c
      BY <1>1, <2>1, RingType, RingTail DEF RxRing
    <2>3. Unread = <<c>> \o SubSeq(ring, 2, Len(ring))
      BY <1>2 DEF Unread, RxRing
    <2> HIDE DEF ring
    <2>4. SubSeq(ring, 2, Len(ring)) = Tail(ring)
      BY <2>2, TailIsSubSeq
    <2>5. <<Head(ring)>> \o Tail(ring) = ring
      BY <2>2, HeadAndTail
    <2> QED BY <2>2, <2>3, <2>4, <2>5 DEF ring
  <1>3. CASE pc # "read"
    BY <1>3 DEF Unread, RxRing
  <1> QED BY <1>2, <1>3

(* A step of the system is a step of the channel that is received through: the *)
(* routine moves the oldest character of the FIFO to the ring, or loses it     *)
(* when the ring is full.                                                      *)
LEMMA ReceiveStep ==
  IInv /\ IInv' /\ [Next]_vars => [Receiving!Next \/ Reinit]_(Receiving!vars)
  <1> SUFFICES ASSUME IInv, IInv', [Next]_vars
               PROVE  [Receiving!Next \/ Reinit]_(Receiving!vars)
    OBVIOUS
  <1> DEFINE ring == RxRing
             q == Unread \o fifo
  <1>0. /\ TypeOK /\ Knows /\ IsRing(rx_buf, rx_get, rx_put, RxSize)
        /\ fifo \in Seq(Char)
        /\ ring \in Seq(Char) /\ (ring = <<>> <=> rx_get = rx_put)
        /\ Len(ring) = Count(rx_get, rx_put, RxSize)
    <2>1. TypeOK /\ Knows /\ IsRing(rx_buf, rx_get, rx_put, RxSize) /\ fifo \in Seq(Char)
      BY Rings DEF IInv, TypeOK
    <2> QED BY <2>1, RingType DEF RxRing
  <1>1. q = ring \o fifo
    BY UnreadIsRing DEF IInv
  <1>2. q' = ring' \o fifo'
    <2>1. (TypeOK /\ Knows => Unread = RxRing)'
      BY UnreadIsRing, PTL
    <2> QED BY <2>1 DEF IInv
  <1>3. q' = q => UNCHANGED Receiving!vars
    BY DEF Receiving!vars
  <1>4. ASSUME NEW ch \in Char, q' = Append(q, ch) PROVE Receiving!Next
    BY <1>4 DEF Receiving!Next, Receiving!Put
  <1>5. ASSUME q # <<>>, q' = Tail(q) PROVE Receiving!Next
    BY <1>5 DEF Receiving!Next, Receiving!Get
  <1>6. ASSUME Len(q) > RxSize - 1,
               q' = SubSeq(q, 1, RxSize - 1) \o SubSeq(q, RxSize - 1 + 2, Len(q))
        PROVE  Receiving!Next
    BY <1>6 DEF Receiving!Next, Receiving!Lose
  <1> HIDE DEF q, ring
  <1> USE DEF At, rx, tx, main
  <1>7. UNCHANGED <<rx_buf, rx_get, rx_put>> => ring' = ring
    BY DEF ring, RxRing
  <1>8. CASE ReadAdvance
    <2>1. /\ rx_get # rx_put /\ rx_get' = Succ(rx_get, RxSize)
          /\ UNCHANGED <<rx_buf, rx_put, fifo>>
      BY <1>0, <1>8 DEF ReadAdvance, Knows
    <2>2. ring' = Tail(ring) /\ ring # <<>>
      BY <1>0, <2>1, RingTail DEF ring, RxRing
    <2>3. q # <<>> /\ q' = Tail(q)
      BY <1>0, <1>1, <1>2, <2>1, <2>2, TailLeft
    <2> QED BY <1>5, <2>3
  <1>9. CASE IsrReceive
    <2>1. fifo # <<>> /\ fifo' = Tail(fifo) /\ rx_get' = rx_get /\ Head(fifo) \in Char
      BY <1>0, <1>9, HeadTailProperties DEF IsrReceive
    <2>2. CASE RoomToReceive
      <3> DEFINE buf == [rx_buf EXCEPT ![rx_put] = Head(fifo)]
      <3>1. /\ Succ(rx_put, RxSize) # rx_get
            /\ rx_buf' = buf /\ rx_put' = Succ(rx_put, RxSize)
        BY <1>9, <2>2 DEF IsrReceive, RoomToReceive
      <3>2. IsRing(buf, rx_get, rx_put, RxSize) /\ buf[rx_put] = Head(fifo)
        BY <1>0, <2>1 DEF IsRing
      <3>3. Ring(buf, rx_get, rx_put, RxSize) = ring
        BY <1>0, <2>1, RingStore DEF ring, RxRing
      <3> HIDE DEF buf
      <3>4. Ring(buf, rx_get, Succ(rx_put, RxSize), RxSize) = Append(ring, Head(fifo))
        BY <3>1, <3>2, <3>3, RingAppend
      <3>5. ring' = Append(ring, Head(fifo))
        BY <2>1, <3>1, <3>4 DEF ring, RxRing
      <3>6. q' = q
        BY <1>0, <1>1, <1>2, <2>1, <3>5, MoveHead
      <3> QED BY <1>3, <3>6
    <2>3. CASE ~RoomToReceive
      <3>1. Succ(rx_put, RxSize) = rx_get /\ UNCHANGED <<rx_buf, rx_put>>
        BY <1>9, <2>3 DEF IsrReceive, RoomToReceive
      <3>2. ring' = ring
        BY <2>1, <3>1, <1>7
      <3>3. Len(ring) = RxSize - 1
        BY <1>0, <3>1, Indices
      <3>4. /\ Len(q) > Len(ring)
            /\ q' = SubSeq(q, 1, Len(ring)) \o SubSeq(q, Len(ring) + 2, Len(q))
        BY <1>0, <1>1, <1>2, <2>1, <3>2, LoseOne
      <3> QED BY <1>6, <3>3, <3>4
    <2> QED BY <2>2, <2>3
  <1>10. ASSUME NEW ch \in Char, Arrive(ch) PROVE Receiving!Next
    <2>1. fifo' = Append(fifo, ch) /\ ring' = ring
      BY <1>7, <1>10 DEF Arrive
    <2>2. q' = Append(q, ch)
      BY <1>0, <1>1, <1>2, <2>1, AppendRight
    <2> QED BY <1>4, <2>2
  <1>11. CASE \/ Writing \/ Read \/ UNCHANGED vars \/ Shift
              \/ Interrupt \/ IsrReceived \/ IsrSend \/ IsrReturn
              \/ \E ch \in Char : Write(ch)
    <2>1. UNCHANGED <<fifo, rx_buf, rx_get, rx_put>>
      <3>1. CASE Writing
        BY <3>1 DEF Writing, Wait, Decide, ToChip, Store, Advance, Enable
      <3>2. CASE Read \/ UNCHANGED vars \/ Shift \/ \E ch \in Char : Write(ch)
        BY <3>2 DEF Read, vars, Shift, Write
      <3>3. CASE Interrupt \/ IsrReceived \/ IsrSend \/ IsrReturn
        BY <3>3 DEF Interrupt, IsrReceived, IsrSend, IsrReturn
      <3> QED BY <1>11, <3>1, <3>2, <3>3
    <2> QED BY <1>1, <1>2, <1>3, <1>7, <2>1
  <1>12. CASE Reinit
    BY <1>12
  <1> QED BY <1>8, <1>9, <1>10, <1>11, <1>12 DEF Next, Writing, Isr

-------------------------------------------------------------------------------
LEMMA StepInv == IInv /\ [Next]_vars => IInv'
  BY TypeStep, ArmedStep, KnowsStep DEF IInv

LEMMA InitChannels == Init => Sending!Init /\ Receiving!Init
  <1> SUFFICES ASSUME Init PROVE Sending!Init /\ Receiving!Init
    OBVIOUS
  <1>1. TypeOK /\ Knows
    BY InitInv DEF IInv
  <1>2. TxRing = <<>> /\ RxRing = <<>>
    BY <1>1, Rings, RingType DEF Init, TxRing, RxRing
  <1>3. Unread = <<>>
    BY <1>1, <1>2, UnreadIsRing
  <1>4. thr \o TxRing = <<>> /\ Unread \o fifo = <<>>
    BY <1>2, <1>3, EmptySeq, ConcatEmptySeq DEF Init
  <1> QED BY <1>4 DEF Sending!Init, Receiving!Init, TxRing

(* The invariant that the others follow from.                                  *)
THEOREM Invariance == Spec => []IInv
  BY InitInv, StepInv, PTL DEF Spec

(* The indices stay inside the rings, and the chip's registers in their sizes. *)
THEOREM TypeCorrect == Spec => []TypeOK
  <1>1. IInv => TypeOK
    BY DEF IInv
  <1> QED BY Invariance, <1>1, PTL

(* The transmit interrupt is enabled whenever a character waits in the ring,   *)
(* but for the moment before uart_write enables it.                            *)
THEOREM NeverLeftWaiting == Spec => []InterruptArmed
  <1>1. IInv => InterruptArmed
    BY DEF IInv, Armed, InterruptArmed
  <1> QED BY Invariance, <1>1, PTL

(* Transmission implements a channel that keeps order and loses nothing.       *)
THEOREM SendingRefines == Spec => SendsInOrder
  <1>1. Init => Sending!Init
    BY InitChannels
  <1> QED BY Invariance, <1>1, SendStep, PTL DEF Spec, SendsInOrder

(* Reception implements a channel that keeps order and loses a character only  *)
(* when the ring is full.                                                      *)
THEOREM ReceivingRefines == Spec => ReceivesInOrder
  <1>1. Init => Receiving!Init
    BY InitChannels
  <1> QED BY Invariance, <1>1, ReceiveStep, PTL DEF Spec, ReceivesInOrder
===============================================================================
