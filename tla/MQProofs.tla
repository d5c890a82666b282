------------------------------- MODULE MQProofs -------------------------------
(* Proofs about MQUser: its type invariant, and that the ring implements the   *)
(* bounded deque, for every depth and every set of messages.                   *)
EXTENDS MQUser, SequenceTheorems, TLAPS

(* The part of TypeOK that the slots of the queue rest on.                     *)
MQType == [ring : [0..Depth-1 -> Msg \cup {NULL}], nbr : {Depth},
           get : 0..Depth-1, put : 0..Depth-1, pushback : BOOLEAN]

Slots(q) == \A i \in 1..MqLen(q) : q.ring[SlotOf(q, i)] \in Msg

(* The components of an MQ.                                                    *)
LEMMA Fields ==
  ASSUME NEW q \in MQType
  PROVE  /\ Depth \in Nat /\ Depth > 0
         /\ q.nbr = Depth
         /\ q.get \in Nat /\ q.get < Depth
         /\ q.put \in Nat /\ q.put < Depth
         /\ q.ring \in [0..Depth-1 -> Msg \cup {NULL}]
         /\ q.pushback \in BOOLEAN
  BY DepthAssumption DEF MQType

(* The indices advance and retreat inside the ring, and the length of a queue  *)
(* is never more than the capacity.                                            *)
LEMMA Indices ==
  ASSUME NEW q \in MQType
  PROVE  /\ NextIx(q, q.put) \in 0..Depth-1
         /\ NextIx(q, q.get) \in 0..Depth-1
         /\ PrevIx(q, q.get) \in 0..Depth-1
         /\ MqLen(q) \in 0..Depth-1
         /\ \A i \in 1..MqLen(q) : SlotOf(q, i) \in 0..Depth-1
         /\ MqWriteOkay(q) <=> MqLen(q) < Depth - 1
         /\ MqPushbackOkay(q) <=> MqLen(q) < Depth - 1
         /\ MqEmpty(q) <=> MqLen(q) = 0
  <1>1. /\ NextIx(q, q.put) \in 0..Depth-1
        /\ NextIx(q, q.get) \in 0..Depth-1
        /\ PrevIx(q, q.get) \in 0..Depth-1
    BY Fields DEF NextIx, PrevIx
  <1>2. MqLen(q) \in 0..Depth-1 /\ (MqEmpty(q) <=> MqLen(q) = 0)
    BY Fields DEF MqLen, MqEmpty
  <1>3. \A i \in 1..MqLen(q) : SlotOf(q, i) \in 0..Depth-1
    BY Fields DEF MqLen, SlotOf
  <1>4. MqWriteOkay(q) <=> MqLen(q) < Depth - 1
    BY Fields DEF MqLen, MqWriteOkay, NextIx
  <1>5. MqPushbackOkay(q) <=> MqLen(q) < Depth - 1
    BY Fields DEF MqLen, MqPushbackOkay, PrevIx
  <1> QED BY <1>1, <1>2, <1>3, <1>4, <1>5

(* A write that finds room fills the slot after the last one of the queue.     *)
LEMMA WriteSlots ==
  ASSUME NEW q \in MQType, NEW m \in Msg, Slots(q), MqWriteOkay(q)
  PROVE  /\ MqWrite(q, m) \in MQType
         /\ MqLen(MqWrite(q, m)) = MqLen(q) + 1
         /\ \A i \in 1..MqLen(q) : /\ SlotOf(MqWrite(q, m), i) = SlotOf(q, i)
                                   /\ SlotOf(q, i) # q.put
         /\ SlotOf(MqWrite(q, m), MqLen(q) + 1) = q.put
         /\ MqWrite(q, m).ring = [q.ring EXCEPT ![q.put] = m]
         /\ MqWrite(q, m).pushback = q.pushback
  <1> DEFINE r == MqWrite(q, m)
  <1>1. r = [q EXCEPT !.ring = [q.ring EXCEPT ![q.put] = m], !.put = NextIx(q, q.put)]
    BY DEF MqWrite
  <1>2. Depth \in Nat /\ Depth > 0 /\ q.nbr = Depth
        /\ q.get \in Nat /\ q.get < Depth /\ q.put \in Nat /\ q.put < Depth
    BY Fields
  <1>3. /\ r.ring = [q.ring EXCEPT ![q.put] = m]
        /\ r.get = q.get
        /\ r.put = NextIx(q, q.put)
        /\ r.nbr = q.nbr
        /\ r.pushback = q.pushback
    BY <1>1 DEF MQType
  <1>4. r \in MQType
    <2>1. r = [ring |-> r.ring, nbr |-> r.nbr, get |-> r.get, put |-> r.put,
               pushback |-> r.pushback]
      BY <1>1 DEF MQType
    <2>2. r.ring \in [0..Depth-1 -> Msg \cup {NULL}] /\ r.pushback \in BOOLEAN
      BY <1>3, Fields, Indices
    <2>3. r.nbr \in {Depth} /\ r.get \in 0..Depth-1 /\ r.put \in 0..Depth-1
      BY <1>2, <1>3, Indices
    <2> HIDE DEF r
    <2> QED BY <2>1, <2>2, <2>3 DEF MQType
  <1>5. MqLen(r) = MqLen(q) + 1
    <2> HIDE DEF r
    <2> QED BY <1>2, <1>3 DEF MqLen, SlotOf, NextIx, MqWriteOkay
  <1>6. \A i \in 1..MqLen(q) : SlotOf(r, i) = SlotOf(q, i) /\ SlotOf(q, i) # q.put
    <2> HIDE DEF r
    <2> QED BY <1>2, <1>3 DEF MqLen, SlotOf, NextIx, MqWriteOkay
  <1>7. SlotOf(r, MqLen(q) + 1) = q.put
    <2> HIDE DEF r
    <2> QED BY <1>2, <1>3 DEF MqLen, SlotOf, NextIx, MqWriteOkay
  <1> QED BY <1>3, <1>4, <1>5, <1>6, <1>7

(* A pushback that finds room fills the slot before the first of the queue.    *)
LEMMA PushbackSlots ==
  ASSUME NEW q \in MQType, NEW m \in Msg, Slots(q), MqPushbackOkay(q)
  PROVE  /\ MqPushback(q, m) \in MQType
         /\ MqLen(MqPushback(q, m)) = MqLen(q) + 1
         /\ \A i \in 1..MqLen(q) : /\ SlotOf(MqPushback(q, m), i + 1) = SlotOf(q, i)
                                   /\ SlotOf(q, i) # PrevIx(q, q.get)
         /\ SlotOf(MqPushback(q, m), 1) = PrevIx(q, q.get)
         /\ MqPushback(q, m).ring = [q.ring EXCEPT ![PrevIx(q, q.get)] = m]
         /\ MqPushback(q, m).pushback = TRUE
  <1> DEFINE r == MqPushback(q, m)
  <1>1. r = [q EXCEPT !.ring     = [q.ring EXCEPT ![PrevIx(q, q.get)] = m],
                      !.get      = PrevIx(q, q.get),
                      !.pushback = TRUE]
    BY DEF MqPushback
  <1>2. Depth \in Nat /\ Depth > 0 /\ q.nbr = Depth
        /\ q.get \in Nat /\ q.get < Depth /\ q.put \in Nat /\ q.put < Depth
    BY Fields
  <1>3. /\ r.ring = [q.ring EXCEPT ![PrevIx(q, q.get)] = m]
        /\ r.get = PrevIx(q, q.get)
        /\ r.put = q.put
        /\ r.nbr = q.nbr
        /\ r.pushback = TRUE
    BY <1>1 DEF MQType
  <1>4. r \in MQType
    <2>1. r = [ring |-> r.ring, nbr |-> r.nbr, get |-> r.get, put |-> r.put,
               pushback |-> r.pushback]
      BY <1>1 DEF MQType
    <2>2. r.ring \in [0..Depth-1 -> Msg \cup {NULL}] /\ r.pushback \in BOOLEAN
      <3>1. r.pushback \in BOOLEAN
        BY <1>3
      <3>2. q.ring \in [0..Depth-1 -> Msg \cup {NULL}] /\ PrevIx(q, q.get) \in 0..Depth-1
        BY Fields, Indices
      <3>3. [q.ring EXCEPT ![PrevIx(q, q.get)] = m] \in [0..Depth-1 -> Msg \cup {NULL}]
        BY <3>2
      <3> QED BY <1>3, <3>1, <3>3
    <2>3. r.nbr \in {Depth} /\ r.get \in 0..Depth-1 /\ r.put \in 0..Depth-1
      BY <1>2, <1>3, Indices
    <2> HIDE DEF r
    <2> QED BY <2>1, <2>2, <2>3 DEF MQType
  <1>5. MqLen(r) = MqLen(q) + 1
    <2> HIDE DEF r
    <2> QED BY <1>2, <1>3 DEF MqLen, SlotOf, PrevIx, MqPushbackOkay
  <1>6. \A i \in 1..MqLen(q) : /\ SlotOf(r, i + 1) = SlotOf(q, i)
                               /\ SlotOf(q, i) # PrevIx(q, q.get)
    <2> HIDE DEF r
    <2> QED BY <1>2, <1>3 DEF MqLen, SlotOf, PrevIx, MqPushbackOkay
  <1>7. SlotOf(r, 1) = PrevIx(q, q.get)
    <2> HIDE DEF r
    <2> QED BY <1>2, <1>3 DEF MqLen, SlotOf, PrevIx, MqPushbackOkay
  <1> QED BY <1>3, <1>4, <1>5, <1>6, <1>7

(* A read moves get past the first slot of a queue that is not empty.          *)
LEMMA ReadSlots ==
  ASSUME NEW q \in MQType, Slots(q), ~MqEmpty(q)
  PROVE  /\ MqRead(q) \in MQType
         /\ MqLen(MqRead(q)) = MqLen(q) - 1
         /\ \A i \in 1..MqLen(q)-1 : SlotOf(MqRead(q), i) = SlotOf(q, i + 1)
         /\ MqHead(q) = q.ring[SlotOf(q, 1)]
         /\ MqRead(q).ring = q.ring
         /\ MqRead(q).pushback = q.pushback
  <1> DEFINE r == MqRead(q)
  <1>1. r = [q EXCEPT !.get = NextIx(q, q.get)]
    BY DEF MqRead
  <1>2. Depth \in Nat /\ Depth > 0 /\ q.nbr = Depth
        /\ q.get \in Nat /\ q.get < Depth /\ q.put \in Nat /\ q.put < Depth
    BY Fields
  <1>3. /\ r.ring = q.ring
        /\ r.get = NextIx(q, q.get)
        /\ r.put = q.put
        /\ r.nbr = q.nbr
        /\ r.pushback = q.pushback
    BY <1>1 DEF MQType
  <1>4. r \in MQType
    <2>1. r = [ring |-> r.ring, nbr |-> r.nbr, get |-> r.get, put |-> r.put,
               pushback |-> r.pushback]
      BY <1>1 DEF MQType
    <2>2. r.ring \in [0..Depth-1 -> Msg \cup {NULL}] /\ r.pushback \in BOOLEAN
      BY <1>3, Fields, Indices
    <2>3. r.nbr \in {Depth} /\ r.get \in 0..Depth-1 /\ r.put \in 0..Depth-1
      BY <1>2, <1>3, Indices
    <2> HIDE DEF r
    <2> QED BY <2>1, <2>2, <2>3 DEF MQType
  <1>5. MqLen(r) = MqLen(q) - 1
    <2> HIDE DEF r
    <2> QED BY <1>2, <1>3 DEF MqLen, SlotOf, NextIx, MqEmpty, MqHead
  <1>6. \A i \in 1..MqLen(q)-1 : SlotOf(r, i) = SlotOf(q, i + 1)
    <2> HIDE DEF r
    <2> QED BY <1>2, <1>3 DEF MqLen, SlotOf, NextIx, MqEmpty, MqHead
  <1>7. MqHead(q) = q.ring[SlotOf(q, 1)]
    <2> HIDE DEF r
    <2> QED BY <1>2, <1>3 DEF MqLen, SlotOf, NextIx, MqEmpty, MqHead
  <1> QED BY <1>3, <1>4, <1>5, <1>6, <1>7

(* A read of a queue that is empty changes nothing; a refused write or         *)
(* pushback neither.  CheckAndClear and Clear move no message.                 *)
LEMMA ClearSlots ==
  ASSUME NEW q \in MQType
  PROVE  /\ MqClear(q) \in MQType
         /\ MqLen(MqClear(q)) = 0
         /\ MqClear(q).pushback = FALSE
         /\ MqCheckAndClear(q) \in MQType
         /\ MqLen(MqCheckAndClear(q)) = MqLen(q)
         /\ \A i \in 1..MqLen(q) : SlotOf(MqCheckAndClear(q), i) = SlotOf(q, i)
         /\ MqCheckAndClear(q).ring = q.ring
         /\ MqCheckAndClear(q).pushback = FALSE
  <1>1. MqClear(q) \in MQType /\ MqClear(q).pushback = FALSE
    BY Fields DEF MQType, MqClear
  <1>2. MqClear(q).get = MqClear(q).put /\ MqClear(q).put = q.put
    BY DEF MQType, MqClear
  <1>3. MqLen(MqClear(q)) = 0
    BY <1>2, Fields DEF MqLen
  <1>4. /\ MqCheckAndClear(q) \in MQType
        /\ MqCheckAndClear(q).ring = q.ring
        /\ MqCheckAndClear(q).get = q.get
        /\ MqCheckAndClear(q).put = q.put
        /\ MqCheckAndClear(q).nbr = q.nbr
        /\ MqCheckAndClear(q).pushback = FALSE
    BY DEF MQType, MqCheckAndClear
  <1> QED BY <1>1, <1>3, <1>4 DEF MqLen, SlotOf

-------------------------------------------------------------------------------
(* The contents of a queue are a sequence of messages; what each operation     *)
(* does to them is what the deque does.                                        *)
LEMMA ContentsType ==
  ASSUME NEW q \in MQType, Slots(q)
  PROVE  /\ Contents(q) \in Seq(Msg)
         /\ Len(Contents(q)) = MqLen(q)
         /\ \A i \in 1..MqLen(q) : Contents(q)[i] = q.ring[SlotOf(q, i)]
  <1>1. MqLen(q) \in Nat
    BY Fields, Indices
  <1>2. Contents(q) \in [1..MqLen(q) -> Msg]
    BY DEF Contents, Slots
  <1> QED BY <1>1, <1>2 DEF Contents

LEMMA WriteContents ==
  ASSUME NEW q \in MQType, NEW m \in Msg, Slots(q), MqWriteOkay(q)
  PROVE  /\ MqWrite(q, m) \in MQType
         /\ Slots(MqWrite(q, m))
         /\ Contents(MqWrite(q, m)) = Append(Contents(q), m)
  <1> DEFINE r == MqWrite(q, m)
  <1>1. /\ r \in MQType
        /\ MqLen(r) = MqLen(q) + 1
        /\ \A i \in 1..MqLen(q) : SlotOf(r, i) = SlotOf(q, i) /\ SlotOf(q, i) # q.put
        /\ SlotOf(r, MqLen(q) + 1) = q.put
        /\ r.ring = [q.ring EXCEPT ![q.put] = m]
    BY WriteSlots
  <1> HIDE DEF r
  <1>2. MqLen(q) \in Nat /\ \A i \in 1..MqLen(q) : SlotOf(q, i) \in 0..Depth-1
    BY Indices, Fields
  <1>3. q.ring \in [0..Depth-1 -> Msg \cup {NULL}] /\ q.put \in 0..Depth-1
    BY Fields
  <1>4. r.ring[SlotOf(r, MqLen(q) + 1)] = m
    BY <1>1, <1>3
  <1>5. \A i \in 1..MqLen(q) : r.ring[SlotOf(r, i)] = q.ring[SlotOf(q, i)]
    BY <1>1, <1>2, <1>3
  <1>6. Slots(r)
    BY <1>1, <1>2, <1>4, <1>5 DEF Slots
  <1>7. Contents(r) = Append(Contents(q), m)
    <2>1. Append(Contents(q), m) \in Seq(Msg) /\ Len(Append(Contents(q), m)) = MqLen(q) + 1
      BY ContentsType, AppendProperties, <1>2
    <2>2. /\ Contents(q) \in Seq(Msg) /\ Len(Contents(q)) = MqLen(q)
          /\ \A i \in 1..MqLen(q) : Contents(q)[i] = q.ring[SlotOf(q, i)]
      BY ContentsType
    <2>3. /\ Contents(r) \in Seq(Msg) /\ Len(Contents(r)) = MqLen(q) + 1
          /\ \A i \in 1..MqLen(q)+1 : Contents(r)[i] = r.ring[SlotOf(r, i)]
      BY <1>1, <1>6, ContentsType
    <2>4. ASSUME NEW i \in 1..MqLen(q)+1
          PROVE  Contents(r)[i] = Append(Contents(q), m)[i]
      <3>1. CASE i <= MqLen(q)
        <4>0. i \in 1..MqLen(q)
          BY <3>1, <1>2
        <4>1. Append(Contents(q), m)[i] = Contents(q)[i]
          BY <4>0, <2>2, AppendProperties
        <4>2. Contents(r)[i] = Contents(q)[i]
          BY <4>0, <2>2, <2>3, <1>5
        <4> QED BY <4>1, <4>2
      <3>2. CASE i = MqLen(q) + 1
        BY <3>2, <2>2, <2>3, <1>4, AppendProperties
      <3>3. i <= MqLen(q) \/ i = MqLen(q) + 1
        BY <1>2
      <3> QED BY <3>1, <3>2, <3>3
    <2> QED BY <2>1, <2>3, <2>4, SeqEqual
  <1> QED BY <1>1, <1>6, <1>7 DEF r

LEMMA PushbackContents ==
  ASSUME NEW q \in MQType, NEW m \in Msg, Slots(q), MqPushbackOkay(q)
  PROVE  /\ MqPushback(q, m) \in MQType
         /\ Slots(MqPushback(q, m))
         /\ MqPushback(q, m).pushback = TRUE
         /\ Contents(MqPushback(q, m)) = <<m>> \o Contents(q)
  <1> DEFINE r == MqPushback(q, m)
             w == PrevIx(q, q.get)
  <1>1. /\ r \in MQType
        /\ MqLen(r) = MqLen(q) + 1
        /\ \A i \in 1..MqLen(q) : SlotOf(r, i + 1) = SlotOf(q, i) /\ SlotOf(q, i) # w
        /\ SlotOf(r, 1) = w
        /\ r.ring = [q.ring EXCEPT ![w] = m]
        /\ r.pushback = TRUE
    BY PushbackSlots
  <1>2. MqLen(q) \in Nat /\ \A i \in 1..MqLen(q) : SlotOf(q, i) \in 0..Depth-1
    BY Indices, Fields
  <1>3. q.ring \in [0..Depth-1 -> Msg \cup {NULL}] /\ w \in 0..Depth-1
    BY Fields, Indices
  <1> HIDE DEF r, w
  <1>4. r.ring[SlotOf(r, 1)] = m
    BY <1>1, <1>3
  <1>5. \A i \in 1..MqLen(q) : r.ring[SlotOf(r, i + 1)] = q.ring[SlotOf(q, i)]
    BY <1>1, <1>2, <1>3
  <1>6. \A i \in 2..MqLen(q)+1 : r.ring[SlotOf(r, i)] = q.ring[SlotOf(q, i - 1)]
    <2>1. TAKE i \in 2..MqLen(q)+1
    <2>2. i - 1 \in 1..MqLen(q) /\ (i - 1) + 1 = i
      BY <1>2
    <2> QED BY <1>5, <2>2
  <1>7. Slots(r)
    <2>1. ASSUME NEW i \in 1..MqLen(r) PROVE r.ring[SlotOf(r, i)] \in Msg
      <3>1. CASE i = 1
        BY <3>1, <1>4
      <3>2. CASE i # 1
        <4>1. i \in 2..MqLen(q)+1 /\ i - 1 \in 1..MqLen(q)
          BY <3>2, <1>1, <1>2
        <4> QED BY <4>1, <1>6 DEF Slots
      <3> QED BY <3>1, <3>2
    <2> QED BY <2>1 DEF Slots
  <1>8. Contents(r) = <<m>> \o Contents(q)
    <2>1. /\ <<m>> \in Seq(Msg) /\ Len(<<m>>) = 1 /\ <<m>>[1] = m
          /\ Contents(q) \in Seq(Msg) /\ Len(Contents(q)) = MqLen(q)
      BY ContentsType
    <2>2. /\ <<m>> \o Contents(q) \in Seq(Msg)
          /\ Len(<<m>> \o Contents(q)) = MqLen(q) + 1
          /\ \A i \in 1..MqLen(q)+1 : (<<m>> \o Contents(q))[i] =
                IF i <= 1 THEN <<m>>[i] ELSE Contents(q)[i - 1]
      BY <2>1, <1>2, ConcatProperties
    <2>3. ASSUME NEW i \in 1..MqLen(q)+1
          PROVE  Contents(r)[i] = (<<m>> \o Contents(q))[i]
      <3>1. Contents(r)[i] = r.ring[SlotOf(r, i)]
        BY <1>1, <1>7, ContentsType
      <3>2. CASE i = 1
        BY <3>1, <3>2, <2>1, <2>2, <1>4
      <3>3. CASE i # 1
        <4>1. i \in 2..MqLen(q)+1 /\ i - 1 \in 1..MqLen(q) /\ ~(i <= 1)
          BY <3>3, <1>2
        <4>2. Contents(q)[i - 1] = q.ring[SlotOf(q, i - 1)]
          BY <4>1, ContentsType
        <4> QED BY <3>1, <4>1, <4>2, <1>6, <2>2
      <3> QED BY <3>2, <3>3
    <2>4. Contents(r) \in Seq(Msg) /\ Len(Contents(r)) = MqLen(q) + 1
      BY <1>1, <1>7, ContentsType
    <2> QED BY <2>2, <2>3, <2>4, SeqEqual
  <1> QED BY <1>1, <1>7, <1>8 DEF r

LEMMA ReadContents ==
  ASSUME NEW q \in MQType, Slots(q), ~MqEmpty(q)
  PROVE  /\ MqRead(q) \in MQType
         /\ Slots(MqRead(q))
         /\ MqRead(q).pushback = q.pushback
         /\ Contents(q) # <<>>
         /\ MqHead(q) = Head(Contents(q))
         /\ MqHead(q) \in Msg
         /\ Contents(MqRead(q)) = Tail(Contents(q))
  <1> DEFINE r == MqRead(q)
  <1>1. /\ r \in MQType
        /\ MqLen(r) = MqLen(q) - 1
        /\ \A i \in 1..MqLen(q)-1 : SlotOf(r, i) = SlotOf(q, i + 1)
        /\ MqHead(q) = q.ring[SlotOf(q, 1)]
        /\ r.ring = q.ring
        /\ r.pushback = q.pushback
    BY ReadSlots
  <1>2. MqLen(q) \in Nat /\ MqLen(q) > 0
    BY Indices, Fields
  <1> HIDE DEF r
  <1>3. \A i \in 1..MqLen(r) : i + 1 \in 1..MqLen(q) /\ i \in 1..MqLen(q)-1
    BY <1>1, <1>2
  <1>4. Slots(r)
    BY <1>1, <1>3 DEF Slots
  <1>5. /\ Contents(q) \in Seq(Msg) /\ Len(Contents(q)) = MqLen(q)
        /\ \A i \in 1..MqLen(q) : Contents(q)[i] = q.ring[SlotOf(q, i)]
    BY ContentsType
  <1>6. Contents(q) # <<>>
    BY <1>2, <1>5
  <1>7. MqHead(q) = Head(Contents(q)) /\ MqHead(q) \in Msg
    <2>1. 1 \in 1..MqLen(q)
      BY <1>2
    <2>2. Head(Contents(q)) = Contents(q)[1]
      BY <1>5, <1>6, HeadTailProperties
    <2> QED BY <2>1, <2>2, <1>1, <1>5 DEF Slots
  <1>8. Contents(r) = Tail(Contents(q))
    <2>1. /\ Tail(Contents(q)) \in Seq(Msg)
          /\ Len(Tail(Contents(q))) = MqLen(q) - 1
          /\ \A i \in 1..MqLen(q)-1 : Tail(Contents(q))[i] = Contents(q)[i + 1]
      BY <1>5, <1>6, HeadTailProperties
    <2>2. /\ Contents(r) \in Seq(Msg) /\ Len(Contents(r)) = MqLen(q) - 1
          /\ \A i \in 1..MqLen(r) : Contents(r)[i] = r.ring[SlotOf(r, i)]
      BY <1>1, <1>4, ContentsType
    <2>3. \A i \in 1..MqLen(q)-1 : Contents(r)[i] = Tail(Contents(q))[i]
      BY <1>1, <1>3, <1>5, <2>1, <2>2
    <2> QED BY <2>1, <2>2, <2>3, SeqEqual
  <1> QED BY <1>1, <1>4, <1>6, <1>7, <1>8 DEF r
-------------------------------------------------------------------------------
(* TypeOK, in the terms of the lemmas.                                         *)
LEMMA TypeOKSplit ==
  TypeOK <=> mq \in MQType /\ Slots(mq) /\ okay \in BOOLEAN /\ got \in Seq(Msg)
  BY DEF TypeOK, MQType, Slots

LEMMA InitOK == Init => TypeOK /\ Contents(mq) = <<>>
  <1> SUFFICES ASSUME Init PROVE TypeOK /\ Contents(mq) = <<>>
    OBVIOUS
  <1>1. mq \in MQType /\ mq.get = 0 /\ mq.put = 0
    BY DepthAssumption DEF Init, MqInit, MQType
  <1>2. MqLen(mq) = 0
    BY <1>1 DEF MqLen
  <1>3. Slots(mq)
    BY <1>2 DEF Slots
  <1>4. Contents(mq) = <<>>
    BY <1>1, <1>2, <1>3, ContentsType
  <1>5. okay \in BOOLEAN /\ got \in Seq(Msg)
    BY DEF Init
  <1> QED BY <1>1, <1>3, <1>4, <1>5, TypeOKSplit

(* A step keeps the type invariant and is a step of the deque: one case for    *)
(* each function of mq.c, and under it the case where the call is refused.     *)
LEMMA StepOK == TypeOK /\ [Next]_vars => TypeOK' /\ [Abstract!Next]_(Abstract!vars)
  <1> SUFFICES ASSUME TypeOK, [Next]_vars
               PROVE  TypeOK' /\ [Abstract!Next]_(Abstract!vars)
    OBVIOUS
  <1> USE DEF Abstract!Next, Abstract!vars
  <1>1. mq \in MQType /\ Slots(mq) /\ okay \in BOOLEAN /\ got \in Seq(Msg)
    BY TypeOKSplit
  <1>2. /\ Contents(mq) \in Seq(Msg)
        /\ Len(Contents(mq)) = MqLen(mq)
        /\ Len(Contents(mq)) < Depth - 1 <=> MqWriteOkay(mq)
        /\ Len(Contents(mq)) < Depth - 1 <=> MqPushbackOkay(mq)
        /\ Contents(mq) = <<>> <=> MqEmpty(mq)
    BY <1>1, ContentsType, Indices, Fields, EmptySeq
  <1>3. ASSUME NEW m \in Msg, Write(m) PROVE TypeOK' /\ Abstract!Write(m)
    <2>1. CASE MqWriteOkay(mq)
      <3>1. mq' \in MQType /\ Slots(mq') /\ Contents(mq') = Append(Contents(mq), m)
        BY <1>1, <1>3, <2>1, WriteContents DEF Write
      <3>2. mq'.pushback = mq.pushback /\ okay' = TRUE /\ got' = <<>>
        BY <1>1, <1>3, <2>1, WriteSlots DEF Write
      <3> QED BY <1>2, <2>1, <3>1, <3>2 DEF Abstract!Write, Abstract!Room, TypeOK, MQType, Slots
    <2>2. CASE ~MqWriteOkay(mq)
      <3>1. mq' = mq /\ okay' = FALSE /\ got' = <<>>
        BY <1>3, <2>2 DEF Write, MqWrite
      <3>2. TypeOK'
        <4>1. mq' \in MQType /\ Slots(mq')
          BY <1>1, <3>1
        <4>2. okay' \in BOOLEAN
          BY <3>1
        <4>3. got' \in Seq(Msg)
          BY <3>1
        <4> QED BY <4>1, <4>2, <4>3 DEF TypeOK, MQType, Slots
      <3>3. Contents(mq)' = Contents(mq) /\ mq.pushback' = mq.pushback
        BY <3>1
      <3> QED BY <1>2, <2>2, <3>1, <3>2, <3>3 DEF Abstract!Write, Abstract!Room
    <2> QED BY <2>1, <2>2
  <1>4. ASSUME NEW m \in Msg, Pushback(m) PROVE TypeOK' /\ Abstract!Pushback(m)
    <2>1. CASE MqPushbackOkay(mq)
      <3>1. /\ mq' \in MQType /\ Slots(mq') /\ mq'.pushback = TRUE
            /\ Contents(mq') = <<m>> \o Contents(mq)
        BY <1>1, <1>4, <2>1, PushbackContents DEF Pushback
      <3>2. okay' = TRUE /\ got' = <<>>
        BY <1>4, <2>1 DEF Pushback
      <3> QED BY <1>2, <2>1, <3>1, <3>2 DEF Abstract!Pushback, Abstract!Room, TypeOK, MQType, Slots
    <2>2. CASE ~MqPushbackOkay(mq)
      <3>1. mq' = mq /\ okay' = FALSE /\ got' = <<>>
        BY <1>4, <2>2 DEF Pushback, MqPushback
      <3>2. TypeOK'
        <4>1. mq' \in MQType /\ Slots(mq')
          BY <1>1, <3>1
        <4>2. okay' \in BOOLEAN
          BY <3>1
        <4>3. got' \in Seq(Msg)
          BY <3>1
        <4> QED BY <4>1, <4>2, <4>3 DEF TypeOK, MQType, Slots
      <3>3. Contents(mq)' = Contents(mq) /\ mq.pushback' = mq.pushback
        BY <3>1
      <3> QED BY <1>2, <1>4, <2>2, <3>1, <3>2, <3>3 DEF Pushback, Abstract!Pushback, Abstract!Room
    <2> QED BY <2>1, <2>2
  <1>5. ASSUME Read PROVE TypeOK' /\ Abstract!Read
    <2>1. CASE MqEmpty(mq)
      <3>1. mq' = mq /\ okay' = FALSE /\ got' = <<>>
        BY <1>5, <2>1 DEF Read, MqRead
      <3> QED BY <1>1, <1>2, <2>1, <3>1 DEF Abstract!Read, TypeOK, MQType, Slots
    <2>2. CASE ~MqEmpty(mq)
      <3>1. /\ mq' \in MQType /\ Slots(mq') /\ mq'.pushback = mq.pushback
            /\ MqHead(mq) = Head(Contents(mq)) /\ MqHead(mq) \in Msg
            /\ Contents(mq') = Tail(Contents(mq))
        BY <1>1, <1>5, <2>2, ReadContents DEF Read
      <3>2. okay' = TRUE /\ got' = <<MqHead(mq)>>
        BY <1>5, <2>2 DEF Read
      <3> QED BY <1>2, <2>2, <3>1, <3>2 DEF Abstract!Read, TypeOK, MQType, Slots
    <2> QED BY <2>1, <2>2
  <1>6. ASSUME CheckAndClear PROVE TypeOK' /\ Abstract!CheckAndClear
    <2>1. /\ mq' \in MQType /\ mq'.ring = mq.ring /\ mq'.pushback = FALSE
          /\ MqLen(mq') = MqLen(mq)
          /\ \A i \in 1..MqLen(mq) : SlotOf(mq', i) = SlotOf(mq, i)
      BY <1>1, <1>6, ClearSlots DEF CheckAndClear
    <2>2. Slots(mq')
      BY <1>1, <2>1 DEF Slots
    <2>3. Contents(mq') = Contents(mq)
      BY <2>1 DEF Contents
    <2>4. okay' = mq.pushback /\ got' = <<>> /\ mq.pushback \in BOOLEAN
      BY <1>1, <1>6, Fields DEF CheckAndClear
    <2> QED BY <2>1, <2>2, <2>3, <2>4 DEF Abstract!CheckAndClear, TypeOK, MQType, Slots
  <1>7. ASSUME Clear PROVE TypeOK' /\ Abstract!Clear
    <2>1. mq' \in MQType /\ MqLen(mq') = 0 /\ mq'.pushback = FALSE
      BY <1>1, <1>7, ClearSlots DEF Clear
    <2>2. Slots(mq')
      BY <2>1 DEF Slots
    <2>3. Contents(mq') = <<>>
      BY <2>1, <2>2, ContentsType
    <2>4. okay' = TRUE /\ got' = Contents(mq)
      BY <1>7 DEF Clear
    <2> QED BY <1>2, <2>1, <2>2, <2>3, <2>4 DEF Abstract!Clear, TypeOK, MQType, Slots
  <1>8. CASE UNCHANGED vars
    <2>1. TypeOK'
      BY <1>1, <1>8 DEF vars, TypeOK, MQType, Slots
    <2>2. UNCHANGED Abstract!vars
      BY <1>8 DEF vars
    <2> QED BY <2>1, <2>2
  <1> QED BY <1>3, <1>4, <1>5, <1>6, <1>7, <1>8 DEF Next

(* Every reachable state of an MQ is well typed and each slot from get up to   *)
(* put holds a message: mq_read never returns an uninitialised pointer.        *)
THEOREM TypeCorrect == Spec => []TypeOK
  <1>1. Init => TypeOK
    BY InitOK
  <1>2. TypeOK /\ [Next]_vars => TypeOK'
    BY StepOK
  <1> QED BY <1>1, <1>2, PTL DEF Spec

(* The ring of mq.c implements the bounded deque, for every depth of a byte    *)
(* and every set of messages.                                                  *)
THEOREM Refinement == Spec => ImplementsDeque
  <1>1. Init => Abstract!Init
    BY InitOK, DepthAssumption DEF Init, MqInit, Abstract!Init
  <1>2. TypeOK /\ [Next]_vars => [Abstract!Next]_(Abstract!vars)
    BY StepOK
  <1> QED BY <1>1, <1>2, TypeCorrect, PTL DEF Spec, ImplementsDeque, Abstract!Spec
===============================================================================
