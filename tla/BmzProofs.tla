------------------------------- MODULE BmzProofs -------------------------------
(* Proofs about Bmz, for any number of sockets and any sizes: whatever the     *)
(* applications, the peers and the timers do, every message of the shared pool *)
(* that is in use waits in one queue, and no write to a queue is ever refused. *)
EXTENDS Bmz, SequenceTheorems, FiniteSetTheorems, WellFoundedInduction, TLAPS

(* A message in use has at least its type byte, or what is left without it.    *)
Filled == \A m \in inuse : body[m] # <<>>

IInv == TypeOK /\ Ownership /\ Filled

(* The two halves of TypeOK: the pool with its queues, and the sockets.        *)
PoolType == /\ inuse \subseteq Msg
            /\ body \in [Msg -> Seq(0..255)]
            /\ mq \in [Sock -> Seq(Msg)]
            /\ chars \in [Msg -> 0..MaxLen]
            /\ stale \subseteq inuse
SockType == /\ st \in [Sock -> State]
            /\ publish \in [Sock -> Publish]
            /\ buf \in [Sock -> 0..TxSize]
            /\ unacked \in [Sock -> 0..TxSize]
            /\ \A s \in Sock : unacked[s] <= buf[s]
LoopType == task \in 1..End /\ halted \in BOOLEAN

LEMMA TypeSplit == TypeOK <=> PoolType /\ SockType /\ LoopType
  BY DEF TypeOK, PoolType, SockType, LoopType

PoolInv == PoolType /\ Ownership /\ Filled

Elements(q) == {q[k] : k \in 1..Len(q)}
Distinct(q) == \A j, k \in 1..Len(q) : q[j] = q[k] => j = k

-------------------------------------------------------------------------------
(* The state machine.                                                          *)
LEMMA StateMachine ==
  ASSUME NEW st1 \in State, NEW ev
  PROVE  NextState(st1, ev) \in State
  <1>1. \A e \in Edges : e[4] \in State
    BY DEF Edges, State
  <1>2. CASE EdgeOf(st1, ev) = {}
    BY <1>2 DEF NextState
  <1>3. CASE EdgeOf(st1, ev) # {}
    <2>1. (CHOOSE e \in EdgeOf(st1, ev) : TRUE) \in EdgeOf(st1, ev)
      BY <1>3
    <2>2. EdgeOf(st1, ev) \subseteq Edges
      BY DEF EdgeOf
    <2> QED BY <1>1, <1>3, <2>1, <2>2 DEF NextState
  <1> QED BY <1>2, <1>3

LEMMA Published ==
  ASSUME NEW st1 \in State
  PROVE  PublishOf(st1) \in Publish
  BY DEF PublishOf, Publish

-------------------------------------------------------------------------------
(* A set of naturals that is not empty has a least element.                    *)
LEMMA Least ==
  ASSUME NEW T \in SUBSET Nat, T # {}
  PROVE  \E x \in T : \A y \in T : x <= y
  <1> DEFINE R == OpToRel(<, Nat)
  <1>1. IsWellFoundedOn(R, Nat) /\ T \subseteq Nat
    BY NatLessThanWellFounded
  <1>2. \A x, y \in Nat : x < y => <<x, y>> \in R
    BY DEF OpToRel
  <1> HIDE DEF R
  <1>3. PICK x \in T : \A y \in T : <<y, x>> \notin R
    BY <1>1, WFMin
  <1>4. \A y \in T : ~(y < x)
    BY <1>1, <1>2, <1>3
  <1>5. \A y \in Nat : ~(y < x) => x <= y
    BY <1>1
  <1> QED BY <1>1, <1>3, <1>4, <1>5

LEMMA FirstFreeIsFree ==
  ASSUME Free # {}
  PROVE  FirstFree \in Msg /\ FirstFree \notin inuse
  <1>1. Free \in SUBSET Nat
    BY SizeAssumption DEF Free, Msg
  <1>2. \E m \in Free : \A n \in Free : m <= n
    BY <1>1, Least
  <1>3. FirstFree \in Free
    BY <1>2 DEF FirstFree
  <1> QED BY <1>3 DEF Free

(* While a message is free a queue holds fewer than the pool has, and as its   *)
(* ring is larger than the pool, it has room.                                  *)
LEMMA QueueHasRoom ==
  ASSUME PoolInv, NEW s \in Sock, Free # {}
  PROVE  Len(mq[s]) < Depth[s] - 1
  <1> DEFINE n == Len(mq[s])
             f == [i \in 1..n |-> mq[s][i]]
  <1>1. /\ mq[s] \in Seq(Msg) /\ n \in Nat
        /\ PoolNbr \in Nat /\ Depth[s] \in Nat /\ PoolNbr < Depth[s]
    <2>1. mq[s] \in Seq(Msg)
      BY DEF PoolInv, PoolType
    <2>2. n \in Nat
      BY <2>1, LenProperties
    <2>3. Depth[s] \in Nat
      <3>1. Depth[s] \in 1..255
        BY SizeAssumption
      <3> QED BY <3>1
    <2>4. PoolNbr \in Nat /\ PoolNbr < Depth[s]
      BY SizeAssumption
    <2> HIDE DEF n
    <2> QED BY <2>1, <2>2, <2>3, <2>4
  <1>2. \A i \in 1..n : mq[s][i] \in inuse
    BY <1>1, ElementOfSeq DEF PoolInv, Ownership, Holds
  <1>3. f \in Injection(1..n, inuse)
    <2>1. f \in [1..n -> inuse]
      BY <1>2
    <2>2. \A i, j \in 1..n : f[i] = f[j] => i = j
      BY DEF PoolInv, Ownership
    <2> QED BY <2>1, <2>2 DEF Injection, IsInjective
  <1>4. IsFiniteSet(Msg) /\ Cardinality(Msg) = PoolNbr
    BY <1>1, SizeAssumption, FS_Interval DEF Msg
  <1>5. inuse \subseteq Msg /\ inuse # Msg
    BY DEF Free, PoolInv, PoolType
  <1>6. IsFiniteSet(inuse) /\ Cardinality(inuse) \in Nat /\ Cardinality(inuse) < PoolNbr
    <2>1. /\ IsFiniteSet(inuse) /\ Cardinality(inuse) <= Cardinality(Msg)
          /\ Cardinality(inuse) # Cardinality(Msg)
      BY <1>4, <1>5, FS_Subset
    <2>2. Cardinality(inuse) \in Nat
      BY <2>1, FS_CardinalityType
    <2> QED BY <1>1, <1>4, <2>1, <2>2
  <1>7. Cardinality(1..n) <= Cardinality(inuse)
    <2> HIDE DEF f
    <2> QED BY <1>3, <1>6, FS_Injection
  <1>8. Cardinality(1..n) = n
    <2>1. 1 \in Int /\ n \in Int
      BY <1>1
    <2>2. Cardinality(1..n) = IF 1 > n THEN 0 ELSE n - 1 + 1
      BY <2>1, FS_Interval
    <2> HIDE DEF n
    <2> QED BY <1>1, <2>2
  <1> HIDE DEF n
  <1> QED BY <1>1, <1>6, <1>7, <1>8 DEF n

-------------------------------------------------------------------------------
(* The queue of socket s becomes q, whose messages were in it before or were   *)
(* free; those that were in it and are not in q are free from now on.          *)
LEMMA Requeue ==
  ASSUME PoolInv, NEW s \in Sock, NEW q \in Seq(Msg), Distinct(q),
         mq' = [mq EXCEPT ![s] = q],
         \A m \in Elements(q) : m \notin inuse \/ m \in Elements(mq[s]),
         \A m \in Msg : m \in inuse' <=>
                          m \in Elements(q) \/ (m \in inuse /\ m \notin Elements(mq[s]))
  PROVE  Ownership' /\ mq' \in [Sock -> Seq(Msg)]
  <1>1. /\ mq'[s] = q
        /\ \A r \in Sock : r # s => mq'[r] = mq[r]
        /\ mq' \in [Sock -> Seq(Msg)]
    BY DEF PoolInv, PoolType
  <1>2. \A m \in Msg, r \in Sock : Holds(r, m) <=> m \in Elements(mq[r])
    BY DEF Holds, Elements
  <1>3. \A m \in Msg, r \in Sock : Holds(r, m)' <=> m \in Elements(mq'[r])
    BY DEF Holds, Elements
  <1>4. /\ \A m \in Msg : m \in inuse <=> \E r \in Sock : Holds(r, m)
        /\ \A r \in Sock : Distinct(mq[r])
        /\ \A r, u \in Sock : \A m \in Msg : Holds(r, m) /\ Holds(u, m) => r = u
    BY DEF PoolInv, Ownership, Distinct
  <1>5. \A r \in Sock : Distinct(mq'[r])
    BY <1>1, <1>4
  <1>6. \A m \in Msg, r \in Sock :
           Holds(r, m)' <=> IF r = s THEN m \in Elements(q) ELSE Holds(r, m)
    BY <1>1, <1>2, <1>3
  <1>7. \A m \in Msg, r \in Sock : r # s /\ Holds(r, m) => m \notin Elements(q)
    BY <1>2, <1>4
  <1>8. \A m \in Msg : m \in inuse' <=> \E r \in Sock : Holds(r, m)'
    BY <1>2, <1>4, <1>6
  <1>9. \A r, u \in Sock : \A m \in Msg : Holds(r, m)' /\ Holds(u, m)' => r = u
    BY <1>4, <1>6, <1>7
  <1> QED BY <1>1, <1>5, <1>8, <1>9 DEF Ownership, Distinct

LEMMA AppendQueue ==
  ASSUME NEW q \in Seq(Msg), NEW m \in Msg, Distinct(q), m \notin Elements(q)
  PROVE  /\ Append(q, m) \in Seq(Msg)
         /\ Distinct(Append(q, m))
         /\ Elements(Append(q, m)) = Elements(q) \cup {m}
  <1> DEFINE r == Append(q, m)
  <1>1. /\ r \in Seq(Msg) /\ Len(r) = Len(q) + 1 /\ Len(q) \in Nat
        /\ r[Len(q) + 1] = m /\ \A j \in 1..Len(q) : r[j] = q[j]
    BY AppendProperties, LenProperties
  <1> HIDE DEF r
  <1>2. \A j \in 1..Len(r) : j = Len(q) + 1 \/ j \in 1..Len(q)
    BY <1>1
  <1>3. /\ Len(q) + 1 \in 1..Len(r)
        /\ \A j \in 1..Len(q) : j \in 1..Len(r)
    BY <1>1
  <1>4. Distinct(r)
    BY <1>1, <1>2 DEF Distinct, Elements
  <1>5. \A x : x \in Elements(r) <=> x = m \/ x \in Elements(q)
    BY <1>1, <1>2, <1>3 DEF Elements
  <1> QED BY <1>1, <1>4, <1>5 DEF r

LEMMA TailQueue ==
  ASSUME NEW q \in Seq(Msg), q # <<>>, Distinct(q)
  PROVE  /\ Head(q) \in Elements(q)
         /\ Tail(q) \in Seq(Msg)
         /\ Distinct(Tail(q))
         /\ Elements(Tail(q)) = Elements(q) \ {Head(q)}
  <1> DEFINE r == Tail(q)
  <1>1. /\ r \in Seq(Msg) /\ Len(r) = Len(q) - 1 /\ Len(q) \in Nat /\ Len(q) > 0
        /\ \A j \in 1..Len(r) : r[j] = q[j + 1]
        /\ Head(q) = q[1]
    BY HeadTailProperties, LenProperties, EmptySeq
  <1> HIDE DEF r
  <1>2. /\ 1 \in 1..Len(q)
        /\ \A j \in 1..Len(r) : j + 1 \in 1..Len(q) /\ j + 1 # 1
        /\ \A j \in 1..Len(q) : j = 1 \/ (j - 1 \in 1..Len(r) /\ r[j - 1] = q[j])
    BY <1>1
  <1>3. Distinct(r)
    <2>1. ASSUME NEW j \in 1..Len(r), NEW k \in 1..Len(r), r[j] = r[k]
          PROVE  j = k
      <3>1. q[j + 1] = q[k + 1]
        BY <1>1, <2>1
      <3>2. j + 1 = k + 1
        BY <1>2, <3>1 DEF Distinct
      <3> QED BY <1>1, <3>2
    <2> QED BY <2>1 DEF Distinct
  <1>4. \A x \in Elements(r) : x \in Elements(q) /\ x # q[1]
    BY <1>1, <1>2 DEF Elements, Distinct
  <1>5. \A x \in Elements(q) : x = q[1] \/ x \in Elements(r)
    BY <1>1, <1>2 DEF Elements
  <1> QED BY <1>1, <1>2, <1>3, <1>4, <1>5 DEF r, Elements

(* The messages in a queue are in use.                                         *)
LEMMA QueuedInUse ==
  ASSUME PoolInv, NEW s \in Sock
  PROVE  Elements(mq[s]) \subseteq inuse /\ mq[s] \in Seq(Msg) /\ Distinct(mq[s])
  <1>1. mq[s] \in Seq(Msg)
    BY DEF PoolInv, PoolType
  <1>2. \A i \in 1..Len(mq[s]) : mq[s][i] \in Msg
    BY <1>1, ElementOfSeq
  <1> QED BY <1>1, <1>2 DEF PoolInv, Ownership, Holds, Elements, Distinct

-------------------------------------------------------------------------------
(* A new message is put into a queue that has room for it.                     *)
LEMMA PostInv ==
  ASSUME PoolInv, NEW s \in Sock, NEW bytes \in Seq(0..255), bytes # <<>>,
         NEW n \in 0..MaxLen, Post(s, bytes, n)
  PROVE  PoolInv'
  <1> DEFINE m == FirstFree
  <1>1. Free # {} /\ m \in Msg /\ m \notin inuse
    BY FirstFreeIsFree DEF Post
  <1>2. Len(mq[s]) < Depth[s] - 1
    BY <1>1, QueueHasRoom
  <1>3. /\ inuse' = inuse \cup {m}
        /\ body' = [body EXCEPT ![m] = bytes]
        /\ mq' = [mq EXCEPT ![s] = Append(mq[s], m)]
        /\ chars' = [chars EXCEPT ![m] = n]
        /\ stale' = stale \ {m}
    BY <1>2 DEF Post, PoolInv, PoolType
  <1> HIDE DEF m
  <1>4. Elements(mq[s]) \subseteq inuse /\ mq[s] \in Seq(Msg) /\ Distinct(mq[s])
    BY QueuedInUse
  <1> DEFINE q == Append(mq[s], m)
  <1>5. q \in Seq(Msg) /\ Distinct(q) /\ Elements(q) = Elements(mq[s]) \cup {m}
    BY <1>1, <1>4, AppendQueue
  <1>6. Ownership' /\ mq' \in [Sock -> Seq(Msg)]
    <2>1. mq' = [mq EXCEPT ![s] = q]
      BY <1>3
    <2> HIDE DEF q
    <2>2. \A x \in Elements(q) : x \notin inuse \/ x \in Elements(mq[s])
      BY <1>1, <1>5
    <2>3. \A x \in Msg : x \in inuse' <=>
                          x \in Elements(q) \/ (x \in inuse /\ x \notin Elements(mq[s]))
      BY <1>3, <1>4, <1>5
    <2> QED BY <1>5, <2>1, <2>2, <2>3, Requeue
  <1>7. PoolType'
    BY <1>1, <1>3, <1>6 DEF PoolInv, PoolType
  <1>8. Filled'
    BY <1>1, <1>3 DEF PoolInv, PoolType, Filled
  <1> QED BY <1>6, <1>7, <1>8 DEF PoolInv

(* The message at the head of a queue is freed.                                *)
LEMMA DoneInv ==
  ASSUME PoolInv, NEW s \in Sock, mq[s] # <<>>, Done(s, Head(mq[s]))
  PROVE  PoolInv'
  <1> DEFINE m == Head(mq[s])
             q == Tail(mq[s])
  <1>1. Elements(mq[s]) \subseteq inuse /\ mq[s] \in Seq(Msg) /\ Distinct(mq[s])
    BY QueuedInUse
  <1>2. /\ m \in Elements(mq[s])
        /\ q \in Seq(Msg) /\ Distinct(q) /\ Elements(q) = Elements(mq[s]) \ {m}
    BY <1>1, TailQueue
  <1>3. /\ inuse' = inuse \ {m}
        /\ body' = [body EXCEPT ![m] = <<>>]
        /\ mq' = [mq EXCEPT ![s] = q]
        /\ chars' = [chars EXCEPT ![m] = 0]
        /\ stale' = stale \ {m}
    BY DEF Done, PoolInv, PoolType
  <1> HIDE DEF m, q
  <1>4. Ownership' /\ mq' \in [Sock -> Seq(Msg)]
    <2>1. \A x \in Elements(q) : x \notin inuse \/ x \in Elements(mq[s])
      BY <1>2
    <2>2. \A x \in Msg : x \in inuse' <=>
                          x \in Elements(q) \/ (x \in inuse /\ x \notin Elements(mq[s]))
      BY <1>1, <1>2, <1>3
    <2> QED BY <1>2, <1>3, <2>1, <2>2, Requeue
  <1>5. PoolType'
    <2>1. <<>> \in Seq(0..255) /\ 0 \in 0..MaxLen
      BY SizeAssumption, EmptySeq
    <2> QED BY <1>3, <1>4, <2>1 DEF PoolInv, PoolType
  <1>6. Filled'
    BY <1>3 DEF PoolInv, PoolType, Filled
  <1> QED BY <1>4, <1>5, <1>6 DEF PoolInv

-------------------------------------------------------------------------------
(* What a handler makes of its socket keeps its types.                         *)
LEMMA BecomesType ==
  ASSUME SockType, NEW s \in Sock, NEW st2 \in State, NEW b \in 0..TxSize,
         Becomes(s, st2, b)
  PROVE  SockType'
  <1>1. TxSize \in Nat
    BY SizeAssumption
  <1>2. st' \in [Sock -> State]
    BY DEF Becomes, SockType
  <1>3. publish' \in [Sock -> Publish]
    BY Published DEF Becomes, SockType
  <1>4. buf' \in [Sock -> 0..TxSize] /\ \A r \in Sock : r # s => buf'[r] = buf[r]
    <2>1. (IF st2 = "CLOSED" THEN 0 ELSE b) \in 0..TxSize
      BY <1>1
    <2> QED BY <2>1 DEF Becomes, SockType
  <1>5. PICK u \in 0..buf'[s] : unacked' = [unacked EXCEPT ![s] = u]
    BY DEF Becomes
  <1>6. buf'[s] \in 0..TxSize /\ u \in 0..TxSize /\ u <= buf'[s]
    BY <1>1, <1>4, <1>5
  <1>7. unacked' \in [Sock -> 0..TxSize] /\ \A r \in Sock : unacked'[r] <= buf'[r]
    BY <1>4, <1>5, <1>6 DEF SockType
  <1> QED BY <1>2, <1>3, <1>4, <1>7 DEF SockType

LEMMA StaysType ==
  ASSUME SockType, NEW s \in Sock, NEW b \in 0..TxSize, b >= buf[s],
         NEW sends, Stays(s, b, sends)
  PROVE  SockType'
  <1>1. TxSize \in Nat
    BY SizeAssumption
  <1>2. /\ buf' = [buf EXCEPT ![s] = b]
        /\ st' = st /\ publish' = publish
        /\ \/ \E u \in 0..b : unacked' = [unacked EXCEPT ![s] = u]
           \/ unacked' = unacked
    BY DEF Stays
  <1>3. \A r \in Sock : buf[r] \in 0..TxSize /\ unacked[r] \in 0..TxSize /\ unacked[r] <= buf[r]
    BY DEF SockType
  <1>4. CASE unacked' = unacked
    <2>1. unacked[s] <= b
      BY <1>1, <1>3
    <2> QED BY <1>2, <1>3, <1>4, <2>1 DEF SockType
  <1>5. ASSUME NEW u \in 0..b, unacked' = [unacked EXCEPT ![s] = u] PROVE SockType'
    <2>1. u \in 0..TxSize /\ u <= b
      BY <1>1
    <2> QED BY <1>2, <1>3, <1>5, <2>1 DEF SockType
  <1> QED BY <1>2, <1>4, <1>5

LEMMA TurnType ==
  ASSUME LoopType, NEW t \in 1..ETHER, NEW break, Turn(t, break)
  PROVE  task' \in 1..End
  <1>1. NbrSocks \in Nat
    BY SizeAssumption
  <1>2. ETHER \in Nat /\ End = ETHER + 1
    BY <1>1 DEF ETHER, End
  <1> QED BY <1>2 DEF Turn

LEMMA Tasks ==
  ASSUME NEW s \in Sock
  PROVE  AppTask(s) \in 1..ETHER /\ SockTask(s) \in 1..ETHER /\ ETHER \in 1..ETHER
         /\ 1 \in 1..End
  <1>1. NbrSocks \in Nat /\ s \in 1..NbrSocks
    BY SizeAssumption DEF Sock
  <1> QED BY <1>1 DEF AppTask, SockTask, ETHER, End

-------------------------------------------------------------------------------
LEMMA InitInv == Init => IInv
  <1> SUFFICES ASSUME Init PROVE IInv
    OBVIOUS
  <1>1. /\ NbrSocks \in Nat /\ TxSize \in Nat /\ MaxLen \in Nat
        /\ <<>> \in Seq(Msg) /\ Len(<<>>) = 0 /\ <<>> \in Seq(0..255)
    BY SizeAssumption, EmptySeq
  <1>2. 1 \in 1..End /\ 0 \in 0..TxSize /\ 0 \in 0..MaxLen
    BY <1>1 DEF End, ETHER
  <1>3. PoolType /\ LoopType
    BY <1>1, <1>2 DEF Init, PoolType, LoopType
  <1>4. SockType
    BY <1>2 DEF Init, SockType, State, Publish
  <1>5. Ownership
    <2>1. \A s \in Sock : mq[s] = <<>> /\ Len(mq[s]) = 0
      BY <1>1 DEF Init
    <2> QED BY <2>1 DEF Init, Ownership, Holds
  <1>6. Filled
    BY DEF Init, Filled
  <1> QED BY <1>3, <1>4, <1>5, <1>6, TypeSplit DEF IInv

(* The parts of the invariant, for the steps.                                  *)
LEMMA Parts == /\ IInv => PoolInv /\ SockType /\ LoopType
               /\ PoolInv' /\ SockType' /\ LoopType' => IInv'
  BY DEF IInv, PoolInv, TypeOK, PoolType, SockType, LoopType

LEMMA SamePool ==
  ASSUME PoolInv, UNCHANGED <<inuse, body, mq, ghosts>>
  PROVE  PoolInv'
  BY DEF PoolInv, PoolType, Ownership, Holds, Filled, ghosts

LEMMA SameSocks ==
  ASSUME SockType, UNCHANGED sockVars
  PROVE  SockType'
  BY DEF SockType, sockVars

(* tserver_idle.                                                               *)
LEMMA AppInv ==
  ASSUME IInv, NEW s \in Sock, AppOpen(s) \/ AppSend(s) \/ AppNothing(s)
  PROVE  IInv'
  <1>1. PoolInv /\ SockType /\ LoopType
    BY Parts
  <1>2. SockType' /\ LoopType'
    <2>1. UNCHANGED sockVars /\ UNCHANGED halted /\ Turn(AppTask(s), FALSE)
      BY DEF AppOpen, AppSend, AppNothing
    <2>2. task' \in 1..End
      BY <1>1, <2>1, Tasks, TurnType
    <2> QED BY <1>1, <2>1, <2>2, SameSocks DEF LoopType
  <1>3. CASE AppOpen(s)
    <2> DEFINE bytes == <<OPEN_PASSIVE, 0, 0>>
    <2>1. bytes \in Seq(0..255) /\ bytes # <<>>
      BY DEF OPEN_PASSIVE
    <2>2. 0 \in 0..MaxLen
      BY SizeAssumption
    <2>3. Post(s, bytes, 0)
      BY <1>3 DEF AppOpen
    <2> HIDE DEF bytes
    <2>4. PoolInv'
      BY <1>1, <2>1, <2>2, <2>3, PostInv
    <2> QED BY <1>2, <2>4, Parts
  <1>4. CASE AppSend(s)
    <2>1. PICK c \in Input : Post(s, <<DATA_PUSH>> \o c, Len(c))
      BY <1>4 DEF AppSend
    <2>2. PICK n \in 1..MaxLen : c \in [1..n -> Byte]
      BY <2>1 DEF Input
    <2>3. n \in Nat /\ MaxLen \in Nat
      BY SizeAssumption
    <2>4. c \in Seq(0..255) /\ Len(c) = n
      <3>1. c \in [1..n -> 0..255]
        BY <2>2, SizeAssumption
      <3>2. c \in Seq(0..255)
        BY <2>3, <3>1, SeqDef
      <3> QED BY <2>3, <3>1, <3>2, LenProperties
    <2>5. <<DATA_PUSH>> \in Seq(0..255) /\ <<DATA_PUSH>> # <<>>
      BY DEF DATA_PUSH
    <2> DEFINE bytes == <<DATA_PUSH>> \o c
    <2>6. bytes \in Seq(0..255) /\ bytes # <<>>
      BY <2>4, <2>5, ConcatProperties, ConcatEqualIffEmpty
    <2>7. Len(c) \in 0..MaxLen
      BY <2>3, <2>4
    <2>8. Post(s, bytes, Len(c))
      BY <2>1
    <2> HIDE DEF bytes
    <2>9. PoolInv'
      BY <1>1, <2>6, <2>7, <2>8, PostInv
    <2> QED BY <1>2, <2>9, Parts
  <1>5. CASE AppNothing(s)
    <2>1. PoolInv'
      BY <1>1, <1>5, SamePool DEF AppNothing
    <2> QED BY <1>2, <2>1, Parts
  <1> QED BY <1>3, <1>4, <1>5

(* tcpsock_down, for the message at the head of the queue.                     *)
LEMMA DownInv ==
  ASSUME IInv, NEW s \in Sock, mq[s] # <<>>,
         LET m == Head(mq[s])
         IN  DownStore(s, m) \/ DownIgnore(s, m) \/ DownCommand(s, m) \/ DownAbort(s, m)
  PROVE  IInv'
  <1> DEFINE m == Head(mq[s])
  <1>1. PoolInv /\ SockType /\ LoopType
    BY Parts
  <1>2. Done(s, m) /\ Turn(SockTask(s), FALSE) /\ halted' \in BOOLEAN
    <2>1. CASE DownStore(s, m)
      BY <1>1, <2>1 DEF DownStore, LoopType
    <2>2. CASE DownIgnore(s, m)
      BY <1>1, <2>2 DEF DownIgnore, LoopType
    <2>3. CASE DownCommand(s, m)
      <3>1. Done(s, m) /\ Turn(SockTask(s), FALSE)
        BY <2>3 DEF DownCommand
      <3>2. halted' = (Len(Rest(m)) < Parameters(s, TypeByte(m)))
        BY <2>3 DEF DownCommand
      <3>3. halted' \in BOOLEAN
        BY <3>2
      <3> QED BY <3>1, <3>3
    <2>4. CASE DownAbort(s, m)
      BY <1>1, <2>4 DEF DownAbort, LoopType
    <2> QED BY <2>1, <2>2, <2>3, <2>4
  <1>3. PoolInv'
    BY <1>1, <1>2, DoneInv
  <1>4. LoopType'
    BY <1>1, <1>2, Tasks, TurnType DEF LoopType
  <1>5. TxSize \in Nat /\ buf[s] \in 0..TxSize /\ 0 \in 0..TxSize /\ st[s] \in State
    BY <1>1, SizeAssumption DEF SockType
  <1>6. body[m] \in Seq(0..255) /\ body[m] # <<>> /\ Rest(m) \in Seq(0..255)
    <2>1. m \in inuse /\ m \in Msg
      BY <1>1, QueuedInUse, TailQueue DEF PoolInv, PoolType
    <2>2. body[m] \in Seq(0..255) /\ body[m] # <<>>
      BY <1>1, <2>1 DEF PoolInv, PoolType, Filled
    <2> QED BY <2>2, HeadTailProperties DEF Rest
  <1> HIDE DEF m
  <1>7. CASE DownStore(s, m)
    <2> DEFINE b == buf[s] + Len(Rest(m))
    <2>1. Len(Rest(m)) \in Nat /\ Len(Rest(m)) <= TxSize - buf[s]
      BY <1>6, <1>7, LenProperties DEF DownStore, Room
    <2>2. b \in 0..TxSize /\ b >= buf[s]
      BY <1>5, <2>1
    <2>3. Stays(s, b, unacked[s] = 0)
      BY <1>7 DEF DownStore
    <2> HIDE DEF b
    <2>4. SockType'
      BY <1>1, <2>2, <2>3, StaysType
    <2> QED BY <1>3, <1>4, <2>4, Parts
  <1>8. CASE DownIgnore(s, m)
    <2>1. SockType'
      BY <1>1, <1>8, SameSocks DEF DownIgnore
    <2> QED BY <1>3, <1>4, <2>1, Parts
  <1>9. CASE DownCommand(s, m)
    <2>1. PICK st2 : /\ st2 = "CLOSED" \/ st2 = NextState(st[s], EventOf(TypeByte(m)))
                     /\ UNCHANGED sockVars \/ Becomes(s, st2, buf[s])
      BY <1>9 DEF DownCommand
    <2>2. st2 \in State
      BY <1>5, <2>1, StateMachine DEF State
    <2>3. SockType'
      BY <1>1, <1>5, <2>1, <2>2, SameSocks, BecomesType
    <2> QED BY <1>3, <1>4, <2>3, Parts
  <1>10. CASE DownAbort(s, m)
    <2>1. "CLOSED" \in State /\ Becomes(s, "CLOSED", 0)
      BY <1>10 DEF DownAbort, State
    <2>2. SockType'
      BY <1>1, <1>5, <2>1, BecomesType
    <2> QED BY <1>3, <1>4, <2>2, Parts
  <1> QED BY <1>7, <1>8, <1>9, <1>10 DEF m

(* A message that does not fit stays in its queue, and is not empty.           *)
LEMMA PushbackInv ==
  ASSUME IInv, NEW s \in Sock, mq[s] # <<>>, DownPushback(s, Head(mq[s]))
  PROVE  IInv'
  <1> DEFINE m == Head(mq[s])
  <1>1. PoolInv /\ SockType /\ LoopType
    BY Parts
  <1>2. m \in inuse /\ m \in Msg
    BY <1>1, QueuedInUse, TailQueue DEF PoolInv, PoolType
  <1>3. body[m] \in Seq(0..255) /\ body[m] # <<>>
    BY <1>1, <1>2 DEF PoolInv, PoolType, Filled
  <1> HIDE DEF m
  <1>4. TxSize \in Nat /\ buf[s] \in 0..TxSize
    BY <1>1, SizeAssumption DEF SockType
  <1>5. /\ Turn(SockTask(s), TRUE)
        /\ Stays(s, buf[s], TRUE)
        /\ Len(Rest(m)) > TxSize - buf[s]
        /\ body' = [body EXCEPT ![m] = Rest(m)]
        /\ UNCHANGED <<inuse, mq, halted, chars, stale>>
    BY DEF DownPushback, PushedBack, Room, ghosts, m
  <1>6. Rest(m) \in Seq(0..255) /\ Rest(m) # <<>>
    <2>1. Rest(m) \in Seq(0..255)
      BY <1>3, HeadTailProperties DEF Rest
    <2>2. Len(Rest(m)) > 0
      BY <1>4, <1>5, <2>1, LenProperties
    <2> QED BY <2>1, <2>2, EmptySeq
  <1>7. PoolInv'
    <2>1. Ownership'
      BY <1>1, <1>5 DEF PoolInv, Ownership, Holds
    <2>2. PoolType'
      BY <1>1, <1>5, <1>6 DEF PoolInv, PoolType
    <2>3. Filled'
      BY <1>1, <1>2, <1>5, <1>6 DEF PoolInv, PoolType, Filled
    <2> QED BY <2>1, <2>2, <2>3 DEF PoolInv
  <1>8. SockType'
    <2>1. buf[s] >= buf[s]
      BY <1>4
    <2> QED BY <1>1, <1>4, <1>5, <2>1, StaysType
  <1>9. LoopType'
    BY <1>1, <1>5, Tasks, TurnType DEF LoopType
  <1> QED BY <1>7, <1>8, <1>9, Parts

(* ether_idle, and a segment it hands up.                                      *)
LEMMA SegmentInv ==
  ASSUME IInv, NEW s \in Sock, NEW ev \in RxEvent, NEW k \in 0..unacked[s],
         Segment(s, ev, k)
  PROVE  IInv'
  <1>1. PoolInv /\ SockType /\ LoopType
    BY Parts
  <1>2. NextState(st[s], ev) \in State
    BY <1>1, StateMachine DEF SockType
  <1>3. buf[s] - k \in 0..TxSize
    <2>1. TxSize \in Nat /\ buf[s] \in 0..TxSize /\ unacked[s] \in 0..TxSize
          /\ unacked[s] <= buf[s]
      BY <1>1, SizeAssumption DEF SockType
    <2> QED BY <2>1
  <1>4. SockType'
    BY <1>1, <1>2, <1>3, BecomesType DEF Segment
  <1>5. LoopType'
    BY <1>1, Tasks, TurnType DEF Segment, LoopType
  <1>6. PoolInv'
    <2>1. stale' = stale \/ stale' = stale \cup Elements(mq[s])
      BY DEF Segment, Elements
    <2>2. UNCHANGED <<inuse, body, mq, chars>>
      BY DEF Segment
    <2>3. stale' \subseteq inuse
      BY <1>1, <2>1, QueuedInUse DEF PoolInv, PoolType
    <2> QED BY <1>1, <2>2, <2>3 DEF PoolInv, PoolType, Ownership, Holds, Filled
  <1> QED BY <1>4, <1>5, <1>6, Parts

(* The end of a pass.                                                          *)
LEMMA RetryInv ==
  ASSUME IInv, NEW s \in Sock, Retry(s)
  PROVE  IInv'
  <1>1. PoolInv /\ SockType /\ LoopType
    BY Parts
  <1> DEFINE st2 == IF st[s] = "TIMED_WAIT" THEN "CLOSED" ELSE st[s]
  <1>2. st2 \in State /\ buf[s] \in 0..TxSize
    BY <1>1 DEF SockType, State
  <1>3. Becomes(s, st2, buf[s])
    BY DEF Retry
  <1> HIDE DEF st2
  <1>4. SockType'
    BY <1>1, <1>2, <1>3, BecomesType
  <1>5. PoolInv'
    BY <1>1, SamePool DEF Retry
  <1>6. LoopType'
    BY <1>1, Tasks DEF Retry, LoopType
  <1> QED BY <1>4, <1>5, <1>6, Parts

(* Turns in which nothing happens.                                             *)
LEMMA NothingInv ==
  ASSUME IInv, (\E s \in Sock : SockNothing(s)) \/ NoFrame \/ NoRetry
  PROVE  IInv'
  <1>1. PoolInv /\ SockType /\ LoopType
    BY Parts
  <1>2. UNCHANGED <<inuse, body, mq, ghosts>> /\ UNCHANGED sockVars /\ halted' = halted
    BY DEF SockNothing, NoFrame, NoRetry
  <1>3. task' \in 1..End
    <2>1. PICK s \in Sock : TRUE
      <3>1. NbrSocks \in Nat \ {0}
        BY SizeAssumption
      <3>2. 1 \in Sock
        BY <3>1 DEF Sock
      <3> QED BY <3>2
    <2>2. ETHER \in 1..ETHER /\ 1 \in 1..End
      BY <2>1, Tasks
    <2>3. ASSUME NEW r \in Sock, SockNothing(r) PROVE task' \in 1..End
      BY <1>1, <2>3, Tasks, TurnType DEF SockNothing
    <2>4. CASE NoFrame
      BY <1>1, <2>2, <2>4, TurnType DEF NoFrame
    <2>5. CASE NoRetry
      BY <2>2, <2>5 DEF NoRetry
    <2> QED BY <2>3, <2>4, <2>5
  <1> QED BY <1>1, <1>2, <1>3, SamePool, SameSocks, Parts DEF LoopType

LEMMA StutterInv == IInv /\ UNCHANGED vars => IInv'
  <1> SUFFICES ASSUME IInv, UNCHANGED vars PROVE IInv'
    OBVIOUS
  <1>1. PoolInv /\ SockType /\ LoopType
    BY Parts
  <1>2. PoolInv' /\ SockType'
    BY <1>1, SamePool, SameSocks DEF vars
  <1>3. LoopType'
    BY <1>1 DEF vars, LoopType
  <1> QED BY <1>2, <1>3, Parts

LEMMA NextInv == IInv /\ [Next]_vars => IInv'
  BY AppInv, DownInv, PushbackInv, SegmentInv, RetryInv, NothingInv, StutterInv
     DEF Next, SockDown, EtherIdle

-------------------------------------------------------------------------------
(* Why no handler pops what is not there.  A message is as its application     *)
(* made it, unless it has been pushed back: then it is at the head of its      *)
(* queue, its socket takes data, and the socket's turn comes before ether_idle *)
(* can change that.                                                            *)
Whole(b)  == Head(b) = DATA_PUSH \/ (Head(b) = OPEN_PASSIVE /\ Len(b) >= 3)
Reread(s) == IsTxState(st[s]) /\ task \in (1..SockTask(s)) \cup {End}
CutOnlyToReread ==
    \A s \in Sock : \A i \in 1..Len(mq[s]) :
        Whole(body[mq[s][i]]) \/ (i = 1 /\ Reread(s))

LEMMA TaskOrder ==
  ASSUME NEW s \in Sock
  PROVE  /\ NbrSocks \in Nat /\ s \in 1..NbrSocks
         /\ AppTask(s) = s /\ SockTask(s) = NbrSocks + s
         /\ ETHER = 2 * NbrSocks + 1 /\ End = 2 * NbrSocks + 2
  <1>1. NbrSocks \in Nat /\ s \in 1..NbrSocks
    BY SizeAssumption DEF Sock
  <1> QED BY <1>1 DEF AppTask, SockTask, ETHER, End

(* The queue of s has a further message, a whole one.                          *)
LEMMA PostCut ==
  ASSUME IInv, CutOnlyToReread, NEW s \in Sock, NEW bytes, Whole(bytes), NEW n,
         Post(s, bytes, n), \A r \in Sock : Reread(r) => Reread(r)'
  PROVE  CutOnlyToReread'
  <1> DEFINE m == FirstFree
             q == Append(mq[s], m)
  <1>1. PoolInv
    BY Parts
  <1>2. Free # {} /\ m \in Msg /\ m \notin inuse
    BY FirstFreeIsFree DEF Post
  <1>3. Len(mq[s]) < Depth[s] - 1
    BY <1>1, <1>2, QueueHasRoom
  <1>4. body' = [body EXCEPT ![m] = bytes] /\ mq' = [mq EXCEPT ![s] = q]
    BY <1>1, <1>3 DEF Post, PoolInv, PoolType
  <1>5. /\ body \in [Msg -> Seq(0..255)] /\ mq \in [Sock -> Seq(Msg)]
        /\ \A r \in Sock : Elements(mq[r]) \subseteq inuse /\ inuse \subseteq Msg
    BY <1>1, QueuedInUse DEF PoolInv, PoolType
  <1> HIDE DEF m
  <1>6. \A r \in Sock : \A i \in 1..Len(mq[r]) :
           /\ body'[mq[r][i]] = body[mq[r][i]]
           /\ Whole(body[mq[r][i]]) \/ (i = 1 /\ Reread(r)')
    BY <1>2, <1>4, <1>5 DEF Elements, CutOnlyToReread
  <1>7. /\ Len(q) = Len(mq[s]) + 1 /\ Len(mq[s]) \in Nat
        /\ q[Len(mq[s]) + 1] = m /\ \A j \in 1..Len(mq[s]) : q[j] = mq[s][j]
    BY <1>2, <1>5, AppendProperties, LenProperties
  <1> HIDE DEF q
  <1>8. mq'[s] = q /\ \A r \in Sock : r # s => mq'[r] = mq[r]
    BY <1>4, <1>5
  <1>9. ASSUME NEW r \in Sock, NEW i \in 1..Len(mq'[r])
        PROVE  Whole(body'[mq'[r][i]]) \/ (i = 1 /\ Reread(r)')
    <2>1. CASE r # s
      BY <1>6, <1>8, <1>9, <2>1
    <2>2. CASE r = s /\ i = Len(mq[s]) + 1
      <3>1. body'[mq'[r][i]] = bytes
        BY <1>2, <1>4, <1>5, <1>7, <1>8, <2>2
      <3> QED BY <3>1
    <2>3. CASE r = s /\ i # Len(mq[s]) + 1
      <3>1. i \in 1..Len(mq[s])
        BY <1>7, <1>8, <1>9, <2>3
      <3> QED BY <1>6, <1>7, <1>8, <2>3, <3>1
    <2> QED BY <2>1, <2>2, <2>3
  <1> QED BY <1>9 DEF CutOnlyToReread, Reread

(* The head of the queue of s is gone, and the others in it are whole.         *)
LEMMA DoneCut ==
  ASSUME IInv, CutOnlyToReread, NEW s \in Sock, mq[s] # <<>>, Done(s, Head(mq[s])),
         \A r \in Sock : r # s /\ Reread(r) => Reread(r)'
  PROVE  CutOnlyToReread'
  <1> DEFINE m == Head(mq[s])
             q == Tail(mq[s])
  <1>1. PoolInv
    BY Parts
  <1>2. /\ body \in [Msg -> Seq(0..255)] /\ mq \in [Sock -> Seq(Msg)] /\ inuse \subseteq Msg
        /\ \A r \in Sock : Elements(mq[r]) \subseteq inuse /\ Distinct(mq[r])
    BY <1>1, QueuedInUse DEF PoolInv, PoolType
  <1>3. body' = [body EXCEPT ![m] = <<>>] /\ mq' = [mq EXCEPT ![s] = q]
    BY <1>2 DEF Done
  <1>4. /\ m = mq[s][1] /\ Len(q) = Len(mq[s]) - 1 /\ Len(mq[s]) \in Nat /\ Len(mq[s]) > 0
        /\ \A j \in 1..Len(q) : q[j] = mq[s][j + 1]
    BY <1>2, HeadTailProperties, LenProperties, EmptySeq
  <1> HIDE DEF m, q
  <1>5. 1 \in 1..Len(mq[s]) /\ m \in Elements(mq[s]) /\ m \in Msg
    BY <1>2, <1>4 DEF Elements
  <1>6. mq'[s] = q /\ \A r \in Sock : r # s => mq'[r] = mq[r]
    BY <1>2, <1>3
  <1>7. \A x \in Msg : x # m => body'[x] = body[x]
    BY <1>2, <1>3
  <1>8. ASSUME NEW r \in Sock, NEW i \in 1..Len(mq'[r])
        PROVE  Whole(body'[mq'[r][i]]) \/ (i = 1 /\ Reread(r)')
    <2>1. CASE r # s
      <3>1. mq[r][i] \in Msg /\ i \in 1..Len(mq[r])
        BY <1>2, <1>6, <1>8, <2>1 DEF Elements
      <3>2. mq[r][i] # m
        <4>1. Holds(r, mq[r][i])
          BY <3>1 DEF Holds
        <4>2. Holds(s, m)
          BY <1>4, <1>5 DEF Holds
        <4> QED BY <1>1, <1>5, <2>1, <4>1, <4>2 DEF PoolInv, Ownership
      <3>3. Whole(body[mq[r][i]]) \/ (i = 1 /\ Reread(r))
        BY <3>1 DEF CutOnlyToReread
      <3> QED BY <1>6, <1>7, <2>1, <3>1, <3>2, <3>3
    <2>2. CASE r = s
      <3>1. i \in 1..Len(q) /\ i + 1 \in 1..Len(mq[s]) /\ i + 1 # 1
        BY <1>4, <1>6, <1>8, <2>2
      <3>2. mq[s][i + 1] # m
        BY <1>2, <1>4, <1>5, <3>1 DEF Distinct
      <3>3. mq[s][i + 1] \in Msg
        BY <1>2, <3>1 DEF Elements
      <3>4. Whole(body[mq[s][i + 1]])
        BY <3>1 DEF CutOnlyToReread
      <3> QED BY <1>4, <1>6, <1>7, <2>2, <3>1, <3>2, <3>3, <3>4
    <2> QED BY <2>1, <2>2
  <1> QED BY <1>8 DEF CutOnlyToReread, Reread

(* Nothing of the pool changes.                                                *)
LEMMA SameCut ==
  ASSUME CutOnlyToReread, UNCHANGED <<body, mq>>,
         \A r \in Sock : mq[r] # <<>> /\ Reread(r) => Reread(r)'
  PROVE  CutOnlyToReread'
  <1>1. ASSUME NEW r \in Sock, NEW i \in 1..Len(mq[r])
        PROVE  Whole(body[mq[r][i]]) \/ (i = 1 /\ Reread(r)')
    <2>1. mq[r] # <<>>
      BY <1>1
    <2> QED BY <2>1 DEF CutOnlyToReread
  <1> QED BY <1>1 DEF CutOnlyToReread, Reread

(* A socket that takes data ignores what would open it.                        *)
LEMMA NoParameters ==
  ASSUME NEW s \in Sock, IsTxState(st[s]), NEW ty \in {OPEN_ACTIVE, OPEN_PASSIVE, CLOSE}
  PROVE  Parameters(s, ty) = 0
  <1>1. \A e \in Edges : IsTxState(e[1]) => e[2] \notin {"OPEN_ACTIVE", "OPEN_PASSIVE"}
    BY DEF Edges, IsTxState
  <1>2. EdgeOf(st[s], "OPEN_ACTIVE") = {} /\ EdgeOf(st[s], "OPEN_PASSIVE") = {}
    BY <1>1 DEF EdgeOf
  <1>3. ActionOf(st[s], "OPEN_ACTIVE") # "TX_SYN" /\ NextState(st[s], "OPEN_PASSIVE") # "LISTEN"
    BY <1>2 DEF ActionOf, NextState, IsTxState
  <1> QED BY <1>3 DEF Parameters, OPEN_ACTIVE, OPEN_PASSIVE, CLOSE

(* The turn of an application, of which a socket later in the pass knows       *)
(* nothing.                                                                    *)
LEMMA AppCut ==
  ASSUME IInv, CutOnlyToReread, NEW s \in Sock, AppOpen(s) \/ AppSend(s) \/ AppNothing(s)
  PROVE  CutOnlyToReread'
  <1>1. \A r \in Sock : Reread(r) => Reread(r)'
    <2>1. task = AppTask(s) /\ task' = task + 1 /\ st' = st
      BY DEF AppOpen, AppSend, AppNothing, Turn, sockVars
    <2>2. ASSUME NEW r \in Sock, Reread(r) PROVE Reread(r)'
      <3>1. task' \in 1..SockTask(r)
        BY <2>1, TaskOrder
      <3> QED BY <2>1, <2>2, <3>1 DEF Reread
    <2> QED BY <2>2
  <1>2. CASE AppOpen(s)
    <2> DEFINE bytes == <<OPEN_PASSIVE, 0, 0>>
    <2>1. Whole(bytes) /\ Post(s, bytes, 0)
      BY <1>2 DEF AppOpen, Whole
    <2> HIDE DEF bytes
    <2> QED BY <1>1, <2>1, PostCut
  <1>3. CASE AppSend(s)
    <2>1. PICK c \in Input : Post(s, <<DATA_PUSH>> \o c, Len(c))
      BY <1>3 DEF AppSend
    <2> DEFINE bytes == <<DATA_PUSH>> \o c
    <2>2. c \in Seq(Byte)
      <3>1. PICK n \in 1..MaxLen : c \in [1..n -> Byte]
        BY <2>1 DEF Input
      <3>2. n \in Nat
        BY SizeAssumption
      <3> QED BY <3>1, <3>2, SeqDef
    <2>3. Whole(bytes)
      BY <2>2 DEF Whole
    <2>4. Post(s, bytes, Len(c))
      BY <2>1
    <2> HIDE DEF bytes
    <2> QED BY <1>1, <2>3, <2>4, PostCut
  <1>4. CASE AppNothing(s)
    BY <1>1, <1>4, SameCut DEF AppNothing
  <1> QED BY <1>2, <1>3, <1>4

(* The turn of a socket is later than that of those before it, which have      *)
(* nothing to read again, and sooner than that of those behind it.             *)
LEMMA TurnOfSocket ==
  ASSUME NEW s \in Sock, NEW break, Turn(SockTask(s), break),
         \A r \in Sock : r # s => st'[r] = st[r]
  PROVE  \A r \in Sock : r # s /\ Reread(r) => Reread(r)'
  <1>1. ASSUME NEW r \in Sock, r # s, Reread(r) PROVE Reread(r)'
    <2>1. task = SockTask(s) /\ (task' = End \/ task' = task + 1)
      BY DEF Turn
    <2>2. task \in (1..SockTask(r)) \cup {End}
      BY <1>1 DEF Reread
    <2>3. /\ NbrSocks \in Nat /\ s \in 1..NbrSocks /\ r \in 1..NbrSocks
          /\ SockTask(s) = NbrSocks + s /\ SockTask(r) = NbrSocks + r
          /\ End = 2 * NbrSocks + 2
      BY TaskOrder
    <2>4. task' \in (1..SockTask(r)) \cup {End}
      BY <1>1, <2>1, <2>2, <2>3
    <2> QED BY <1>1, <2>4 DEF Reread
  <1> QED BY <1>1

LEMMA OtherSockets ==
  ASSUME SockType, NEW s \in Sock, UNCHANGED st \/ \E st2, b : Becomes(s, st2, b)
  PROVE  \A r \in Sock : r # s => st'[r] = st[r]
  BY DEF Becomes, SockType

LEMMA DownCut ==
  ASSUME IInv, CutOnlyToReread, ~halted, NEW s \in Sock, mq[s] # <<>>,
         LET m == Head(mq[s])
         IN  DownStore(s, m) \/ DownIgnore(s, m) \/ DownCommand(s, m) \/ DownAbort(s, m)
  PROVE  CutOnlyToReread' /\ ~halted'
  <1> DEFINE m == Head(mq[s])
  <1>1. PoolInv /\ SockType
    BY Parts
  <1>2. /\ Done(s, m) /\ Turn(SockTask(s), FALSE)
        /\ UNCHANGED st \/ \E st2, b : Becomes(s, st2, b)
        /\ UNCHANGED halted \/ DownCommand(s, m)
    <2>1. CASE DownStore(s, m)
      BY <2>1 DEF DownStore, Stays
    <2>2. CASE DownIgnore(s, m)
      BY <2>2 DEF DownIgnore, sockVars
    <2>3. CASE DownCommand(s, m)
      BY <2>3 DEF DownCommand, sockVars
    <2>4. CASE DownAbort(s, m)
      BY <2>4 DEF DownAbort
    <2> QED BY <2>1, <2>2, <2>3, <2>4
  <1>3. CutOnlyToReread'
    BY <1>1, <1>2, OtherSockets, TurnOfSocket, DoneCut
  <1>4. ASSUME DownCommand(s, m) PROVE ~halted'
    <2> DEFINE ty == TypeByte(m)
    <2>1. ty \in {OPEN_ACTIVE, OPEN_PASSIVE, CLOSE} /\ halted' = (Len(Rest(m)) < Parameters(s, ty))
      BY <1>4 DEF DownCommand
    <2>2. mq[s] \in Seq(Msg) /\ m = mq[s][1] /\ 1 \in 1..Len(mq[s])
      <3>1. mq[s] \in Seq(Msg)
        BY <1>1 DEF PoolInv, PoolType
      <3>2. Len(mq[s]) \in Nat /\ Len(mq[s]) # 0 /\ m = mq[s][1]
        BY <3>1, LenProperties, EmptySeq
      <3> QED BY <3>1, <3>2
    <2>3. Whole(body[m]) \/ Reread(s)
      BY <2>2 DEF CutOnlyToReread
    <2>4. body[m] \in Seq(0..255) /\ body[m] # <<>>
      <3>1. m \in inuse /\ m \in Msg
        BY <1>1, QueuedInUse, TailQueue DEF PoolInv, PoolType
      <3> QED BY <1>1, <3>1 DEF PoolInv, PoolType, Filled
    <2> HIDE DEF m
    <2>5. Len(Rest(m)) \in Nat /\ Len(Rest(m)) = Len(body[m]) - 1 /\ Len(body[m]) \in Nat
      BY <2>4, HeadTailProperties, LenProperties DEF Rest
    <2>6. CASE Reread(s)
      <3>1. Parameters(s, ty) = 0
        BY <2>1, <2>6, NoParameters DEF Reread
      <3>2. ~(Len(Rest(m)) < Parameters(s, ty))
        BY <2>5, <3>1
      <3> QED BY <2>1, <3>2, Zenon
    <2>7. CASE Whole(body[m])
      <3>1. ty = OPEN_PASSIVE /\ Len(body[m]) >= 3
        BY <2>1, <2>7 DEF Whole, TypeByte, DATA_PUSH, OPEN_ACTIVE, OPEN_PASSIVE, CLOSE
      <3>2. Parameters(s, ty) \in {0, 2}
        BY <3>1 DEF Parameters, OPEN_PASSIVE, OPEN_ACTIVE
      <3>3. ~(Len(Rest(m)) < Parameters(s, ty))
        BY <2>5, <3>1, <3>2
      <3> QED BY <2>1, <3>3, Zenon
    <2> QED BY <2>3, <2>6, <2>7
  <1> QED BY <1>2, <1>3, <1>4

LEMMA PushbackCut ==
  ASSUME IInv, CutOnlyToReread, ~halted, NEW s \in Sock, mq[s] # <<>>,
         DownPushback(s, Head(mq[s]))
  PROVE  CutOnlyToReread' /\ ~halted'
  <1> DEFINE m == Head(mq[s])
  <1>1. PoolInv /\ SockType
    BY Parts
  <1>2. /\ IsTxState(st[s]) /\ st' = st /\ task' = End
        /\ mq' = mq /\ halted' = halted
        /\ body' = [body EXCEPT ![m] = PushedBack(m)]
    BY DEF DownPushback, Stays, Turn
  <1>3. /\ body \in [Msg -> Seq(0..255)] /\ mq \in [Sock -> Seq(Msg)] /\ inuse \subseteq Msg
        /\ \A r \in Sock : Elements(mq[r]) \subseteq inuse /\ Distinct(mq[r])
    BY <1>1, QueuedInUse DEF PoolInv, PoolType
  <1>4. m = mq[s][1] /\ 1 \in 1..Len(mq[s])
    <2>1. Len(mq[s]) \in Nat /\ Len(mq[s]) # 0 /\ m = mq[s][1]
      BY <1>3, LenProperties, EmptySeq
    <2> QED BY <2>1
  <1> HIDE DEF m
  <1>5. m \in Msg
    BY <1>3, <1>4 DEF Elements
  <1>6. ASSUME NEW r \in Sock, NEW i \in 1..Len(mq[r])
        PROVE  Whole(body'[mq[r][i]]) \/ (i = 1 /\ Reread(r)')
    <2>1. mq[r][i] \in Msg
      BY <1>3 DEF Elements
    <2>2. CASE mq[r][i] = m
      <3>1. r = s
        <4>1. Holds(r, m) /\ Holds(s, m)
          BY <1>4, <2>2 DEF Holds
        <4> QED BY <1>1, <1>5, <4>1 DEF PoolInv, Ownership
      <3>2. i = 1
        BY <1>3, <1>4, <2>2, <3>1 DEF Distinct
      <3> QED BY <1>2, <3>1, <3>2 DEF Reread
    <2>3. CASE mq[r][i] # m
      <3>1. body'[mq[r][i]] = body[mq[r][i]]
        BY <1>2, <1>3, <2>1, <2>3
      <3>2. Reread(r) => Reread(r)'
        BY <1>2 DEF Reread
      <3> QED BY <3>1, <3>2 DEF CutOnlyToReread
    <2> QED BY <2>2, <2>3
  <1> QED BY <1>2, <1>6 DEF CutOnlyToReread, Reread

(* When it is the driver's turn every socket has read again what it pushed     *)
(* back.                                                                       *)
LEMMA EtherCut ==
  ASSUME IInv, CutOnlyToReread, ~halted, EtherIdle
  PROVE  CutOnlyToReread' /\ ~halted'
  <1>1. task = ETHER /\ body' = body /\ mq' = mq /\ halted' = halted
    BY DEF EtherIdle, Segment, NoFrame, Turn
  <1>2. \A r \in Sock : ~Reread(r)
    BY <1>1, TaskOrder DEF Reread
  <1> QED BY <1>1, <1>2, SameCut

LEMMA PassCut ==
  ASSUME IInv, CutOnlyToReread, ~halted, NoRetry \/ \E s \in Sock : Retry(s)
  PROVE  CutOnlyToReread' /\ ~halted'
  <1>1. task' = 1 /\ body' = body /\ mq' = mq /\ halted' = halted
    BY DEF NoRetry, Retry
  <1>2. \A r \in Sock : IsTxState(st[r]) => st'[r] = st[r]
    <2>1. CASE NoRetry
      BY <2>1 DEF NoRetry, sockVars
    <2>2. ASSUME NEW s \in Sock, Retry(s) PROVE \A r \in Sock : IsTxState(st[r]) => st'[r] = st[r]
      <3>1. SockType
        BY Parts
      <3>2. st' = [st EXCEPT ![s] = IF st[s] = "TIMED_WAIT" THEN "CLOSED" ELSE st[s]]
        BY <2>2 DEF Retry, Becomes
      <3> QED BY <3>1, <3>2 DEF SockType, IsTxState
    <2> QED BY <2>1, <2>2
  <1>3. \A r \in Sock : Reread(r) => Reread(r)'
    <2>1. \A r \in Sock : 1 \in 1..SockTask(r)
      BY TaskOrder
    <2> QED BY <1>1, <1>2, <2>1 DEF Reread
  <1> QED BY <1>1, <1>3, SameCut

LEMMA NothingCut ==
  ASSUME IInv, CutOnlyToReread, ~halted, NEW s \in Sock, SockNothing(s)
  PROVE  CutOnlyToReread' /\ ~halted'
  <1>1. /\ mq[s] = <<>> /\ Turn(SockTask(s), FALSE)
        /\ UNCHANGED <<body, mq, st, halted>>
    BY DEF SockNothing, sockVars
  <1>2. \A r \in Sock : r # s /\ Reread(r) => Reread(r)'
    BY <1>1, TurnOfSocket
  <1> QED BY <1>1, <1>2, SameCut

LEMMA CutStep == IInv /\ CutOnlyToReread /\ ~halted /\ [Next]_vars => CutOnlyToReread' /\ ~halted'
  <1> SUFFICES ASSUME IInv, CutOnlyToReread, ~halted, [Next]_vars
               PROVE  CutOnlyToReread' /\ ~halted'
    OBVIOUS
  <1>1. ASSUME NEW s \in Sock, AppOpen(s) \/ AppSend(s) \/ AppNothing(s)
        PROVE  CutOnlyToReread' /\ ~halted'
    <2>1. halted' = halted
      BY <1>1 DEF AppOpen, AppSend, AppNothing
    <2> QED BY <1>1, <2>1, AppCut
  <1>2. CASE UNCHANGED vars
    <2>1. \A r \in Sock : Reread(r) => Reread(r)'
      BY <1>2 DEF vars, sockVars, Reread
    <2> QED BY <1>2, <2>1, SameCut DEF vars
  <1> QED BY <1>1, <1>2, DownCut, PushbackCut, EtherCut, PassCut, NothingCut DEF Next, SockDown

LEMMA CutInit == Init => CutOnlyToReread /\ ~halted
  <1>1. Len(<<>>) = 0
    BY EmptySeq
  <1> QED BY <1>1 DEF Init, CutOnlyToReread

-------------------------------------------------------------------------------
(* Why a connection begins with an empty tx buffer.                            *)
Early == {"CLOSED", "LISTEN", "SYN_SENT", "SYN_RECVD"}

LEMMA EarlyBefore ==
  ASSUME NEW st1 \in State, NEW ev, NextState(st1, ev) \in Early
  PROVE  NextState(st1, ev) = "CLOSED" \/ st1 \in Early
  <1>1. \A e \in Edges : e[4] \in Early => e[4] = "CLOSED" \/ e[1] \in Early
    BY DEF Edges, Early
  <1>2. CASE EdgeOf(st1, ev) = {}
    BY <1>2 DEF NextState
  <1>3. CASE EdgeOf(st1, ev) # {}
    <2>1. PICK e \in EdgeOf(st1, ev) : NextState(st1, ev) = e[4]
      <3>1. (CHOOSE e \in EdgeOf(st1, ev) : TRUE) \in EdgeOf(st1, ev)
        BY <1>3
      <3> QED BY <1>3, <3>1 DEF NextState
    <2>2. e \in Edges /\ e[1] = st1
      BY DEF EdgeOf
    <2> QED BY <1>1, <2>1, <2>2
  <1> QED BY <1>2, <1>3

LEMMA BecomesEmpty ==
  ASSUME SockType, BeginsEmpty, NEW s \in Sock, NEW st2, NEW b,
         st2 \in Early => st2 = "CLOSED" \/ b = 0, Becomes(s, st2, b)
  PROVE  BeginsEmpty'
  <1>1. /\ st'[s] = st2 /\ buf'[s] = (IF st2 = "CLOSED" THEN 0 ELSE b)
        /\ \A r \in Sock : r # s => st'[r] = st[r] /\ buf'[r] = buf[r]
    BY DEF Becomes, SockType
  <1> QED BY <1>1 DEF BeginsEmpty, Early

LEMMA BeginsStep == IInv /\ BeginsEmpty /\ [Next]_vars => BeginsEmpty'
  <1> SUFFICES ASSUME IInv, BeginsEmpty, [Next]_vars PROVE BeginsEmpty'
    OBVIOUS
  <1>1. SockType
    BY Parts
  <1>2. CASE UNCHANGED sockVars
    BY <1>2 DEF sockVars, BeginsEmpty
  <1>3. ASSUME NEW s \in Sock, NEW m, DownStore(s, m) \/ DownPushback(s, m)
        PROVE  BeginsEmpty'
    <2>1. /\ IsTxState(st[s]) /\ st' = st
          /\ \A r \in Sock : r # s => buf'[r] = buf[r]
      BY <1>1, <1>3 DEF DownStore, DownPushback, Stays, SockType
    <2> QED BY <2>1 DEF BeginsEmpty, IsTxState
  <1>4. ASSUME NEW s \in Sock, NEW m, DownCommand(s, m) PROVE BeginsEmpty'
    <2>1. PICK st2 : /\ st2 = "CLOSED" \/ st2 = NextState(st[s], EventOf(TypeByte(m)))
                     /\ UNCHANGED sockVars \/ Becomes(s, st2, buf[s])
      BY <1>4 DEF DownCommand
    <2>2. st2 \in Early => st2 = "CLOSED" \/ buf[s] = 0
      BY <1>1, <2>1, EarlyBefore DEF SockType, BeginsEmpty, Early
    <2> QED BY <1>1, <1>2, <2>1, <2>2, BecomesEmpty
  <1>5. ASSUME NEW s \in Sock, NEW m, DownAbort(s, m) PROVE BeginsEmpty'
    BY <1>1, <1>5, BecomesEmpty DEF DownAbort
  <1>6. ASSUME NEW s \in Sock, NEW ev, NEW k \in 0..unacked[s], Segment(s, ev, k)
        PROVE  BeginsEmpty'
    <2> DEFINE st2 == NextState(st[s], ev)
    <2>1. Becomes(s, st2, buf[s] - k)
      BY <1>6 DEF Segment
    <2>2. ASSUME st2 \in Early, st2 # "CLOSED" PROVE buf[s] - k = 0
      <3>1. buf[s] = 0
        BY <1>1, <2>2, EarlyBefore DEF SockType, BeginsEmpty, Early
      <3>2. TxSize \in Nat /\ unacked[s] \in 0..TxSize /\ unacked[s] <= buf[s]
        BY <1>1, SizeAssumption DEF SockType
      <3> QED BY <3>1, <3>2
    <2> HIDE DEF st2
    <2> QED BY <1>1, <2>1, <2>2, BecomesEmpty
  <1>7. ASSUME NEW s \in Sock, Retry(s) PROVE BeginsEmpty'
    <2> DEFINE st2 == IF st[s] = "TIMED_WAIT" THEN "CLOSED" ELSE st[s]
    <2>1. Becomes(s, st2, buf[s])
      BY <1>7 DEF Retry
    <2>2. st2 \in Early => st2 = "CLOSED" \/ buf[s] = 0
      BY DEF BeginsEmpty, Early
    <2> HIDE DEF st2
    <2> QED BY <1>1, <2>1, <2>2, BecomesEmpty
  <1>8. CASE UNCHANGED vars
    BY <1>2, <1>8 DEF vars
  <1>9. ASSUME NEW s \in Sock,
               AppOpen(s) \/ AppSend(s) \/ AppNothing(s) \/ SockNothing(s)
               \/ (\E m : DownIgnore(s, m)) \/ NoFrame \/ NoRetry
        PROVE  BeginsEmpty'
    BY <1>2, <1>9 DEF AppOpen, AppSend, AppNothing, SockNothing, DownIgnore, NoFrame, NoRetry
  <1>10. \E s \in Sock : TRUE
    <2>1. NbrSocks \in Nat \ {0}
      BY SizeAssumption
    <2>2. 1 \in Sock
      BY <2>1 DEF Sock
    <2> QED BY <2>2
  <1> QED BY <1>3, <1>4, <1>5, <1>6, <1>7, <1>8, <1>9, <1>10 DEF Next, SockDown, EtherIdle

(* The account of the pool holds together with the types of the sockets; a     *)
(* message pushed back is never empty, so that it has a byte to be read as its *)
(* type the next time.                                                         *)
THEOREM Invariance == Spec => []IInv
  BY InitInv, NextInv, PTL DEF Spec

(* Types of tasks, pool, queues and sockets; tx_unacked stays within the tx    *)
(* buffer of tcpsock.c.                                                        *)
THEOREM TypeCorrect == Spec => []TypeOK
  <1>1. IInv => TypeOK
    BY DEF IInv
  <1> QED BY Invariance, <1>1, PTL

(* bmz_down may ignore what mq_write says: as the pool has fewer messages than *)
(* a queue takes, no message is lost, freed twice or queued twice.             *)
THEOREM NoMessageLost == Spec => []Ownership
  <1>1. IInv => Ownership
    BY DEF IInv
  <1> QED BY Invariance, <1>1, PTL

(* tcpsock_down never panics over a message that has lost its type byte.       *)
THEOREM NeverDry == Spec => []NoPanic
  <1>1. IInv /\ CutOnlyToReread /\ ~halted /\ [Next]_vars
          => (IInv /\ CutOnlyToReread /\ ~halted)'
    BY NextInv, CutStep
  <1>2. Spec => [](IInv /\ CutOnlyToReread /\ ~halted)
    BY InitInv, CutInit, <1>1, PTL DEF Spec
  <1>3. ~halted => NoPanic
    BY DEF NoPanic
  <1> QED BY <1>2, <1>3, PTL

(* What a connection leaves in the tx buffer never reaches the next.           *)
THEOREM NoBytesLeft == Spec => []BeginsEmpty
  <1>1. Init => BeginsEmpty
    BY DEF Init, BeginsEmpty
  <1>2. IInv /\ BeginsEmpty /\ [Next]_vars => (IInv /\ BeginsEmpty)'
    BY NextInv, BeginsStep
  <1> QED BY InitInv, <1>1, <1>2, PTL DEF Spec
===============================================================================
