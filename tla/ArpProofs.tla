------------------------------- MODULE ArpProofs -------------------------------
(* Proofs about Arp, for any number of entries, addresses and messages and any *)
(* limits: the cache never has two entries for one address, an entry in use    *)
(* always has a timer that will end it, and the messages in the queues are     *)
(* exactly those in use.                                                       *)
EXTENDS Arp, SequenceTheorems, WellFoundedInduction, TLAPS

(* An entry that is due is either the one whose timer has expired, or has been *)
(* taken over in the meantime, by a request of which nothing has been retried. *)
DueFresh == \A e \in due : timer[e] = 0 \/ (state[e] = "WAITING" /\ retry_count[e] = 0)

IInv == TypeOK /\ OneEntryPerAddress /\ TimerArmed /\ PoolAccount /\ DueFresh

Elements(q) == {q[k] : k \in 1..Len(q)}
Distinct(q) == \A j, k \in 1..Len(q) : q[j] = q[k] => j = k

-------------------------------------------------------------------------------
(* A set of naturals that is not empty has a least element.                    *)
LEMMA Least ==
  ASSUME NEW T \in SUBSET Nat, T # {}
  PROVE  \E x \in T : \A y \in T : x <= y
  <1> DEFINE R == OpToRel(<, Nat)
  <1>1. IsWellFoundedOn(R, Nat) /\ T \subseteq Nat
    BY NatLessThanWellFounded
  <1>2. \A x, y \in Nat : x < y => <<x, y>> \in R
    BY DEF OpToRel
  <1> HIDE DEF R
  <1>3. PICK x \in T : \A y \in T : <<y, x>> \notin R
    BY <1>1, WFMin
  <1>4. \A y \in T : ~(y < x)
    BY <1>1, <1>2, <1>3
  <1>5. \A y \in Nat : ~(y < x) => x <= y
    BY <1>1
  <1> QED BY <1>1, <1>3, <1>4, <1>5

LEMMA FirstIn ==
  ASSUME NEW S \in SUBSET Entry, S # {}
  PROVE  First(S) \in S
  <1>1. S \in SUBSET Nat
    BY ArpAssumption DEF Entry
  <1>2. \E e \in S : \A f \in S : e <= f
    BY <1>1, Least
  <1> QED BY <1>2 DEF First

LEMMA LastIn ==
  ASSUME NEW S \in SUBSET Entry, S # {}
  PROVE  Last(S) \in S
  <1> DEFINE T == {CacheNbr - e : e \in S}
  <1>1. \A e \in S : e \in Nat /\ CacheNbr \in Nat /\ CacheNbr - e \in Nat
    BY ArpAssumption DEF Entry
  <1>2. T \in SUBSET Nat /\ T # {}
    BY <1>1
  <1>3. PICK x \in T : \A y \in T : x <= y
    <2> HIDE DEF T
    <2> QED BY <1>2, Least
  <1>4. PICK e \in S : x = CacheNbr - e
    OBVIOUS
  <1>5. ASSUME NEW f \in S PROVE f <= e
    <2>1. CacheNbr - e <= CacheNbr - f
      BY <1>3, <1>4
    <2> QED BY <1>1, <2>1
  <1> QED BY <1>5 DEF Last

LEMMA OldestExists ==
  ASSUME TypeOK, In("BOUND") # {}
  PROVE  Oldest # {}
  <1> DEFINE B == In("BOUND")
             T == {timer[e] : e \in B}
  <1>1. \A e \in B : timer[e] \in Nat
    BY ArpAssumption DEF TypeOK, In
  <1>2. T \in SUBSET Nat /\ T # {}
    BY <1>1
  <1>3. PICK x \in T : \A y \in T : x <= y
    <2> HIDE DEF T
    <2> QED BY <1>2, Least
  <1>4. PICK e \in B : x = timer[e]
    OBVIOUS
  <1>5. \A f \in B : timer[e] <= timer[f]
    BY <1>3, <1>4
  <1> QED BY <1>5 DEF Oldest

LEMMA MostRetriedExists ==
  ASSUME TypeOK, In("WAITING") # {}
  PROVE  MostRetried # {}
  <1> DEFINE W == In("WAITING")
             T == {RetryLimit + 1 - retry_count[e] : e \in W}
  <1>1. \A e \in W : /\ retry_count[e] \in Nat /\ RetryLimit \in Nat
                     /\ RetryLimit + 1 - retry_count[e] \in Nat
    BY ArpAssumption DEF TypeOK, In
  <1>2. T \in SUBSET Nat /\ T # {}
    BY <1>1
  <1>3. PICK x \in T : \A y \in T : x <= y
    <2> HIDE DEF T
    <2> QED BY <1>2, Least
  <1>4. PICK e \in W : x = RetryLimit + 1 - retry_count[e]
    OBVIOUS
  <1>5. ASSUME NEW f \in W PROVE retry_count[f] <= retry_count[e]
    <2>1. RetryLimit + 1 - retry_count[e] <= RetryLimit + 1 - retry_count[f]
      BY <1>3, <1>4
    <2> QED BY <1>1, <2>1
  <1> QED BY <1>5 DEF MostRetried

(* What select returns: an entry of the address if there is one; otherwise one *)
(* that is idle, or bound, or, when all are waiting, one to be cleared.        *)
LEMMA SelectFacts ==
  ASSUME TypeOK, NEW i \in Ip
  PROVE  /\ Select(i) \in Entry
         /\ Matching(i) # {} => Select(i) \in Matching(i) /\ ~Evicts(i)
         /\ Matching(i) = {} /\ state[Select(i)] = "WAITING" => Evicts(i)
         /\ Evicts(i) => state[Select(i)] = "WAITING" /\ Matching(i) = {}
  <1>0. /\ In("IDLE") \in SUBSET Entry /\ In("BOUND") \in SUBSET Entry
        /\ In("WAITING") \in SUBSET Entry /\ Matching(i) \in SUBSET Entry
        /\ Oldest \in SUBSET In("BOUND") /\ MostRetried \in SUBSET In("WAITING")
        /\ \A s \in State : \A e \in In(s) : state[e] = s
        /\ \A e \in Entry : e \in In("IDLE") \/ e \in In("BOUND") \/ e \in In("WAITING")
    BY DEF In, Matching, Oldest, MostRetried, TypeOK, State
  <1>w. In("WAITING") = Entry => In("IDLE") = {} /\ In("BOUND") = {}
    BY DEF In
  <1>1. CASE Matching(i) # {}
    <2>1. Select(i) = First(Matching(i))
      BY <1>1 DEF Select
    <2> QED BY <1>0, <1>1, <2>1, FirstIn DEF Evicts
  <1>2. CASE Matching(i) = {} /\ In("IDLE") # {}
    <2>1. Select(i) = First(In("IDLE"))
      BY <1>2, <1>w DEF Select
    <2>2. Select(i) \in In("IDLE")
      BY <1>0, <1>2, <2>1, FirstIn
    <2>3. state[Select(i)] = "IDLE"
      BY <1>0, <2>2 DEF State
    <2>4. ~Evicts(i)
      BY <1>0, <2>2, <2>3 DEF Evicts, In
    <2> QED BY <1>0, <1>2, <2>2, <2>3, <2>4
  <1>3. CASE Matching(i) = {} /\ In("IDLE") = {} /\ In("BOUND") # {}
    <2>1. Select(i) = Last(Oldest)
      BY <1>3, <1>w DEF Select
    <2>2. Select(i) \in In("BOUND")
      BY <1>0, <1>3, <2>1, LastIn, OldestExists
    <2>3. state[Select(i)] = "BOUND"
      BY <1>0, <2>2 DEF State
    <2>4. ~Evicts(i)
      BY <1>0, <2>2, <2>3 DEF Evicts, In
    <2> QED BY <1>0, <1>3, <2>2, <2>3, <2>4
  <1>4. CASE Matching(i) = {} /\ In("IDLE") = {} /\ In("BOUND") = {}
    <2>0. 1 \in Entry
      BY ArpAssumption DEF Entry
    <2>1. In("WAITING") = Entry /\ Entry # {}
      BY <1>0, <1>4, <2>0
    <2>2. Select(i) = Last(MostRetried)
      BY <1>4, <2>1 DEF Select
    <2>3. Select(i) \in In("WAITING")
      BY <1>0, <2>1, <2>2, LastIn, MostRetriedExists
    <2>4. state[Select(i)] = "WAITING"
      BY <1>0, <2>3 DEF State
    <2> QED BY <1>0, <1>4, <2>1, <2>3, <2>4 DEF Evicts
  <1> QED BY <1>1, <1>2, <1>3, <1>4

-------------------------------------------------------------------------------
(* The queue of entry e becomes q, whose messages were in it before or were    *)
(* free; those that were in it and are not in q are freed.                     *)
LEMMA Requeue ==
  ASSUME TypeOK, PoolAccount, NEW e \in Entry, NEW q \in Seq(Msg), Distinct(q),
         mq' = [mq EXCEPT ![e] = q],
         \A m \in Elements(q) : dest[m] = NULL \/ m \in Elements(mq[e]),
         \A m \in Msg : dest'[m] # NULL <=>
                          m \in Elements(q) \/ (dest[m] # NULL /\ m \notin Elements(mq[e]))
  PROVE  PoolAccount'
  <1>1. /\ mq'[e] = q
        /\ \A f \in Entry : f # e => mq'[f] = mq[f]
    BY DEF TypeOK
  <1>2. \A m \in Msg, f \in Entry : Queued(f, m) <=> m \in Elements(mq[f])
    BY DEF Queued, Elements
  <1>3. \A m \in Msg, f \in Entry : Queued(f, m)' <=> m \in Elements(mq'[f])
    BY DEF Queued, Elements
  <1>4. /\ \A m \in Msg : dest[m] # NULL <=> \E f \in Entry : Queued(f, m)
        /\ \A f, g \in Entry : \A j \in 1..Len(mq[f]), k \in 1..Len(mq[g]) :
               mq[f][j] = mq[g][k] => f = g /\ j = k
    BY DEF PoolAccount
  <1>5. \A f, g \in Entry : \A m \in Msg : Queued(f, m) /\ Queued(g, m) => f = g
    BY <1>4 DEF Queued
  <1>6. ASSUME NEW m \in Msg
        PROVE  dest'[m] # NULL <=> \E f \in Entry : Queued(f, m)'
    <2>1. CASE m \in Elements(q)
      BY <1>1, <1>3, <2>1
    <2>2. CASE m \notin Elements(q)
      <3>1. \A f \in Entry : Queued(f, m)' <=> f # e /\ Queued(f, m)
        BY <1>1, <1>2, <1>3, <2>2
      <3>2. dest'[m] # NULL <=> dest[m] # NULL /\ ~Queued(e, m)
        BY <1>2, <2>2
      <3> QED BY <1>4, <1>5, <3>1, <3>2
    <2> QED BY <2>1, <2>2
  <1>7. ASSUME NEW f \in Entry, f # e, NEW j \in 1..Len(mq[f]), NEW k \in 1..Len(q)
        PROVE  mq[f][j] # q[k]
    <2>1. q[k] \in Elements(q) /\ q[k] \in Msg
      BY ElementOfSeq DEF Elements
    <2>2. CASE dest[q[k]] = NULL
      <3>1. ~Queued(f, q[k])
        BY <1>4, <2>1, <2>2
      <3> QED BY <3>1 DEF Queued
    <2>3. CASE q[k] \in Elements(mq[e])
      <3>1. PICK l \in 1..Len(mq[e]) : mq[e][l] = q[k]
        BY <2>3 DEF Elements
      <3> QED BY <1>4, <1>7, <3>1
    <2> QED BY <2>1, <2>2, <2>3
  <1>8. ASSUME NEW f \in Entry, NEW g \in Entry,
               NEW j \in 1..Len(mq'[f]), NEW k \in 1..Len(mq'[g]), mq'[f][j] = mq'[g][k]
        PROVE  f = g /\ j = k
    <2>1. CASE f = e /\ g = e
      BY <1>1, <1>8, <2>1 DEF Distinct
    <2>2. CASE f # e /\ g # e
      BY <1>1, <1>4, <1>8, <2>2
    <2>3. CASE f # e /\ g = e
      BY <1>1, <1>7, <1>8, <2>3
    <2>4. CASE f = e /\ g # e
      BY <1>1, <1>7, <1>8, <2>4
    <2> QED BY <2>1, <2>2, <2>3, <2>4
  <1> QED BY <1>6, <1>8 DEF PoolAccount

(* The queue that select leaves at its entry, and what it freed of it.         *)
LEMMA SelectQueue ==
  ASSUME TypeOK, PoolAccount, NEW i \in Ip
  PROVE  /\ mq[Select(i)] \in Seq(Msg) /\ Len(mq[Select(i)]) \in Nat
         /\ Len(mq[Select(i)]) < Depth
         /\ Distinct(mq[Select(i)])
         /\ \/ QueueAfter(i) = mq[Select(i)] /\ Dropped(i) = {}
            \/ QueueAfter(i) = <<>> /\ Dropped(i) = Elements(mq[Select(i)])
  <1>1. Select(i) \in Entry
    BY SelectFacts
  <1>2. mq[Select(i)] \in Seq(Msg) /\ Len(mq[Select(i)]) < Depth
    BY <1>1 DEF TypeOK
  <1>3. Distinct(mq[Select(i)])
    BY <1>1 DEF PoolAccount, Distinct
  <1>4. \/ QueueAfter(i) = mq[Select(i)] /\ Dropped(i) = {}
        \/ QueueAfter(i) = <<>> /\ Dropped(i) = Elements(mq[Select(i)])
    BY DEF QueueAfter, Dropped, Elements
  <1> QED BY <1>2, <1>3, <1>4, LenProperties

LEMMA EmptyQueue == /\ <<>> \in Seq(Msg) /\ Len(<<>>) = 0 /\ Len(<<>>) < Depth
                    /\ Distinct(<<>>) /\ Elements(<<>>) = {}
  BY ArpAssumption, EmptySeq DEF Distinct, Elements

LEMMA AppendQueue ==
  ASSUME NEW q \in Seq(Msg), NEW m \in Msg, Distinct(q), m \notin Elements(q)
  PROVE  /\ Append(q, m) \in Seq(Msg) /\ Len(Append(q, m)) = Len(q) + 1
         /\ Distinct(Append(q, m))
         /\ Elements(Append(q, m)) = Elements(q) \cup {m}
  <1> DEFINE r == Append(q, m)
  <1>1. /\ r \in Seq(Msg) /\ Len(r) = Len(q) + 1 /\ Len(q) \in Nat
        /\ r[Len(q) + 1] = m /\ \A j \in 1..Len(q) : r[j] = q[j]
    BY AppendProperties, LenProperties
  <1> HIDE DEF r
  <1>2. \A j \in 1..Len(r) : j = Len(q) + 1 \/ j \in 1..Len(q)
    BY <1>1
  <1>3. Distinct(r)
    <2>1. ASSUME NEW j \in 1..Len(r), NEW k \in 1..Len(r), r[j] = r[k]
          PROVE  j = k
      <3>1. CASE j \in 1..Len(q) /\ k \in 1..Len(q)
        BY <1>1, <2>1, <3>1 DEF Distinct
      <3>2. CASE j = Len(q) + 1 /\ k \in 1..Len(q)
        BY <1>1, <2>1, <3>2 DEF Elements
      <3>3. CASE k = Len(q) + 1 /\ j \in 1..Len(q)
        BY <1>1, <2>1, <3>3 DEF Elements
      <3> QED BY <1>2, <3>1, <3>2, <3>3
    <2> QED BY <2>1 DEF Distinct
  <1>4. Elements(r) = Elements(q) \cup {m}
    <2>1. \A x \in Elements(r) : x = m \/ x \in Elements(q)
      BY <1>1, <1>2 DEF Elements
    <2>2. \A x \in Elements(q) : x \in Elements(r)
      <3>1. \A j \in 1..Len(q) : j \in 1..Len(r) /\ r[j] = q[j]
        BY <1>1
      <3> QED BY <3>1 DEF Elements
    <2>3. m \in Elements(r)
      <3>1. Len(q) + 1 \in 1..Len(r) /\ r[Len(q) + 1] = m
        BY <1>1
      <3> QED BY <3>1 DEF Elements
    <2> QED BY <2>1, <2>2, <2>3
  <1> QED BY <1>1, <1>3, <1>4 DEF r

-------------------------------------------------------------------------------
LEMMA InitInv == Init => IInv
  <1> SUFFICES ASSUME Init PROVE IInv
    OBVIOUS
  <1>1. TypeOK
    BY ArpAssumption, EmptyQueue DEF Init, TypeOK, State
  <1>2. OneEntryPerAddress /\ TimerArmed /\ DueFresh
    BY DEF Init, OneEntryPerAddress, TimerArmed, DueFresh
  <1>3. PoolAccount
    <2>1. \A e \in Entry : mq[e] = <<>> /\ Len(mq[e]) = 0
      BY EmptyQueue DEF Init
    <2> QED BY <2>1 DEF Init, PoolAccount, Queued
  <1> QED BY <1>1, <1>2, <1>3 DEF IInv

(* A message that is queued, or dropped because the queue is full; its entry   *)
(* begins to wait if select has found none that is in use.                     *)
LEMMA EnqueueInv ==
  ASSUME IInv, NEW m \in Msg, NEW i \in Ip, Enqueue(m, i)
  PROVE  IInv'
  <1> DEFINE e == Select(i)
             room == Room(QueueAfter(i))
             q == IF room THEN Append(QueueAfter(i), m) ELSE QueueAfter(i)
  <1>1. TypeOK /\ OneEntryPerAddress /\ TimerArmed /\ PoolAccount /\ DueFresh
    BY DEF IInv
  <1>2. /\ dest[m] = NULL /\ mq' = [mq EXCEPT ![e] = q] /\ due' = due
        /\ dest' = Freed(Dropped(i), IF room THEN [dest EXCEPT ![m] = i] ELSE dest)
        /\ \/ StateAfter(i) = "IDLE" /\ StartRequest(e, i)
           \/ StateAfter(i) # "IDLE" /\ UNCHANGED <<state, ip, retry_count, timer>>
    BY DEF Enqueue, StillWaiting
  <1>3. /\ e \in Entry
        /\ Matching(i) # {} => e \in Matching(i) /\ ~Evicts(i)
    BY <1>1, SelectFacts
  <1>4. /\ mq[e] \in Seq(Msg) /\ Len(mq[e]) \in Nat /\ Len(mq[e]) < Depth /\ Distinct(mq[e])
        /\ \/ QueueAfter(i) = mq[e] /\ Dropped(i) = {}
           \/ QueueAfter(i) = <<>> /\ Dropped(i) = Elements(mq[e])
    BY <1>1, SelectQueue
  <1>5. m \notin Elements(mq[e])
    <2>1. ~Queued(e, m)
      BY <1>1, <1>2, <1>3 DEF PoolAccount
    <2> QED BY <2>1 DEF Queued, Elements
  <1> HIDE DEF e
  <1>6. /\ QueueAfter(i) \in Seq(Msg) /\ Len(QueueAfter(i)) \in Nat
        /\ Len(QueueAfter(i)) < Depth /\ Distinct(QueueAfter(i))
        /\ Elements(QueueAfter(i)) = Elements(mq[e]) \ Dropped(i)
        /\ m \notin Elements(QueueAfter(i))
    BY <1>4, <1>5, EmptyQueue
  <1>7. /\ q \in Seq(Msg) /\ Len(q) < Depth /\ Distinct(q)
        /\ Elements(q) = IF room THEN (Elements(mq[e]) \ Dropped(i)) \cup {m}
                                 ELSE Elements(mq[e]) \ Dropped(i)
    <2>1. CASE room
      <3>1. /\ Append(QueueAfter(i), m) \in Seq(Msg) /\ Distinct(Append(QueueAfter(i), m))
            /\ Len(Append(QueueAfter(i), m)) = Len(QueueAfter(i)) + 1
            /\ Elements(Append(QueueAfter(i), m)) = Elements(QueueAfter(i)) \cup {m}
        BY <1>6, AppendQueue
      <3>2. Len(QueueAfter(i)) + 1 < Depth
        BY <1>6, <2>1, ArpAssumption DEF Room
      <3> QED BY <1>6, <2>1, <3>1, <3>2
    <2>2. CASE ~room
      BY <1>6, <2>2
    <2> QED BY <2>1, <2>2
  <1>8. Dropped(i) \subseteq Elements(mq[e])
    BY <1>4
  <1>9. /\ dest' \in [Msg -> Ip \cup {NULL}]
        /\ \A n \in Msg : dest'[n] # NULL <=>
               n \in Elements(q) \/ (dest[n] # NULL /\ n \notin Elements(mq[e]))
    <2>1. dest \in [Msg -> Ip \cup {NULL}] /\ i # NULL
      BY <1>1, ArpAssumption DEF TypeOK
    <2>2. \A n \in Elements(mq[e]) : n \in Msg => dest[n] # NULL
      BY <1>1, <1>3 DEF PoolAccount, Queued, Elements
    <2> HIDE DEF q, room
    <2>3. CASE room
      BY <1>2, <1>5, <1>7, <1>8, <2>1, <2>2, <2>3 DEF Freed
    <2>4. CASE ~room
      BY <1>2, <1>7, <1>8, <2>1, <2>2, <2>4 DEF Freed
    <2> QED BY <2>3, <2>4
  <1> HIDE DEF q, room
  <1>10. PoolAccount'
    <2>1. \A n \in Elements(q) : dest[n] = NULL \/ n \in Elements(mq[e])
      BY <1>2, <1>7
    <2> QED BY <1>1, <1>2, <1>3, <1>7, <1>9, <2>1, Requeue
  <1>11. mq' \in [Entry -> Seq(Msg)] /\ \A f \in Entry : Len(mq'[f]) < Depth
    BY <1>1, <1>2, <1>3, <1>7 DEF TypeOK
  <1>12. CASE StateAfter(i) # "IDLE"
    <2>1. UNCHANGED <<state, ip, retry_count, timer, due>>
      BY <1>2, <1>12
    <2> QED BY <1>1, <1>9, <1>10, <1>11, <2>1
            DEF IInv, TypeOK, OneEntryPerAddress, TimerArmed, DueFresh
  <1>13. CASE StateAfter(i) = "IDLE"
    <2>1. /\ state' = [state EXCEPT ![e] = "WAITING"] /\ ip' = [ip EXCEPT ![e] = i]
          /\ retry_count' = [retry_count EXCEPT ![e] = 0]
          /\ timer' = [timer EXCEPT ![e] = RetryTime] /\ due' = due
      BY <1>2, <1>13 DEF StartRequest
    <2>2. Matching(i) = {}
      BY <1>3, <1>13 DEF StateAfter, Matching, In, e
    <2>3. \A f \in Entry : state[f] # "IDLE" => ip[f] # i
      BY <1>1, <2>2 DEF Matching, In, TypeOK, State
    <2>4. TypeOK'
      BY <1>1, <1>3, <1>9, <1>11, <2>1, ArpAssumption DEF TypeOK, State
    <2>5. OneEntryPerAddress'
      BY <1>1, <1>3, <2>1, <2>3 DEF TypeOK, OneEntryPerAddress
    <2>6. TimerArmed' /\ DueFresh'
      BY <1>1, <1>3, <2>1, ArpAssumption DEF TypeOK, TimerArmed, DueFresh
    <2> QED BY <1>10, <2>4, <2>5, <2>6 DEF IInv
  <1> QED BY <1>12, <1>13

(* A frame of host i, asked for or not: the entry select finds is bound to it. *)
LEMMA UpInv ==
  ASSUME IInv, NEW i \in Ip, arp_up(i)
  PROVE  IInv'
  <1> DEFINE e == Select(i)
             waited == StateAfter(i) = "WAITING"
             q == IF waited THEN <<>> ELSE QueueAfter(i)
  <1>1. TypeOK /\ OneEntryPerAddress /\ TimerArmed /\ PoolAccount
    BY DEF IInv
  <1>2. /\ due = {} /\ due' = {} /\ retry_count' = retry_count
        /\ state' = [state EXCEPT ![e] = "BOUND"]
        /\ ip' = [ip EXCEPT ![e] = i]
        /\ timer' = [timer EXCEPT ![e] = FlushTime]
        /\ mq' = [mq EXCEPT ![e] = q]
        /\ dest' = Freed(IF waited THEN Elements(mq[e]) ELSE Dropped(i), dest)
    BY DEF arp_up, Elements
  <1>3. /\ e \in Entry
        /\ Matching(i) # {} => e \in Matching(i)
    BY <1>1, SelectFacts
  <1>4. /\ mq[e] \in Seq(Msg) /\ Len(mq[e]) < Depth /\ Distinct(mq[e])
        /\ \/ QueueAfter(i) = mq[e] /\ Dropped(i) = {}
           \/ QueueAfter(i) = <<>> /\ Dropped(i) = Elements(mq[e])
    BY <1>1, SelectQueue
  <1> HIDE DEF e, waited
  <1>5. /\ q \in Seq(Msg) /\ Len(q) < Depth /\ Distinct(q)
        /\ Elements(q) = Elements(mq[e]) \ (IF waited THEN Elements(mq[e]) ELSE Dropped(i))
    BY <1>4, EmptyQueue
  <1> HIDE DEF q
  <1>6. (IF waited THEN Elements(mq[e]) ELSE Dropped(i)) \subseteq Elements(mq[e])
    BY <1>4
  <1>7. /\ dest' \in [Msg -> Ip \cup {NULL}]
        /\ \A n \in Msg : dest'[n] # NULL <=>
               n \in Elements(q) \/ (dest[n] # NULL /\ n \notin Elements(mq[e]))
    <2>1. dest \in [Msg -> Ip \cup {NULL}]
      BY <1>1 DEF TypeOK
    <2>2. \A n \in Elements(mq[e]) : n \in Msg => dest[n] # NULL
      BY <1>1, <1>3 DEF PoolAccount, Queued, Elements
    <2> QED BY <1>2, <1>5, <1>6, <2>1, <2>2 DEF Freed
  <1>8. PoolAccount'
    <2>1. \A n \in Elements(q) : dest[n] = NULL \/ n \in Elements(mq[e])
      BY <1>5
    <2> QED BY <1>1, <1>2, <1>3, <1>5, <1>7, <2>1, Requeue
  <1>9. TypeOK'
    BY <1>1, <1>2, <1>3, <1>5, <1>7, ArpAssumption DEF TypeOK, State
  <1>10. OneEntryPerAddress'
    <2>1. \A f \in Entry : f # e /\ state[f] # "IDLE" => ip[f] # i
      <3>1. ASSUME NEW f \in Entry, f # e, state[f] # "IDLE", ip[f] = i PROVE FALSE
        <4>1. f \in Matching(i)
          BY <1>1, <3>1 DEF Matching, In, TypeOK, State
        <4>2. e \in Matching(i)
          BY <1>3, <4>1
        <4>3. state[e] # "IDLE" /\ ip[e] = i
          BY <4>2 DEF Matching, In
        <4> QED BY <1>1, <1>3, <3>1, <4>3 DEF OneEntryPerAddress
      <3> QED BY <3>1
    <2> QED BY <1>1, <1>2, <1>3, <2>1 DEF TypeOK, OneEntryPerAddress
  <1>11. TimerArmed' /\ DueFresh'
    BY <1>1, <1>2, <1>3, ArpAssumption DEF TypeOK, TimerArmed, DueFresh
  <1> QED BY <1>8, <1>9, <1>10, <1>11 DEF IInv

(* A second passes: a timer that stops makes its entry due.                    *)
LEMMA SecondInv == IInv /\ Second => IInv'
  <1> SUFFICES ASSUME IInv, Second PROVE IInv'
    OBVIOUS
  <1>1. TypeOK /\ OneEntryPerAddress /\ TimerArmed /\ PoolAccount
    BY DEF IInv
  <1>2. /\ due = {} /\ due' = {e \in Entry : timer[e] = 1}
        /\ timer' = [e \in Entry |-> IF timer[e] = 0 THEN 0 ELSE timer[e] - 1]
        /\ UNCHANGED <<state, ip, mq, retry_count, dest>>
    BY DEF Second
  <1>3. \A e \in Entry : /\ timer[e] \in 0..RetryTime+FlushTime
                         /\ timer'[e] \in 0..RetryTime+FlushTime
                         /\ timer'[e] > 0 \/ e \in due' <=> timer[e] > 0
                         /\ e \in due' => timer'[e] = 0
    BY <1>1, <1>2, ArpAssumption DEF TypeOK
  <1>4. TypeOK'
    BY <1>1, <1>2, <1>3 DEF TypeOK
  <1>5. TimerArmed' /\ DueFresh'
    BY <1>1, <1>2, <1>3 DEF TimerArmed, DueFresh
  <1>6. OneEntryPerAddress' /\ PoolAccount'
    BY <1>1, <1>2 DEF OneEntryPerAddress, PoolAccount, Queued
  <1> QED BY <1>4, <1>5, <1>6 DEF IInv

(* The handler of an entry that is due: a binding is flushed, a request is     *)
(* repeated or given up.                                                       *)
LEMMA TimeoutInv ==
  ASSUME IInv, NEW e \in Entry, arp_timeout(e)
  PROVE  IInv'
  <1>1. TypeOK /\ OneEntryPerAddress /\ TimerArmed /\ PoolAccount /\ DueFresh
    BY DEF IInv
  <1>2. e \in due /\ due' = due \ {e} /\ ip' = ip
    BY DEF arp_timeout
  <1>3. CASE Flush(e)
    <2>1. /\ state[e] = "BOUND" /\ state' = [state EXCEPT ![e] = "IDLE"]
          /\ UNCHANGED <<mq, dest, retry_count, timer>>
      BY <1>3 DEF Flush
    <2>2. timer[e] = 0
      BY <1>1, <1>2, <2>1 DEF DueFresh
    <2>3. TypeOK' /\ OneEntryPerAddress' /\ PoolAccount'
      BY <1>1, <1>2, <2>1 DEF TypeOK, State, OneEntryPerAddress, PoolAccount, Queued
    <2>4. TimerArmed' /\ DueFresh'
      BY <1>1, <1>2, <2>1, <2>2 DEF TypeOK, TimerArmed, DueFresh
    <2> QED BY <2>3, <2>4 DEF IInv
  <1>4. CASE Retry(e)
    <2>1. /\ state[e] = "WAITING" /\ retry_count[e] <= RetryLimit
          /\ retry_count' = [retry_count EXCEPT ![e] = retry_count[e] + 1]
          /\ timer' = [timer EXCEPT ![e] = RetryTime]
          /\ UNCHANGED <<state, mq, dest>>
      BY <1>4 DEF Retry
    <2>2. TypeOK' /\ OneEntryPerAddress' /\ PoolAccount'
      BY <1>1, <1>2, <2>1, ArpAssumption DEF TypeOK, OneEntryPerAddress, PoolAccount, Queued
    <2>3. TimerArmed' /\ DueFresh'
      BY <1>1, <1>2, <2>1, ArpAssumption DEF TypeOK, TimerArmed, DueFresh
    <2> QED BY <2>2, <2>3 DEF IInv
  <1>5. CASE GiveUp(e)
    <2>1. /\ state[e] = "WAITING" /\ retry_count[e] > RetryLimit
          /\ state' = [state EXCEPT ![e] = "IDLE"] /\ mq' = [mq EXCEPT ![e] = <<>>]
          /\ dest' = Freed(Elements(mq[e]), dest)
          /\ UNCHANGED <<retry_count, timer>>
      BY <1>5 DEF GiveUp, Elements
    <2>2. timer[e] = 0
      BY <1>1, <1>2, <2>1, ArpAssumption DEF DueFresh, TypeOK
    <2>3. /\ dest' \in [Msg -> Ip \cup {NULL}]
          /\ \A n \in Msg : dest'[n] # NULL <=> dest[n] # NULL /\ n \notin Elements(mq[e])
      BY <1>1, <2>1 DEF TypeOK, Freed
    <2>4. PoolAccount'
      BY <1>1, <2>1, <2>3, EmptyQueue, Requeue
    <2>5. TypeOK' /\ OneEntryPerAddress'
      BY <1>1, <1>2, <2>1, <2>3, EmptyQueue DEF TypeOK, State, OneEntryPerAddress
    <2>6. TimerArmed' /\ DueFresh'
      BY <1>1, <1>2, <2>1, <2>2 DEF TypeOK, TimerArmed, DueFresh
    <2> QED BY <2>4, <2>5, <2>6 DEF IInv
  <1> QED BY <1>3, <1>4, <1>5 DEF arp_timeout

LEMMA StutterInv == IInv /\ UNCHANGED vars => IInv'
  BY DEF vars, IInv, TypeOK, OneEntryPerAddress, TimerArmed, PoolAccount, Queued, DueFresh

LEMMA NextInv == IInv /\ [Next]_vars => IInv'
  BY EnqueueInv, UpInv, SecondInv, TimeoutInv, StutterInv DEF Next, arp_down, SendNow

(* The four invariants hold together with the freshness of entries that are    *)
(* due, without which a retry could leave an entry without a timer.            *)
THEOREM Invariance == Spec => []IInv
  BY InitInv, NextInv, PTL DEF Spec

(* Types, the room in the queues and the limit of the retries.                 *)
THEOREM TypeCorrect == Spec => []TypeOK
  <1>1. IInv => TypeOK
    BY DEF IInv
  <1> QED BY Invariance, <1>1, PTL

(* No address has two entries in use.                                          *)
THEOREM NoSecondEntry == Spec => []OneEntryPerAddress
  <1>1. IInv => OneEntryPerAddress
    BY DEF IInv
  <1> QED BY Invariance, <1>1, PTL

(* Every entry in use, and no other, has a timer that will end it.             *)
THEOREM NoEntryForgotten == Spec => []TimerArmed
  <1>1. IInv => TimerArmed
    BY DEF IInv
  <1> QED BY Invariance, <1>1, PTL

(* The messages in use are those in the queues, each in one place.             *)
THEOREM NoMessageLost == Spec => []PoolAccount
  <1>1. IInv => PoolAccount
    BY DEF IInv
  <1> QED BY Invariance, <1>1, PTL
===============================================================================
