------------------------------ MODULE TimerProofs ------------------------------
(* Proofs about Timer, for any timers, durations and bounds: the chain of      *)
(* running timers is consistent, every tick is accounted for, and no timer     *)
(* expires earlier than the ticks that were waiting when it was started.       *)
EXTENDS Timer, SequenceTheorems, FiniteSetTheorems, TLAPS

Ticks == 0..TickMod-1

(* While timer_run is at work, the uncharged ticks are those of this run and   *)
(* those that have come since; they never reach TickMod.                       *)
Lags == /\ Since(tick_count, previous) <= MaxLag
        /\ pc # "tasks" => Since(tick_count, previous) =
                             Since(tick_count, sampled) + Since(sampled, previous)

Distinct(s) == \A i, j \in 1..Len(s) : s[i] = s[j] => i = j

IInv == TypeOK /\ ListConsistent /\ Lags /\ Account /\ OnTime

-------------------------------------------------------------------------------
(* Arithmetic of tick counts.                                                  *)
LEMMA SinceNat ==
  ASSUME NEW a \in Ticks, NEW b \in Ticks
  PROVE  Since(a, b) \in Nat /\ Since(a, b) < TickMod /\ Since(a, a) = 0
  BY TimerAssumption DEF Ticks, Since

LEMMA SinceTick ==
  ASSUME NEW a \in Ticks, NEW b \in Ticks, NEW c \in Ticks,
         c = IF a + 1 = TickMod THEN 0 ELSE a + 1,
         Since(a, b) + 1 < TickMod
  PROVE  Since(c, b) = Since(a, b) + 1
  BY TimerAssumption DEF Ticks, Since

(* Taking the element at i out of a sequence.                                  *)
LEMMA RemoveProperties ==
  ASSUME NEW S, NEW s \in Seq(S), NEW i \in 1..Len(s)
  PROVE  /\ Remove(s, i) \in Seq(S)
         /\ Len(Remove(s, i)) = Len(s) - 1
         /\ \A j \in 1..Len(s)-1 : Remove(s, i)[j] = IF j < i THEN s[j] ELSE s[j + 1]
  <1> DEFINE a == SubSeq(s, 1, i - 1)
             b == SubSeq(s, i + 1, Len(s))
  <1>1. Len(s) \in Nat /\ i \in Nat /\ 1 <= i /\ i <= Len(s)
    BY LenProperties
  <1>2. a \in Seq(S) /\ Len(a) = i - 1 /\ \A j \in 1..i-1 : a[j] = s[j]
    BY <1>1, SubSeqProperties
  <1>3. b \in Seq(S) /\ Len(b) = Len(s) - i /\ \A j \in 1..Len(s)-i : b[j] = s[i + j]
    BY <1>1, SubSeqProperties
  <1>4. /\ a \o b \in Seq(S) /\ Len(a \o b) = Len(s) - 1
        /\ \A j \in 1..Len(s)-1 : (a \o b)[j] = IF j <= i - 1 THEN a[j] ELSE b[j - (i - 1)]
    <2> HIDE DEF a, b
    <2>1. Len(a) = i - 1 /\ Len(a) + Len(b) = Len(s) - 1
      BY <1>1, <1>2, <1>3
    <2>2. /\ a \o b \in Seq(S) /\ Len(a \o b) = Len(a) + Len(b)
          /\ \A j \in 1..Len(a)+Len(b) :
                (a \o b)[j] = IF j <= Len(a) THEN a[j] ELSE b[j - Len(a)]
      BY <1>2, <1>3, ConcatProperties
    <2> QED BY <2>1, <2>2
  <1>5. ASSUME NEW j \in 1..Len(s)-1
        PROVE  (a \o b)[j] = IF j < i THEN s[j] ELSE s[j + 1]
    <2> HIDE DEF a, b
    <2>1. CASE j < i
      BY <2>1, <1>1, <1>2, <1>4
    <2>2. CASE ~(j < i)
      <3>1. j - (i - 1) \in 1..Len(s)-i /\ i + (j - (i - 1)) = j + 1 /\ ~(j <= i - 1)
        BY <2>2, <1>1
      <3> QED BY <3>1, <2>2, <1>3, <1>4
    <2> QED BY <2>1, <2>2
  <1> QED BY <1>4, <1>5 DEF Remove

LEMMA RemoveDistinct ==
  ASSUME NEW S, NEW s \in Seq(S), Distinct(s), NEW i \in 1..Len(s)
  PROVE  /\ Distinct(Remove(s, i))
         /\ \A u : (\E j \in 1..Len(Remove(s, i)) : Remove(s, i)[j] = u)
                      <=> u # s[i] /\ \E j \in 1..Len(s) : s[j] = u
         /\ \A u : (\E j \in i..Len(Remove(s, i)) : Remove(s, i)[j] = u)
                      <=> \E j \in i+1..Len(s) : s[j] = u
  <1> DEFINE r == Remove(s, i)
  <1>1. /\ Len(s) \in Nat /\ i \in Nat /\ 1 <= i /\ i <= Len(s)
        /\ Len(r) = Len(s) - 1
        /\ \A j \in 1..Len(s)-1 : r[j] = IF j < i THEN s[j] ELSE s[j + 1]
    <2>1. Len(s) \in Nat /\ i \in Nat /\ 1 <= i /\ i <= Len(s)
      BY LenProperties
    <2>2. Len(r) = Len(s) - 1 /\ \A j \in 1..Len(s)-1 : r[j] = IF j < i THEN s[j] ELSE s[j + 1]
      BY RemoveProperties
    <2> QED BY <2>1, <2>2
  <1> HIDE DEF r
  <1>2. Distinct(r)
    <2> DEFINE at(j) == IF j < i THEN j ELSE j + 1
    <2>1. \A j \in 1..Len(r) : at(j) \in 1..Len(s) /\ r[j] = s[at(j)]
      BY <1>1
    <2>2. \A j, k \in 1..Len(r) : at(j) = at(k) => j = k
      BY <1>1
    <2> HIDE DEF at
    <2> QED BY <2>1, <2>2 DEF Distinct
  <1>3. ASSUME NEW u
        PROVE  (\E j \in 1..Len(r) : r[j] = u) <=> u # s[i] /\ \E j \in 1..Len(s) : s[j] = u
    <2>1. ASSUME NEW j \in 1..Len(r), r[j] = u
          PROVE  u # s[i] /\ \E k \in 1..Len(s) : s[k] = u
      <3>1. CASE j < i
        BY <3>1, <2>1, <1>1 DEF Distinct
      <3>2. CASE ~(j < i)
        <4>1. r[j] = s[j + 1] /\ j + 1 \in 1..Len(s) /\ j + 1 # i
          BY <3>2, <1>1
        <4> QED BY <4>1, <2>1, <1>1 DEF Distinct
      <3> QED BY <3>1, <3>2
    <2>2. ASSUME NEW k \in 1..Len(s), s[k] = u, u # s[i]
          PROVE  \E j \in 1..Len(r) : r[j] = u
      <3>1. CASE k < i
        BY <3>1, <2>2, <1>1
      <3>2. CASE k > i
        <4>1. k - 1 \in 1..Len(r) /\ r[k - 1] = s[k]
          BY <3>2, <1>1
        <4> QED BY <4>1, <2>2
      <3> QED BY <3>1, <3>2, <2>2, <1>1
    <2> QED BY <2>1, <2>2
  <1>4. ASSUME NEW u
        PROVE  (\E j \in i..Len(r) : r[j] = u) <=> \E j \in i+1..Len(s) : s[j] = u
    <2>1. ASSUME NEW j \in i..Len(r), r[j] = u PROVE \E k \in i+1..Len(s) : s[k] = u
      <3>1. r[j] = s[j + 1] /\ j + 1 \in i+1..Len(s)
        BY <1>1
      <3> QED BY <3>1, <2>1
    <2>2. ASSUME NEW k \in i+1..Len(s), s[k] = u PROVE \E j \in i..Len(r) : r[j] = u
      <3>1. k - 1 \in i..Len(r) /\ r[k - 1] = s[k]
        BY <1>1
      <3> QED BY <3>1, <2>2
    <2> QED BY <2>1, <2>2
  <1> QED BY <1>2, <1>3, <1>4 DEF r
-------------------------------------------------------------------------------
LEMMA InitInv == Init => IInv
  <1> SUFFICES ASSUME Init PROVE IInv
    OBVIOUS
  <1> USE TimerAssumption DEF Init
  <1>1. TypeOK
    BY DEF TypeOK, PC
  <1>2. ListConsistent
    BY DEF ListConsistent, Linked
  <1>3. Lags
    BY DEF Lags, Since
  <1>4. Account
    BY DEF Account
  <1>5. OnTime
    BY DEF OnTime
  <1> QED BY <1>1, <1>2, <1>3, <1>4, <1>5 DEF IInv

(* The tick interrupt: every running timer is one tick older, and there is one *)
(* more tick to charge.                                                        *)
LEMMA TickInv == IInv /\ Tick => IInv'
  <1> SUFFICES ASSUME IInv, Tick PROVE IInv'
    OBVIOUS
  <1>1. TypeOK'
    BY TimerAssumption DEF IInv, TypeOK, Tick
  <1>2. ListConsistent'
    BY DEF IInv, ListConsistent, Linked, Tick
  <1>3. /\ tick_count \in Ticks /\ tick_count' \in Ticks
        /\ previous \in Ticks /\ sampled \in Ticks
        /\ Since(tick_count, previous) < MaxLag
        /\ tick_count' = IF tick_count + 1 = TickMod THEN 0 ELSE tick_count + 1
    BY <1>1 DEF IInv, TypeOK, Tick, Ticks
  <1>4. /\ Since(tick_count', previous) = Since(tick_count, previous) + 1
        /\ pc # "tasks" => Since(tick_count', sampled) = Since(tick_count, sampled) + 1
    <2>1. Since(tick_count, previous) + 1 < TickMod
      BY <1>3, SinceNat, TimerAssumption
    <2>2. pc # "tasks" => Since(tick_count, sampled) + 1 < TickMod
      <3>1. pc # "tasks" => Since(tick_count, previous) =
                              Since(tick_count, sampled) + Since(sampled, previous)
        BY DEF IInv, Lags
      <3>2. Since(sampled, previous) \in Nat /\ Since(tick_count, sampled) \in Nat
        BY <1>3, SinceNat
      <3>3. Since(tick_count, previous) \in Nat /\ TickMod \in Nat
        BY <1>3, SinceNat, TimerAssumption
      <3> QED BY <2>1, <3>1, <3>2, <3>3
    <2> QED BY <1>3, <2>1, <2>2, SinceTick
  <1>5. Lags'
    <2>1. Since(tick_count, previous) \in Nat /\ Since(tick_count, sampled) \in Nat
          /\ Since(sampled, previous) \in Nat
      BY <1>3, SinceNat
    <2>2. pc' = pc /\ previous' = previous /\ sampled' = sampled
      BY DEF Tick
    <2>3. pc # "tasks" => Since(tick_count, previous) =
                              Since(tick_count, sampled) + Since(sampled, previous)
      BY DEF IInv, Lags
    <2> QED BY <1>3, <1>4, <2>1, <2>2, <2>3, TimerAssumption DEF Lags
  <1>6. Account' /\ OnTime'
    <2>1. ASSUME NEW t \in Timer, running'[t]
          PROVE  /\ remaining'[t] + age'[t] + lag0'[t] >= asked'[t] + Lag(t)'
                 /\ remaining'[t] + age'[t] <= asked'[t] + Lag(t)'
      <3>1. /\ remaining' = remaining /\ lag0' = lag0 /\ asked' = asked
            /\ running' = running
            /\ age'[t] = IF running[t] /\ age[t] <= asked[t] + MaxLag THEN age[t] + 1 ELSE age[t]
        BY <2>1 DEF Tick
      <3>2. Lag(t)' = Lag(t) + 1 /\ Lag(t) \in Nat /\ Lag(t) <= MaxLag
        <4>1. /\ previous' = previous /\ sampled' = sampled
              /\ Charged(t)' <=> Charged(t)
          BY DEF Tick, Charged
        <4>2. Charged(t) => pc # "tasks"
          BY DEF Charged
        <4>3. Lag(t)' = Lag(t) + 1
          BY <1>4, <4>1, <4>2 DEF Lag
        <4>4. Lag(t) \in Nat
          BY <1>3, SinceNat DEF Lag
        <4>5. CASE ~Charged(t)
          BY <1>3, <4>3, <4>4, <4>5, TimerAssumption DEF Lag
        <4>6. CASE Charged(t)
          <5>1. Since(tick_count, previous) = Since(tick_count, sampled) + Since(sampled, previous)
            BY <4>2, <4>6 DEF IInv, Lags
          <5>2. /\ Since(tick_count, previous) \in Nat /\ Since(sampled, previous) \in Nat
                /\ Lag(t) = Since(tick_count, sampled)
            BY <1>3, <4>6, SinceNat DEF Lag
          <5> QED BY <1>3, <4>3, <4>4, <5>1, <5>2, TimerAssumption
        <4> QED BY <4>5, <4>6
      <3>3. /\ remaining[t] + age[t] + lag0[t] >= asked[t] + Lag(t)
            /\ remaining[t] + age[t] <= asked[t] + Lag(t)
        BY <2>1, <3>1 DEF IInv, Account, OnTime
      <3>4. /\ remaining[t] \in Nat /\ age[t] \in Nat /\ lag0[t] \in Nat /\ asked[t] \in Nat
            /\ running[t] /\ MaxLag \in Nat
        BY <2>1, <3>1, TimerAssumption DEF IInv, TypeOK
      <3>5. age'[t] = age[t] + 1
        BY <3>1, <3>2, <3>3, <3>4
      <3> QED BY <3>1, <3>2, <3>3, <3>4, <3>5
    <2> QED BY <2>1 DEF Account, OnTime
  <1> QED BY <1>1, <1>2, <1>5, <1>6 DEF IInv

(* Within a task or a handler the uncharged ticks do not depend on the chain.  *)
LEMMA TaskLag ==
  ASSUME TypeOK, InTask,
         pc' = pc, tick_count' = tick_count, previous' = previous, sampled' = sampled
  PROVE  \A t \in Timer : Lag(t) \in Nat /\ Lag(t)' = Lag(t)
  <1>1. \A t \in Timer : Charged(t)' <=> Charged(t)
    BY DEF InTask, Charged
  <1>2. tick_count \in Ticks /\ previous \in Ticks /\ sampled \in Ticks
    BY DEF TypeOK, Ticks
  <1> QED BY <1>1, <1>2, SinceNat DEF Lag

LEMMA StartInv == ASSUME NEW t \in Timer, NEW n \in Duration, IInv, timer_start(t, n)
                  PROVE  IInv'
  <1> USE DEF timer_start, Timed
  <1>0. n \in Nat
    BY TimerAssumption
  <1>1. \A u \in Timer : Lag(u) \in Nat /\ Lag(u)' = Lag(u)
    BY TaskLag DEF IInv
  <1>2. TypeOK'
    <2>1. list' \in Seq(Timer) /\ running' \in [Timer -> BOOLEAN]
      <3>1. list \in Seq(Timer) /\ <<t>> \in Seq(Timer) /\ running \in [Timer -> BOOLEAN]
        BY DEF IInv, TypeOK
      <3>2. <<t>> \o list \in Seq(Timer)
        BY <3>1, ConcatProperties
      <3> QED BY <3>1, <3>2
    <2>2. /\ remaining' \in [Timer -> Nat] /\ age' \in [Timer -> Nat]
          /\ asked' \in [Timer -> Nat] /\ lag0' \in [Timer -> Nat]
      BY <1>0, <1>1 DEF IInv, TypeOK
    <2> QED BY <2>1, <2>2 DEF IInv, TypeOK
  <1>3. ListConsistent'
    <2>1. CASE running[t]
      BY <2>1 DEF IInv, ListConsistent, Linked
    <2>2. CASE ~running[t]
      <3>1. /\ list' = <<t>> \o list /\ list \in Seq(Timer) /\ <<t>> \in Seq(Timer)
            /\ running' = [running EXCEPT ![t] = TRUE]
            /\ running \in [Timer -> BOOLEAN]
        BY <2>2 DEF IInv, TypeOK
      <3>2. /\ Len(list) \in Nat /\ Len(list') = Len(list) + 1
            /\ \A i \in 1..Len(list)+1 : list'[i] = IF i <= 1 THEN t ELSE list[i - 1]
        <4>1. Len(<<t>>) = 1 /\ <<t>>[1] = t /\ Len(list) \in Nat
          BY <3>1, LenProperties
        <4>2. /\ Len(list') = Len(<<t>>) + Len(list)
              /\ \A i \in 1..Len(<<t>>)+Len(list) :
                     list'[i] = IF i <= Len(<<t>>) THEN <<t>>[i] ELSE list[i - Len(<<t>>)]
          BY <3>1, ConcatProperties
        <4>3. ASSUME NEW i \in 1..Len(list)+1
              PROVE  list'[i] = IF i <= 1 THEN t ELSE list[i - 1]
          <5>1. i \in 1..Len(<<t>>)+Len(list)
            BY <4>1
          <5>2. CASE i = 1
            BY <4>1, <4>2, <5>1, <5>2
          <5>3. CASE i # 1
            BY <4>1, <4>2, <5>1, <5>3
          <5> QED BY <5>2, <5>3
        <4> QED BY <4>1, <4>2, <4>3
      <3>3. ~Linked(t) /\ \A i, j \in 1..Len(list) : list[i] = list[j] => i = j
        BY <2>2 DEF IInv, ListConsistent
      <3>4. \A i, j \in 1..Len(list') : list'[i] = list'[j] => i = j
        <4>1. \A i \in 2..Len(list') : i - 1 \in 1..Len(list) /\ list'[i] = list[i - 1]
          BY <3>2
        <4>2. \A i \in 2..Len(list') : list'[i] # t
          BY <3>3, <4>1 DEF Linked
        <4>3. 1 \in 1..Len(list') /\ list'[1] = t
          BY <3>2
        <4>4. ASSUME NEW i \in 1..Len(list'), NEW j \in 1..Len(list'), list'[i] = list'[j]
              PROVE  i = j
          <5>1. CASE i = 1 \/ j = 1
            BY <4>2, <4>3, <4>4, <5>1, <3>2
          <5>2. CASE i # 1 /\ j # 1
            <6>1. i \in 2..Len(list') /\ j \in 2..Len(list')
              BY <5>2, <3>2
            <6>2. i - 1 = j - 1
              BY <6>1, <4>1, <4>4, <3>3
            <6> QED BY <6>1, <6>2
          <5> QED BY <5>1, <5>2
        <4> QED BY <4>4
      <3>5. ASSUME NEW u \in Timer PROVE running'[u] <=> Linked(u)'
        <4>1. Linked(u)' <=> u = t \/ Linked(u)
          <5>1. ASSUME NEW i \in 1..Len(list'), list'[i] = u PROVE u = t \/ Linked(u)
            <6>1. CASE i = 1
              BY <6>1, <5>1, <3>2
            <6>2. CASE i # 1
              <7>1. i - 1 \in 1..Len(list) /\ list'[i] = list[i - 1]
                BY <6>2, <3>2
              <7> QED BY <7>1, <5>1 DEF Linked
            <6> QED BY <6>1, <6>2
          <5>2. ASSUME NEW i \in 1..Len(list), list[i] = u
                PROVE  \E j \in 1..Len(list') : list'[j] = u
            <6>1. i + 1 \in 1..Len(list') /\ list'[i + 1] = list[i]
              BY <3>2
            <6> QED BY <6>1, <5>2
          <5>3. 1 \in 1..Len(list') /\ list'[1] = t
            BY <3>2
          <5> QED BY <5>1, <5>2, <5>3 DEF Linked
        <4>2. running[u] <=> Linked(u)
          BY DEF IInv, ListConsistent
        <4> QED BY <4>1, <4>2, <3>1
      <3> QED BY <3>4, <3>5 DEF ListConsistent
    <2> QED BY <2>1, <2>2
  <1>4. Lags'
    BY DEF IInv, Lags
  <1>5. Account' /\ OnTime'
    <2>1. ASSUME NEW u \in Timer, running'[u]
          PROVE  /\ remaining'[u] + age'[u] + lag0'[u] >= asked'[u] + Lag(u)'
                 /\ remaining'[u] + age'[u] <= asked'[u] + Lag(u)'
      <3>1. CASE u = t
        <4>1. remaining'[u] = n /\ age'[u] = 0 /\ lag0'[u] = Lag(u) /\ asked'[u] = n
          BY <3>1 DEF IInv, TypeOK
        <4> QED BY <4>1, <1>0, <1>1
      <3>2. CASE u # t
        <4>1. /\ remaining'[u] = remaining[u] /\ age'[u] = age[u] /\ lag0'[u] = lag0[u]
              /\ asked'[u] = asked[u] /\ running[u]
          BY <3>2, <2>1 DEF IInv, TypeOK
        <4> QED BY <4>1, <1>1 DEF IInv, Account, OnTime
      <3> QED BY <3>1, <3>2
    <2> QED BY <2>1 DEF Account, OnTime
  <1> QED BY <1>2, <1>3, <1>4, <1>5 DEF IInv

(* Taking a timer out of the chain, by timer_stop or timer_reset.              *)
LEMMA UnlinkInv ==
  ASSUME NEW t \in Timer, TypeOK, ListConsistent, Unlink(t)
  PROVE  /\ list' \in Seq(Timer) /\ running' \in [Timer -> BOOLEAN]
         /\ ListConsistent'
         /\ \A u \in Timer : running'[u] <=> running[u] /\ u # t
  <1>1. /\ list \in Seq(Timer) /\ running \in [Timer -> BOOLEAN] /\ Distinct(list)
        /\ \A u \in Timer : running[u] <=> Linked(u)
    BY DEF TypeOK, ListConsistent, Distinct
  <1>2. CASE Linked(t)
    <2>1. Place(t) \in 1..Len(list) /\ list[Place(t)] = t
      BY <1>2 DEF Linked, Place
    <2>2. list' = Remove(list, Place(t)) /\ running' = [running EXCEPT ![t] = FALSE]
      BY <1>2 DEF Unlink
    <2>3. /\ list' \in Seq(Timer) /\ Distinct(list')
          /\ \A u : (\E j \in 1..Len(list') : list'[j] = u)
                      <=> u # t /\ \E j \in 1..Len(list) : list[j] = u
      <3>1. list' \in Seq(Timer)
        BY <1>1, <2>1, <2>2, RemoveProperties
      <3>2. /\ Distinct(Remove(list, Place(t)))
            /\ \A u : (\E j \in 1..Len(Remove(list, Place(t))) : Remove(list, Place(t))[j] = u)
                        <=> u # list[Place(t)] /\ \E j \in 1..Len(list) : list[j] = u
        BY <1>1, <2>1, RemoveDistinct, Zenon
      <3> QED BY <3>1, <3>2, <2>1, <2>2
    <2>4. \A u \in Timer : Linked(u)' <=> u # t /\ Linked(u)
      BY <2>3 DEF Linked
    <2>5. \A u \in Timer : running'[u] <=> running[u] /\ u # t
      BY <1>1, <2>2
    <2> QED BY <1>1, <2>2, <2>3, <2>4, <2>5 DEF ListConsistent, Distinct
  <1>3. CASE ~Linked(t)
    <2>1. list' = list /\ running' = running /\ ~running[t]
      BY <1>1, <1>3 DEF Unlink
    <2> QED BY <1>1, <2>1 DEF ListConsistent, Linked
  <1> QED BY <1>2, <1>3

(* The timers that go on running keep their account.                           *)
LEMMA StopInv == ASSUME NEW t \in Timer, IInv, timer_stop(t) \/ timer_reset(t)
                 PROVE  IInv'
  <1>1. /\ Unlink(t) /\ InTask /\ UNCHANGED <<tick_count, previous, sampled, pc, pos,
                                             expired_timers, age, asked, lag0>>
    BY DEF timer_stop, timer_reset, ghosts
  <1>2. /\ list' \in Seq(Timer) /\ running' \in [Timer -> BOOLEAN] /\ ListConsistent'
        /\ \A u \in Timer : running'[u] <=> running[u] /\ u # t
    BY <1>1, UnlinkInv DEF IInv
  <1>3. /\ remaining' \in [Timer -> Nat] /\ expired' \in [Timer -> BOOLEAN]
        /\ \A u \in Timer : u # t => remaining'[u] = remaining[u]
    <2>1. CASE timer_stop(t)
      BY <2>1 DEF IInv, TypeOK, timer_stop
    <2>2. CASE timer_reset(t)
      BY <2>2 DEF IInv, TypeOK, timer_reset
    <2> QED BY <2>1, <2>2
  <1>5. TypeOK'
    BY <1>1, <1>2, <1>3 DEF IInv, TypeOK
  <1>6. Lags'
    BY <1>1 DEF IInv, Lags
  <1>7. \A u \in Timer : Lag(u)' = Lag(u)
    BY <1>1, TaskLag DEF IInv
  <1>8. Account' /\ OnTime'
    BY <1>1, <1>2, <1>3, <1>7 DEF IInv, Account, OnTime
  <1> QED BY <1>2, <1>5, <1>6, <1>8 DEF IInv

-------------------------------------------------------------------------------
(* timer_run begins: every running timer is still to be visited.               *)
LEMMA StartRunInv == IInv /\ StartRun => IInv'
  <1> SUFFICES ASSUME IInv, StartRun PROVE IInv'
    OBVIOUS
  <1> USE DEF StartRun, ghosts
  <1>1. TypeOK'
    BY DEF IInv, TypeOK, PC
  <1>2. ListConsistent'
    BY DEF IInv, ListConsistent, Linked
  <1>3. tick_count \in Ticks /\ previous \in Ticks
    BY DEF IInv, TypeOK, Ticks
  <1>4. Lags'
    BY <1>3, SinceNat DEF IInv, Lags
  <1>5. \A t \in Timer : running[t] => Lag(t)' = Lag(t)
    BY DEF IInv, ListConsistent, Linked, Lag, Charged
  <1>6. Account' /\ OnTime'
    BY <1>5 DEF IInv, Account, OnTime
  <1> QED BY <1>1, <1>2, <1>4, <1>6 DEF IInv

(* One turn of the walk: the timer at pos is charged the ticks of this run, or *)
(* postponed by one tick, or leaves the chain; the others see no change.       *)
LEMMA ScanInv ==
  IInv /\ Scan => /\ IInv'
                  /\ \A t \in Timer : running[t] /\ ~running'[t] => age[t] + lag0[t] >= asked[t]
  <1> SUFFICES ASSUME IInv, Scan
               PROVE  /\ IInv'
                      /\ \A t \in Timer : running[t] /\ ~running'[t]
                                           => age[t] + lag0[t] >= asked[t]
    OBVIOUS
  <1>1. PICK t \in Timer, n \in Nat :
            /\ t = list[pos] /\ n = Since(sampled, previous)
            /\ pc = "scan" /\ pc' = "scan" /\ pos \in 1..Len(list)
            /\ UNCHANGED <<tick_count, previous, sampled>>
            /\ Keep(t, n) \/ Postpone(t, n) \/ Expire(t, n)
    <2>1. pos \in 1..Len(list) /\ list[pos] \in Timer
      BY ElementOfSeq DEF IInv, TypeOK, Scan
    <2>2. Since(sampled, previous) \in Nat
      BY SinceNat DEF IInv, TypeOK, Ticks
    <2>3. /\ pc = "scan" /\ UNCHANGED <<tick_count, previous, sampled, pc>>
          /\ \/ Keep(list[pos], Since(sampled, previous))
             \/ Postpone(list[pos], Since(sampled, previous))
             \/ Expire(list[pos], Since(sampled, previous))
      BY DEF Scan
    <2> QED BY <2>1, <2>2, <2>3
  <1>2. /\ tick_count \in Ticks /\ previous \in Ticks /\ sampled \in Ticks
        /\ list \in Seq(Timer) /\ pos \in Nat \ {0} /\ Len(list) \in Nat
        /\ running \in [Timer -> BOOLEAN] /\ remaining \in [Timer -> Nat]
        /\ expired \in [Timer -> BOOLEAN] /\ expired_timers \in Seq(Timer)
        /\ age \in [Timer -> Nat] /\ asked \in [Timer -> Nat] /\ lag0 \in [Timer -> Nat]
    BY DEF IInv, TypeOK, Ticks
  <1>3. /\ Since(tick_count, sampled) \in Nat
        /\ Since(tick_count, previous) = Since(tick_count, sampled) + n
    BY <1>1, <1>2, SinceNat DEF IInv, Lags
  <1>4. /\ Distinct(list)
        /\ \A u \in Timer : running[u] <=> Linked(u)
        /\ running[t]
    BY <1>1 DEF IInv, ListConsistent, Linked, Distinct
  <1>5. Lag(t) = Since(tick_count, previous)
    BY <1>1 DEF Lag, Charged
  <1>6. /\ remaining[t] + age[t] + lag0[t] >= asked[t] + Since(tick_count, previous)
        /\ remaining[t] + age[t] <= asked[t] + Since(tick_count, previous)
    BY <1>1, <1>4, <1>5 DEF IInv, Account, OnTime
  <1>7. /\ pos \in Nat \ {0} /\ pos + 1 \in Nat \ {0}
        /\ Len(list) \in Nat /\ pos <= Len(list) /\ list[pos] = t
    <2>1. pos \in 1..Len(list) /\ list[pos] = t
      BY <1>1
    <2>2. Len(list) \in Nat
      BY <1>2
    <2> QED BY <2>1, <2>2
  <1>8. age[t] \in Nat /\ asked[t] \in Nat /\ lag0[t] \in Nat /\ remaining[t] \in Nat
    BY <1>2
  <1>9. Lags'
    BY <1>1, <1>2 DEF IInv, Lags
  <1>10. CASE Keep(t, n) \/ Postpone(t, n)
    <2>0. /\ list' = list /\ running' = running /\ expired' = expired
          /\ expired_timers' = expired_timers /\ pos' = pos + 1
      BY <1>10 DEF Keep, Postpone
    <2>1. /\ remaining' \in [Timer -> Nat] /\ age' \in [Timer -> Nat]
          /\ asked' \in [Timer -> Nat] /\ lag0' \in [Timer -> Nat]
          /\ remaining'[t] + age'[t] + lag0'[t] >= asked'[t] + Since(tick_count, sampled)
          /\ remaining'[t] + age'[t] <= asked'[t] + Since(tick_count, sampled)
          /\ \A u \in Timer : u # t => /\ remaining'[u] = remaining[u] /\ age'[u] = age[u]
                                      /\ asked'[u] = asked[u] /\ lag0'[u] = lag0[u]
      <3>1. CASE Keep(t, n)
        <4>1. /\ remaining' = [remaining EXCEPT ![t] = remaining[t] - n]
              /\ remaining[t] - n \in Nat
              /\ age' = age /\ asked' = asked /\ lag0' = lag0
          BY <3>1, <1>1, <1>2, <1>8, SMTT(30) DEF Keep, NotDue, ghosts
        <4>2. remaining'[t] = remaining[t] - n /\ age'[t] = age[t]
              /\ asked'[t] = asked[t] /\ lag0'[t] = lag0[t]
          BY <4>1, <1>1, <1>2
        <4>3. /\ remaining'[t] + age'[t] + lag0'[t] >= asked'[t] + Since(tick_count, sampled)
              /\ remaining'[t] + age'[t] <= asked'[t] + Since(tick_count, sampled)
          <5>1. n \in Nat /\ Since(tick_count, previous) = Since(tick_count, sampled) + n
            BY <1>1, <1>3
          <5> QED BY <1>3, <1>6, <1>8, <4>2, <5>1
        <4> QED BY <1>2, <4>1, <4>3
      <3>2. CASE Postpone(t, n)
        <4>1. /\ remaining' = [remaining EXCEPT ![t] = 1]
              /\ age' = [age EXCEPT ![t] = 0]
              /\ asked' = [asked EXCEPT ![t] = 1]
              /\ lag0' = [lag0 EXCEPT ![t] = Since(tick_count, sampled)]
          BY <3>2 DEF Postpone, Timed
        <4>2. remaining'[t] = 1 /\ age'[t] = 0 /\ asked'[t] = 1
              /\ lag0'[t] = Since(tick_count, sampled)
          BY <4>1, <1>1, <1>2
        <4>3. /\ remaining'[t] + age'[t] + lag0'[t] >= asked'[t] + Since(tick_count, sampled)
              /\ remaining'[t] + age'[t] <= asked'[t] + Since(tick_count, sampled)
          BY <1>3, <4>2
        <4> QED BY <1>2, <1>3, <4>1, <4>3
      <3> QED BY <1>10, <3>1, <3>2
    <2>2. TypeOK'
      <3>1. pos' \in Nat \ {0}
        BY <1>7, <2>0
      <3> QED BY <1>1, <1>2, <2>0, <2>1, <3>1 DEF IInv, TypeOK
    <2>3. ListConsistent'
      BY <2>0 DEF IInv, ListConsistent, Linked
    <2>4. \A u \in Timer : u # t => Lag(u)' = Lag(u)
      <3>1. ASSUME NEW u \in Timer, u # t PROVE Charged(u)' <=> Charged(u)
        <4>2. (\A j \in pos..Len(list) : list[j] # u) <=> \A j \in pos+1..Len(list) : list[j] # u
          BY <1>7, <3>1
        <4> QED BY <1>1, <2>0, <4>2 DEF Charged
      <3> QED BY <1>1, <3>1 DEF Lag
    <2>5. Lag(t)' = Since(tick_count, sampled)
      <3>1. \A i \in pos+1..Len(list) : list[i] # t
        BY <1>1, <1>2, <1>4 DEF Distinct
      <3> QED BY <1>1, <2>0, <3>1 DEF Lag, Charged
    <2>6. Account' /\ OnTime'
      <3>1. ASSUME NEW u \in Timer, running'[u]
            PROVE  /\ remaining'[u] + age'[u] + lag0'[u] >= asked'[u] + Lag(u)'
                   /\ remaining'[u] + age'[u] <= asked'[u] + Lag(u)'
        <4>1. CASE u = t
          BY <4>1, <2>1, <2>5
        <4>2. CASE u # t
          BY <3>1, <4>2, <1>1, <1>2, <2>0, <2>1, <2>4 DEF IInv, Account, OnTime
        <4> QED BY <4>1, <4>2
      <3> QED BY <3>1 DEF Account, OnTime
    <2> QED BY <1>9, <2>0, <2>2, <2>3, <2>6 DEF IInv
  <1>11. CASE Expire(t, n)
    <2>1. /\ list' = Remove(list, pos) /\ pos' = pos
          /\ expired_timers' = Append(expired_timers, t)
          /\ remaining' = [remaining EXCEPT ![t] = 0]
          /\ running' = [running EXCEPT ![t] = FALSE]
          /\ expired' = [expired EXCEPT ![t] = TRUE]
          /\ n >= remaining[t] /\ UNCHANGED <<age, asked, lag0>>
      BY <1>8, <1>11 DEF Expire, NotDue, ghosts
    <2>2. /\ list' \in Seq(Timer) /\ Distinct(list')
          /\ \A u : (\E j \in 1..Len(list') : list'[j] = u)
                      <=> u # t /\ \E j \in 1..Len(list) : list[j] = u
          /\ \A u : (\E j \in pos..Len(list') : list'[j] = u)
                      <=> \E j \in pos+1..Len(list) : list[j] = u
      <3>1. list' \in Seq(Timer)
        BY <1>1, <1>2, <2>1, RemoveProperties
      <3>2. /\ Distinct(Remove(list, pos))
            /\ \A u : (\E j \in 1..Len(Remove(list, pos)) : Remove(list, pos)[j] = u)
                        <=> u # list[pos] /\ \E j \in 1..Len(list) : list[j] = u
            /\ \A u : (\E j \in pos..Len(Remove(list, pos)) : Remove(list, pos)[j] = u)
                        <=> \E j \in pos+1..Len(list) : list[j] = u
        <4>1. list \in Seq(Timer) /\ Distinct(list) /\ pos \in 1..Len(list)
          BY <1>1, <1>2, <1>4
        <4> QED BY <4>1, RemoveDistinct, Zenon
      <3>3. t = list[pos] /\ list' = Remove(list, pos)
        BY <1>1, <2>1
      <3> QED BY <3>1, <3>2, <3>3
    <2>3. TypeOK'
      BY <1>1, <1>2, <2>1, <2>2, AppendProperties DEF IInv, TypeOK
    <2>4. ListConsistent'
      <3>1. \A u \in Timer : Linked(u)' <=> u # t /\ Linked(u)
        BY <2>2 DEF Linked
      <3>2. \A u \in Timer : running'[u] <=> running[u] /\ u # t
        BY <1>2, <2>1
      <3> QED BY <1>4, <2>2, <3>1, <3>2 DEF ListConsistent, Distinct
    <2>5. \A u \in Timer : u # t => Lag(u)' = Lag(u)
      <3>1. ASSUME NEW u \in Timer, u # t PROVE Charged(u)' <=> Charged(u)
        <4>1. (\E j \in pos..Len(list) : list[j] = u) <=> \E j \in pos+1..Len(list) : list[j] = u
          BY <1>7, <3>1
        <4> QED BY <1>1, <2>1, <2>2, <4>1 DEF Charged
      <3> QED BY <1>1, <3>1 DEF Lag
    <2>6. Account' /\ OnTime'
      BY <1>1, <1>2, <2>1, <2>5 DEF IInv, Account, OnTime
    <2>7. age[t] + lag0[t] >= asked[t]
      BY <1>3, <1>6, <1>8, <2>1
    <2>8. \A u \in Timer : running[u] /\ ~running'[u] => u = t
      BY <1>2, <2>1
    <2> QED BY <1>9, <2>3, <2>4, <2>6, <2>7, <2>8 DEF IInv
  <1> QED BY <1>1, <1>10, <1>11

(* The walk is over, handlers are called and return, timer_run returns.        *)
LEMMA RunInv == IInv /\ (ScanDone \/ Notify \/ Return \/ EndRun)
                  => IInv' /\ UNCHANGED running
  <1> SUFFICES ASSUME IInv, ScanDone \/ Notify \/ Return \/ EndRun
               PROVE  IInv' /\ UNCHANGED running
    OBVIOUS
  <1>1. /\ UNCHANGED <<tick_count, sampled, list, running, remaining, expired, pos,
                       age, asked, lag0>>
        /\ pc # "tasks" /\ pc' \in PC /\ expired_timers' \in Seq(Timer)
    <2>1. expired_timers # <<>> => Tail(expired_timers) \in Seq(Timer)
      BY HeadTailProperties DEF IInv, TypeOK
    <2> QED BY <2>1 DEF IInv, TypeOK, PC, ScanDone, Notify, Return, EndRun, ghosts
  <1>2. tick_count \in Ticks /\ previous \in Ticks /\ sampled \in Ticks
    BY DEF IInv, TypeOK, Ticks
  <1>3. \/ previous' = previous /\ pc' # "tasks"
        \/ previous' = sampled /\ pc' = "tasks"
    <2>1. CASE EndRun
      BY <2>1 DEF EndRun
    <2>2. CASE ScanDone \/ Notify \/ Return
      BY <2>2 DEF ScanDone, Notify, Return
    <2> QED BY <2>1, <2>2
  <1>4. TypeOK'
    BY <1>1, <1>2, <1>3 DEF IInv, TypeOK, Ticks
  <1>5. ListConsistent'
    BY <1>1 DEF IInv, ListConsistent, Linked
  <1>6. Lags'
    <2>1. Since(tick_count, previous) <= MaxLag
          /\ Since(tick_count, previous) = Since(tick_count, sampled) + Since(sampled, previous)
      BY <1>1 DEF IInv, Lags
    <2>2. /\ Since(tick_count, sampled) \in Nat /\ Since(sampled, previous) \in Nat
          /\ Since(tick_count, previous) \in Nat
      BY <1>2, SinceNat
    <2> QED BY <1>1, <1>3, <2>1, <2>2, TimerAssumption DEF Lags
  <1>7. \A t \in Timer : Lag(t) = Since(tick_count, sampled) /\ Lag(t)' = Lag(t)
    <2>1. ASSUME NEW t \in Timer PROVE Charged(t)
      BY DEF Charged, ScanDone, Notify, Return, EndRun, IInv, TypeOK
    <2>2. ASSUME NEW t \in Timer
          PROVE  Charged(t)' \/ previous' = sampled
      BY DEF Charged, ScanDone, Notify, Return, EndRun
    <2> QED BY <1>1, <2>1, <2>2 DEF Lag
  <1>8. Account' /\ OnTime'
    BY <1>1, <1>7 DEF IInv, Account, OnTime
  <1> QED BY <1>1, <1>4, <1>5, <1>6, <1>8 DEF IInv

-------------------------------------------------------------------------------
LEMMA StutterInv == IInv /\ UNCHANGED vars => IInv'
  BY DEF IInv, vars, ghosts, TypeOK, ListConsistent, Linked, Lags, Account,
         OnTime, Lag, Charged

LEMMA NextInv == IInv /\ [Next]_vars => IInv'
  BY TickInv, StartInv, StopInv, StartRunInv, ScanInv, RunInv, StutterInv
     DEF Next, Calls, MainLoop

THEOREM Invariance == Spec => []IInv
  BY InitInv, NextInv, PTL DEF Spec

(* The chain of z.list holds each running timer exactly once, and no other.    *)
THEOREM ChainConsistent == Spec => []ListConsistent
  <1>1. IInv => ListConsistent
    BY DEF IInv
  <1> QED BY Invariance, <1>1, PTL

(* Type correctness.                                                           *)
THEOREM TypeCorrect == Spec => []TypeOK
  <1>1. IInv => TypeOK
    BY DEF IInv
  <1> QED BY Invariance, <1>1, PTL

(* What is left of a running timer accounts for every tick since its start.    *)
THEOREM TicksAccounted == Spec => []Account
  <1>1. IInv => Account
    BY DEF IInv
  <1> QED BY Invariance, <1>1, PTL

(* No tick is lost: a running timer is late only by the ticks yet to be        *)
(* charged, counted from its start or from the last time it was postponed.     *)
THEOREM NoTickLost == Spec => []OnTime
  <1>1. IInv => OnTime
    BY DEF IInv
  <1> QED BY Invariance, <1>1, PTL

(* When there are no more timers than places in expired_timers, it never holds *)
(* a running timer, nor any timer twice, while timer_run walks the chain.      *)
Collected == /\ pc = "tasks" => expired_timers = <<>>
             /\ pc = "scan" =>
                  /\ Distinct(expired_timers)
                  /\ \A i \in 1..Len(expired_timers) : ~running[expired_timers[i]]

LEMMA CollectedScan == ASSUME IInv, Collected, Scan PROVE Collected'
  <1>1. /\ pc = "scan" /\ pc' = "scan" /\ pos \in 1..Len(list)
        /\ \/ Keep(list[pos], Since(sampled, previous))
           \/ Postpone(list[pos], Since(sampled, previous))
           \/ Expire(list[pos], Since(sampled, previous))
    BY DEF Scan, IInv, TypeOK
  <1>2. CASE expired_timers' = expired_timers /\ running' = running
    BY <1>1, <1>2 DEF Collected, Distinct
  <1>3. CASE Expire(list[pos], Since(sampled, previous))
    <2> DEFINE t == list[pos]
               e == expired_timers
    <2>1. t \in Timer /\ running[t] /\ running \in [Timer -> BOOLEAN] /\ e \in Seq(Timer)
      BY <1>1, ElementOfSeq DEF IInv, TypeOK, ListConsistent, Linked
    <2>2. e' = Append(e, t) /\ running' = [running EXCEPT ![t] = FALSE]
      BY <1>3 DEF Expire
    <2>3. Distinct(e) /\ \A i \in 1..Len(e) : e[i] \in Timer /\ ~running[e[i]]
      BY <1>1, <2>1, ElementOfSeq DEF Collected
    <2> HIDE DEF t, e
    <2>4. /\ Len(e) \in Nat /\ Len(e') = Len(e) + 1 /\ e'[Len(e) + 1] = t
          /\ \A i \in 1..Len(e) : e'[i] = e[i]
      BY <2>1, <2>2, AppendProperties, LenProperties
    <2>5. \A i \in 1..Len(e') : i \in 1..Len(e) \/ i = Len(e) + 1
      BY <2>4
    <2>6. \A i \in 1..Len(e') : ~running'[e'[i]]
      BY <2>1, <2>2, <2>3, <2>4, <2>5
    <2>7. Distinct(e')
      BY <2>1, <2>3, <2>4, <2>5 DEF Distinct
    <2> QED BY <1>1, <2>6, <2>7 DEF Collected, e
  <1> QED BY <1>1, <1>2, <1>3 DEF Keep, Postpone

LEMMA CollectedNext == IInv /\ Collected /\ [Next]_vars => Collected'
  <1> SUFFICES ASSUME IInv, Collected, [Next]_vars PROVE Collected'
    OBVIOUS
  <1>1. CASE Scan
    BY <1>1, CollectedScan
  <1>2. CASE Tick \/ UNCHANGED vars
    BY <1>2 DEF Collected, Distinct, Tick, vars
  <1>3. CASE Calls
    BY <1>3 DEF Collected, Calls, InTask, timer_start, timer_stop, timer_reset
  <1>4. CASE StartRun
    <2>1. Len(expired_timers') = 0
      BY <1>4 DEF StartRun, Collected
    <2> QED BY <1>4, <2>1 DEF Collected, Distinct, StartRun
  <1>5. CASE ScanDone \/ Notify \/ Return \/ EndRun
    BY <1>5 DEF Collected, ScanDone, Notify, Return, EndRun
  <1> QED BY <1>1, <1>2, <1>3, <1>4, <1>5 DEF Next, MainLoop

(* With no more timers than places in expired_timers, which is so in the       *)
(* source, no timer is ever postponed.                                         *)
THEOREM NeverPostponed ==
  ASSUME IsFiniteSet(Timer), Cardinality(Timer) <= MaxExpired
  PROVE  Spec => [](\A t \in Timer : ~Postponed(t))
  <1>1. Init => Collected
    BY DEF Init, Collected
  <1>2. IInv /\ Collected => \A t \in Timer : ~Postponed(t)
    <2> SUFFICES ASSUME IInv, Collected, NEW t \in Timer, Postponed(t) PROVE FALSE
      OBVIOUS
    <2> DEFINE e == expired_timers
               S == 1..Len(e)
               T == Timer \ {t}
    <2>1. pc = "scan" /\ running[t] /\ Len(e) >= MaxExpired
      <3>1. pc = "scan" /\ pos \in 1..Len(list) /\ list[pos] = t /\ Len(e) >= MaxExpired
        BY DEF Postponed, IInv, TypeOK
      <3> QED BY <3>1 DEF IInv, ListConsistent, Linked
    <2>2. e \in Seq(Timer) /\ Len(e) \in Nat
      BY DEF IInv, TypeOK
    <2>3. e \in [S -> T]
      BY <2>1, <2>2, ElementOfSeq DEF Collected
    <2>4. IsFiniteSet(S) /\ Cardinality(S) = Len(e)
      BY <2>2, FS_Interval, SMTT(30)
    <2>5. IsFiniteSet(T) /\ Cardinality(T) = Cardinality(Timer) - 1
      BY FS_RemoveElement
    <2>6. Cardinality(Timer) \in Nat
      BY FS_CardinalityType
    <2>7. Cardinality(T) < Cardinality(S)
      BY <2>1, <2>2, <2>4, <2>5, <2>6, TimerAssumption
    <2> HIDE DEF e, S, T
    <2>8. \E x, y \in S : x # y /\ e[x] = e[y]
      BY <2>3, <2>4, <2>5, <2>7, FS_PigeonHole
    <2> QED BY <2>1, <2>8 DEF Collected, Distinct, e, S
  <1> QED BY <1>1, <1>2, CollectedNext, Invariance, PTL DEF Spec

(* No timer expires earlier than the ticks that were waiting when it started.  *)
THEOREM NotEarlierThanLag == Spec => EarlyByLagOnly
  <1>1. IInv /\ [Next]_vars
           => [\A t \in Timer : pc = "scan" /\ running[t] /\ ~running'[t]
                                => age[t] + lag0[t] >= asked[t]]_vars
    <2> SUFFICES ASSUME IInv, [Next]_vars, NEW t \in Timer, pc = "scan",
                        running[t], ~running'[t]
                 PROVE  age[t] + lag0[t] >= asked[t]
      OBVIOUS
    <2>1. CASE Scan
      BY <2>1, ScanInv
    <2>2. CASE StartRun \/ Tick \/ UNCHANGED vars
      BY <2>2 DEF StartRun, Tick, vars
    <2>3. CASE ScanDone \/ Notify \/ Return \/ EndRun
      BY <2>3, RunInv
    <2>4. CASE Calls
      BY <2>4 DEF Calls, timer_start, timer_stop, timer_reset, InTask
    <2> QED BY <2>1, <2>2, <2>3, <2>4 DEF Next, MainLoop
  <1> QED BY Invariance, <1>1, PTL DEF Spec, EarlyByLagOnly
===============================================================================
