------------------------------ MODULE StackProofs ------------------------------
(* What module Stack promises, for any number of hosts, sockets, ports and     *)
(* messages, any depth of a queue and any buffer with room for the headers.    *)
(*                                                                             *)
(* The invariant is Good, of the world a handler works on: all that is in use  *)
(* is in the handler's hands or waits for a hop.  A lemma per handler says     *)
(* that it keeps Good, what it takes in hand and what it gives up; a lemma per *)
(* action puts them together (Step); the theorems are at the end.              *)
EXTENDS Stack, SequenceTheorems, WellFoundedInduction, TLAPS

(* What a field may hold.                                                      *)
Word   == {"IP", "ARP", "TCP", "ICMP", "UDP", "id", "ttl", "options", "pad", "seq", "ack",
           "bits", "window", "next", "old", "data", "echo", "request", "reply", "other",
           "REQUEST", "REPLY", "broadcast", "any", "DATA", "CLOSE"}
Bits   == {"SYN", "ACK", "FIN", "RST"}
Value  == Word \cup (SUBSET Bits) \cup BOOLEAN \cup Int \cup Host \cup Hop
          \cup {Me, RemPort, NULL}
Field  == (Nat \ {0}) \X Value
Fields == Seq(Field)

LEMMA Least ==
  ASSUME NEW T \in SUBSET Nat, T # {}
  PROVE  \E x \in T : \A y \in T : x <= y
  <1> DEFINE R == OpToRel(<, Nat)
  <1>1. IsWellFoundedOn(R, Nat) /\ T \subseteq Nat
    BY NatLessThanWellFounded
  <1>2. \A x, y \in Nat : x < y => <<x, y>> \in R
    BY DEF OpToRel
  <1> HIDE DEF R
  <1>3. PICK x \in T : \A y \in T : <<y, x>> \notin R
    BY <1>1, WFMin
  <1>4. \A y \in T : ~(y < x)
    BY <1>2, <1>3
  <1> QED BY <1>4

LEMMA FieldsType ==
  ASSUME NEW fields \in Fields
  PROVE  /\ Len(fields) \in Nat /\ DOMAIN fields = 1..Len(fields)
         /\ \A k \in 1..Len(fields) : fields[k] \in Field /\ fields[k][1] \in Nat \ {0}
  BY LenProperties DEF Fields, Field

(* Sum is what its definition says, since such a function exists.              *)
LEMMA SumIs ==
  ASSUME NEW fields \in Fields
  PROVE  Sum(fields) = [k \in 0..Len(fields) |->
                          IF k = 0 THEN 0 ELSE Sum(fields)[k - 1] + fields[k][1]]
  <1> DEFINE Right(f, n) == f = [k \in 0..n |-> IF k = 0 THEN 0 ELSE f[k - 1] + fields[k][1]]
             T == {n \in 0..Len(fields) : \A f : ~Right(f, n)}
  <1>1. Len(fields) \in Nat
    BY FieldsType
  <1>2. T = {}
    <2> SUFFICES ASSUME T # {} PROVE FALSE
      OBVIOUS
    <2>1. PICK n \in T : \A m \in T : n <= m
      <3>1. T \in SUBSET Nat
        BY <1>1
      <3> HIDE DEF T
      <3> QED BY <3>1, Least
    <2>2. n \in 0..Len(fields) /\ n \in Nat
      BY <1>1, <2>1
    <2>3. n # 0
      <3> DEFINE f == [k \in 0..0 |-> 0]
      <3>1. Right(f, 0)
        OBVIOUS
      <3> QED BY <2>1, <3>1
    <2>4. n - 1 \in 0..Len(fields) /\ n - 1 \notin T
      BY <1>1, <2>1, <2>2, <2>3
    <2>5. PICK f : Right(f, n - 1)
      BY <2>4
    <2> DEFINE g == [k \in 0..n |-> IF k = n THEN f[n - 1] + fields[n][1] ELSE f[k]]
    <2>6. \A k \in 0..n-1 : g[k] = f[k] /\ f[k] = IF k = 0 THEN 0 ELSE f[k - 1] + fields[k][1]
      BY <2>2, <2>5
    <2>7. ASSUME NEW k \in 0..n
          PROVE  g[k] = IF k = 0 THEN 0 ELSE g[k - 1] + fields[k][1]
      <3>1. CASE k = n
        <4>1. g[n] = f[n - 1] + fields[n][1] /\ g[n - 1] = f[n - 1]
          BY <2>2, <2>3
        <4> QED BY <2>3, <3>1, <4>1
      <3>2. CASE k # n
        <4>1. k \in 0..n-1 /\ (k # 0 => k - 1 \in 0..n-1)
          BY <2>2, <3>2
        <4> HIDE DEF g
        <4> QED BY <2>6, <4>1
      <3> QED BY <3>1, <3>2
    <2>8. Right(g, n)
      BY <2>7
    <2> QED BY <2>1, <2>8
  <1>3. \E f : Right(f, Len(fields))
    BY <1>1, <1>2
  <1>4. Sum(fields) = CHOOSE f : Right(f, Len(fields))
    BY DEF Sum
  <1>5. Right(Sum(fields), Len(fields))
    BY <1>3, <1>4
  <1> QED BY <1>5

LEMMA SumType ==
  ASSUME NEW fields \in Fields
  PROVE  /\ Sum(fields)[0] = 0
         /\ \A k \in 1..Len(fields) : Sum(fields)[k] = Sum(fields)[k - 1] + fields[k][1]
         /\ \A k \in 0..Len(fields) : Sum(fields)[k] \in Nat
         /\ Size(fields) \in Nat
  <1>1. /\ Sum(fields)[0] = 0 /\ Len(fields) \in Nat
        /\ \A k \in 1..Len(fields) : Sum(fields)[k] = Sum(fields)[k - 1] + fields[k][1]
    BY SumIs, FieldsType
  <1> DEFINE T == {k \in 0..Len(fields) : Sum(fields)[k] \notin Nat}
  <1>2. T = {}
    <2> SUFFICES ASSUME T # {} PROVE FALSE
      OBVIOUS
    <2>1. PICK n \in T : \A m \in T : n <= m
      <3>1. T \in SUBSET Nat
        BY <1>1
      <3> HIDE DEF T
      <3> QED BY <3>1, Least
    <2>2. n \in 1..Len(fields) /\ n - 1 \in 0..Len(fields) /\ n - 1 \notin T
      BY <1>1, <2>1
    <2> QED BY <1>1, <2>1, <2>2, FieldsType, SMTT(30)
  <1> QED BY <1>1, <1>2 DEF Size

LEMMA SumGrows ==
  ASSUME NEW fields \in Fields, NEW j \in 0..Len(fields), NEW k \in 0..Len(fields), j < k
  PROVE  Sum(fields)[j] < Sum(fields)[k]
  <1> DEFINE T == {n \in 0..Len(fields) : j < n /\ ~(Sum(fields)[j] < Sum(fields)[n])}
  <1>1. Len(fields) \in Nat
    BY FieldsType
  <1>2. T = {}
    <2> SUFFICES ASSUME T # {} PROVE FALSE
      OBVIOUS
    <2>1. PICK n \in T : \A m \in T : n <= m
      <3>1. T \in SUBSET Nat
        BY <1>1
      <3> HIDE DEF T
      <3> QED BY <3>1, Least
    <2>2. n \in 1..Len(fields) /\ n - 1 \in 0..Len(fields) /\ n - 1 \notin T
      BY <1>1, <2>1
    <2>3. Sum(fields)[n] = Sum(fields)[n - 1] + fields[n][1] /\ fields[n][1] \in Nat \ {0}
          /\ Sum(fields)[n - 1] \in Nat /\ Sum(fields)[j] \in Nat
      BY <2>2, SumType, FieldsType
    <2>4. j = n - 1 \/ j < n - 1
      BY <2>1, <2>2
    <2> QED BY <2>1, <2>2, <2>3, <2>4
  <1> QED BY <1>2

LEMMA SumConcat ==
  ASSUME NEW a \in Fields, NEW b \in Fields
  PROVE  /\ a \o b \in Fields
         /\ \A k \in 0..Len(a) : Sum(a \o b)[k] = Sum(a)[k]
         /\ \A k \in 0..Len(b) : Sum(a \o b)[Len(a) + k] = Size(a) + Sum(b)[k]
         /\ Size(a \o b) = Size(a) + Size(b)
  <1> DEFINE c == a \o b
  <1>1. /\ c \in Fields /\ Len(c) = Len(a) + Len(b)
        /\ \A i \in 1..Len(a) : c[i] = a[i]
        /\ \A i \in 1..Len(b) : c[Len(a) + i] = b[i]
    BY ConcatProperties DEF Fields
  <1>2. Len(a) \in Nat /\ Len(b) \in Nat
    BY FieldsType
  <1> HIDE DEF c
  <1> DEFINE T == {k \in 0..Len(a) : Sum(c)[k] # Sum(a)[k]}
             U == {k \in 0..Len(b) : Sum(c)[Len(a) + k] # Size(a) + Sum(b)[k]}
  <1>3. T = {}
    <2> SUFFICES ASSUME T # {} PROVE FALSE
      OBVIOUS
    <2>1. PICK n \in T : \A m \in T : n <= m
      <3>1. T \in SUBSET Nat
        BY <1>2
      <3> HIDE DEF T
      <3> QED BY <3>1, Least
    <2>2. n # 0
      BY <1>1, <2>1, SumType
    <2>3. n \in 1..Len(a) /\ n \in 1..Len(c) /\ n - 1 \in 0..Len(a) /\ n - 1 \notin T
      BY <1>1, <1>2, <2>1, <2>2
    <2>4. Sum(c)[n] = Sum(c)[n - 1] + c[n][1] /\ Sum(a)[n] = Sum(a)[n - 1] + a[n][1]
      BY <1>1, <2>3, SumType
    <2> QED BY <1>1, <2>1, <2>3, <2>4
  <1>4. U = {}
    <2> SUFFICES ASSUME U # {} PROVE FALSE
      OBVIOUS
    <2>1. PICK n \in U : \A m \in U : n <= m
      <3>1. U \in SUBSET Nat
        BY <1>2
      <3> HIDE DEF U
      <3> QED BY <3>1, Least
    <2>2. n # 0
      BY <1>2, <1>3, <2>1, SumType DEF Size
    <2>3. n \in 1..Len(b) /\ Len(a) + n \in 1..Len(c) /\ n - 1 \in 0..Len(b) /\ n - 1 \notin U
      BY <1>1, <1>2, <2>1, <2>2
    <2>4. Sum(b)[n] = Sum(b)[n - 1] + b[n][1]
      BY <2>3, SumType
    <2>7. Sum(c)[Len(a) + n] = Sum(c)[(Len(a) + n) - 1] + c[Len(a) + n][1]
      BY <1>1, <2>3, SumType
    <2>5. Sum(b)[n - 1] \in Nat /\ Size(a) \in Nat /\ b[n][1] \in Nat
      BY <2>3, SumType, FieldsType
    <2>6. (Len(a) + n) - 1 = Len(a) + (n - 1) /\ c[Len(a) + n] = b[n]
      BY <1>1, <1>2, <2>3
    <2>8. Sum(c)[Len(a) + (n - 1)] = Size(a) + Sum(b)[n - 1]
      BY <2>3
    <2>9. Sum(c)[Len(a) + n] = Size(a) + Sum(b)[n]
      BY <2>4, <2>5, <2>6, <2>7, <2>8, SMTT(30)
    <2> QED BY <2>1, <2>9
  <1>5. Size(c) = Size(a) + Size(b)
    BY <1>1, <1>2, <1>4 DEF Size
  <1> QED BY <1>1, <1>3, <1>4, <1>5 DEF c

-------------------------------------------------------------------------------
(* The operations on a message.  A sane message has the bytes its fields take, *)
(* within its buffer, and no handler has panicked on it.                       *)
Message == [ptr : Int, len : Int, body : Fields, size : Int, offset : Int,
            inuse : BOOLEAN, ok : BOOLEAN]
Sane(m) == /\ m \in Message /\ m.ok = TRUE
           /\ m.len = Size(m.body)
           /\ m.ptr >= 0 /\ m.ptr + m.len <= m.size
           /\ m.offset \in 0..m.size
Live(m) == Sane(m) /\ m.inuse = TRUE
Alike(m, p) == p.size = m.size /\ p.offset = m.offset

(* The data of a message begins with fs, and p is what is left without them.   *)
Begins(m, fs, rest) == fs \in Fields /\ rest \in Fields /\ m.body = fs \o rest
Left(m, p, fs, rest) == /\ Live(p) /\ Alike(m, p) /\ p.body = rest
                        /\ p.ptr = m.ptr + Size(fs) /\ p.len = Size(rest)

LEMMA EmptyType == <<>> \in Fields /\ Len(<<>>) = 0 /\ Size(<<>>) = 0
  <1>1. <<>> \in Fields /\ Len(<<>>) = 0
    BY EmptySeq DEF Fields
  <1> QED BY <1>1, SumType DEF Size

LEMMA HeadAndRest ==
  ASSUME NEW a \in Fields, NEW b \in Fields
  PROVE  /\ SubSeq(a \o b, Len(a) + 1, Len(a \o b)) = b
         /\ SubSeq(a \o b, 1, Len(a)) = a
         /\ \A k \in 1..Len(a) : k \in DOMAIN (a \o b) /\ (a \o b)[k] = a[k]
         /\ \A k \in 1..Len(b) : Len(a) + k \in DOMAIN (a \o b) /\ (a \o b)[Len(a) + k] = b[k]
         /\ Len(a \o b) = Len(a) + Len(b)
  <1> DEFINE c == a \o b
  <1>1. /\ c \in Fields /\ Len(c) = Len(a) + Len(b)
        /\ \A i \in 1..Len(a) : c[i] = a[i]
        /\ \A i \in 1..Len(b) : c[Len(a) + i] = b[i]
    BY ConcatProperties DEF Fields
  <1>2. Len(a) \in Nat /\ Len(b) \in Nat /\ DOMAIN c = 1..Len(c)
        /\ \A i \in 1..Len(c) : c[i] \in Field
    BY <1>1, FieldsType
  <1> HIDE DEF c
  <1>3. SubSeq(c, Len(a) + 1, Len(c)) = b
    <2> DEFINE d == SubSeq(c, Len(a) + 1, Len(c))
    <2>1. /\ d \in Seq(Field) /\ Len(d) = Len(b)
          /\ \A i \in 1..Len(b) : d[i] = c[Len(a) + 1 + i - 1]
      BY <1>1, <1>2, SubSeqProperties
    <2> HIDE DEF d
    <2>2. \A i \in 1..Len(b) : d[i] = b[i]
      BY <1>1, <1>2, <2>1
    <2>3. d = b
      BY <2>1, <2>2, SeqEqual DEF Fields
    <2> QED BY <2>3 DEF d
  <1>4. SubSeq(c, 1, Len(a)) = a
    <2> DEFINE d == SubSeq(c, 1, Len(a))
    <2>1. /\ d \in Seq(Field) /\ Len(d) = Len(a)
          /\ \A i \in 1..Len(a) : d[i] = c[1 + i - 1]
      BY <1>1, <1>2, SubSeqProperties
    <2> HIDE DEF d
    <2>2. \A i \in 1..Len(a) : d[i] = a[i]
      BY <1>1, <1>2, <2>1
    <2>3. d = a
      BY <2>1, <2>2, SeqEqual DEF Fields
    <2> QED BY <2>3 DEF d
  <1> QED BY <1>1, <1>2, <1>3, <1>4 DEF c

LEMMA Joined ==
  ASSUME NEW a \in Fields, NEW b \in Fields
  PROVE  /\ a \o b \in Fields /\ Size(a \o b) = Size(a) + Size(b) /\ Len(a \o b) = Len(a) + Len(b)
         /\ \A k \in 1..Len(a) : (a \o b)[k] = a[k]
         /\ \A k \in 1..Len(b) : (a \o b)[Len(a) + k] = b[k]
  BY SumConcat, HeadAndRest

LEMMA LiveType ==
  ASSUME NEW m, Live(m)
  PROVE  /\ m \in Message /\ m.body \in Fields /\ m.ok = TRUE /\ m.inuse = TRUE
         /\ m.ptr \in Nat /\ m.len \in Nat /\ m.size \in Int /\ m.len = Size(m.body)
         /\ m.offset \in Int /\ m.ptr + m.len <= m.size /\ m.offset \in 0..m.size
  <1>1. m \in Message /\ m.body \in Fields
    BY DEF Live, Sane, Message
  <1>2. Size(m.body) \in Nat
    BY <1>1, SumType
  <1> QED BY <1>1, <1>2 DEF Live, Sane, Message

LEMMA PushLive ==
  ASSUME NEW m, Live(m), NEW fs \in Fields, Size(fs) <= m.ptr
  PROVE  LET p == Push(m, fs)
         IN  /\ Live(p) /\ Alike(m, p)
             /\ p.body = fs \o m.body /\ p.ptr = m.ptr - Size(fs)
  <1>m. /\ m \in Message /\ m.body \in Fields /\ m.ok = TRUE /\ m.inuse = TRUE
        /\ m.ptr \in Nat /\ m.len \in Nat /\ m.size \in Int /\ m.len = Size(m.body)
        /\ m.offset \in Int /\ m.ptr + m.len <= m.size /\ m.offset \in 0..m.size
    BY LiveType
  <1> DEFINE p == Push(m, fs)
             b == fs \o m.body
             q == m.ok /\ m.inuse /\ m.ptr >= Size(fs)
             a == m.ptr - Size(fs)
             l == m.len + Size(fs)
  <1>1. /\ Size(fs) \in Int /\ Size(m.body) \in Int
        /\ b \in Fields /\ Size(b) = m.len + Size(fs)
    BY <1>m, SumConcat, SumType
  <1>2. q \in BOOLEAN /\ q = TRUE
    BY <1>m
  <1>3. p = [m EXCEPT !.ptr = a, !.len = l, !.body = b, !.ok = q]
    BY DEF Push
  <1>4. a \in Int /\ l \in Int /\ a = m.ptr - Size(fs) /\ l = m.len + Size(fs)
    BY <1>1, <1>m
  <1> HIDE DEF b, p, q, a, l
  <1>5. /\ p \in Message /\ p.ptr = m.ptr - Size(fs) /\ p.len = m.len + Size(fs)
        /\ p.body = b /\ p.ok = q /\ p.size = m.size /\ p.offset = m.offset
        /\ p.inuse = m.inuse
    BY <1>1, <1>2, <1>3, <1>4, <1>m DEF Message
  <1>6. Live(p)
    BY <1>1, <1>2, <1>5, <1>m DEF Live, Sane
  <1> QED BY <1>5, <1>6 DEF p, b, Alike

LEMMA WriteLive ==
  ASSUME NEW m, Live(m), NEW fs \in Fields, Size(fs) <= MsgRoom(m)
  PROVE  LET p == Write(m, fs)
         IN  /\ Live(p) /\ Alike(m, p)
             /\ p.body = m.body \o fs /\ p.ptr = m.ptr
  <1>m. /\ m \in Message /\ m.body \in Fields /\ m.ok = TRUE /\ m.inuse = TRUE
        /\ m.ptr \in Nat /\ m.len \in Nat /\ m.size \in Int /\ m.len = Size(m.body)
        /\ m.offset \in Int /\ m.ptr + m.len <= m.size /\ m.offset \in 0..m.size
    BY LiveType
  <1> DEFINE p == Write(m, fs)
             b == m.body \o fs
             q == m.ok /\ m.inuse /\ MsgRoom(m) >= Size(fs)
             a == m.ptr
             l == m.len + Size(fs)
  <1>1. /\ Size(fs) \in Int /\ Size(m.body) \in Int
        /\ b \in Fields /\ Size(b) = m.len + Size(fs) /\ Size(fs) >= 0
    BY <1>m, SumConcat, SumType
  <1>2. q \in BOOLEAN /\ q = TRUE
    BY <1>m DEF MsgRoom
  <1>3. p = [m EXCEPT !.ptr = a, !.len = l, !.body = b, !.ok = q]
    BY <1>m DEF Write, Message
  <1>4. a \in Int /\ l \in Int /\ a = m.ptr /\ l = m.len + Size(fs)
    BY <1>1, <1>m
  <1> HIDE DEF b, p, q, a, l
  <1>5. /\ p \in Message /\ p.ptr = m.ptr /\ p.len = m.len + Size(fs)
        /\ p.body = b /\ p.ok = q /\ p.size = m.size /\ p.offset = m.offset
        /\ p.inuse = m.inuse
    BY <1>1, <1>2, <1>3, <1>4, <1>m DEF Message
  <1>6. Live(p)
    BY <1>1, <1>2, <1>5, <1>m DEF Live, Sane, MsgRoom
  <1> QED BY <1>5, <1>6 DEF p, b, Alike

LEMMA ReadLive ==
  ASSUME NEW m, Live(m), NEW n \in Int, n <= m.len
  PROVE  Read(m, n) = m
  <1>m. /\ m \in Message /\ m.body \in Fields /\ m.ok = TRUE /\ m.inuse = TRUE
        /\ m.ptr \in Nat /\ m.len \in Nat /\ m.size \in Int /\ m.len = Size(m.body)
        /\ m.offset \in Int /\ m.ptr + m.len <= m.size /\ m.offset \in 0..m.size
    BY LiveType
  <1> DEFINE q == m.ok /\ m.inuse /\ m.len >= n
  <1>1. q \in BOOLEAN /\ q = TRUE
    BY <1>m
  <1>2. Read(m, n) = [m EXCEPT !.ok = q]
    BY DEF Read
  <1> HIDE DEF q
  <1>3. [m EXCEPT !.ok = m.ok] = m
    BY <1>m DEF Message
  <1> QED BY <1>1, <1>2, <1>3, <1>m

(* What msg_read sees of a message that begins with fields fs.                 *)
LEMMA ValOf ==
  ASSUME NEW m, NEW fs, NEW rest, Begins(m, fs, rest)
  PROVE  /\ \A k \in 1..Len(fs) : Val(m, k) = fs[k][2]
         /\ \A k \in 1..Len(rest) : Val(m, Len(fs) + k) = rest[k][2]
  <1> DEFINE c == fs \o rest
  <1>1. /\ \A k \in 1..Len(fs) : k \in DOMAIN c /\ c[k] = fs[k]
        /\ \A k \in 1..Len(rest) : Len(fs) + k \in DOMAIN c /\ c[Len(fs) + k] = rest[k]
    BY HeadAndRest DEF Begins
  <1>2. m.body = c
    BY DEF Begins
  <1> HIDE DEF c
  <1> QED BY <1>1, <1>2 DEF Val

(* msg_pop of the fields fs that a message begins with.                        *)
LEMMA TakeOffLive ==
  ASSUME NEW m, Live(m), NEW fs, NEW rest, Begins(m, fs, rest)
  PROVE  Left(m, TakeOff(m, Len(fs), Size(fs), TRUE), fs, rest)
  <1>b. fs \in Fields /\ rest \in Fields /\ m.body = fs \o rest
    BY DEF Begins
  <1>m. /\ m \in Message /\ m.body \in Fields /\ m.ok = TRUE /\ m.inuse = TRUE
        /\ m.ptr \in Nat /\ m.len \in Nat /\ m.size \in Int /\ m.len = Size(m.body)
        /\ m.offset \in Int /\ m.ptr + m.len <= m.size /\ m.offset \in 0..m.size
    BY LiveType
  <1> DEFINE p == TakeOff(m, Len(fs), Size(fs), TRUE)
             b == SubSeq(m.body, Len(fs) + 1, Len(m.body))
             q == m.ok /\ m.inuse /\ TRUE
             a == m.ptr + Size(fs)
             l == m.len - Size(fs)
  <1>1. /\ Size(fs) \in Nat /\ Size(rest) \in Nat
        /\ Size(m.body) = Size(fs) + Size(rest) /\ b = rest
    BY <1>b, SumConcat, SumType, HeadAndRest
  <1>2. q \in BOOLEAN /\ q = TRUE
    BY <1>m
  <1>3. p = [m EXCEPT !.ptr = a, !.len = l, !.body = b, !.ok = q]
    BY DEF TakeOff
  <1>4. a \in Int /\ l \in Int /\ a = m.ptr + Size(fs) /\ l = m.len - Size(fs)
        /\ m.len - Size(fs) = Size(rest)
    BY <1>1, <1>m
  <1> HIDE DEF b, p, q, a, l
  <1>5. /\ p \in Message /\ p.ptr = m.ptr + Size(fs) /\ p.len = Size(rest)
        /\ p.body = rest /\ p.ok = q /\ p.size = m.size /\ p.offset = m.offset
        /\ p.inuse = m.inuse
    BY <1>b, <1>1, <1>2, <1>3, <1>4, <1>m DEF Message
  <1>6. Live(p)
    BY <1>1, <1>2, <1>4, <1>5, <1>m DEF Live, Sane
  <1> QED BY <1>5, <1>6 DEF p, Alike, Left

LEMMA PopLive ==
  ASSUME NEW m, Live(m), NEW fs, NEW rest, Begins(m, fs, rest),
         NEW widths, Len(widths) = Len(fs), \A j \in 1..Len(fs) : fs[j][1] = widths[j]
  PROVE  Left(m, Pop(m, widths), fs, rest)
  <1>b. fs \in Fields /\ rest \in Fields /\ m.body = fs \o rest
    BY DEF Begins
  <1> DEFINE c == fs \o rest
  <1>1. /\ Len(fs) \in Nat /\ Len(rest) \in Nat /\ Len(c) = Len(fs) + Len(rest)
        /\ \A j \in 1..Len(fs) : c[j] = fs[j]
    BY <1>b, HeadAndRest, FieldsType
  <1>2. Sum(c)[Len(fs)] = Size(fs)
    <2>1. \A k \in 0..Len(fs) : Sum(c)[k] = Sum(fs)[k]
      BY <1>b, SumConcat
    <2> QED BY <1>1, <2>1 DEF Size
  <1>0. m.body = c
    BY <1>b
  <1> HIDE DEF c
  <1>3. (Len(m.body) >= Len(fs) /\ \A j \in 1..Len(fs) : m.body[j][1] = widths[j]) = TRUE
    BY <1>0, <1>1
  <1>4. Pop(m, widths) = TakeOff(m, Len(fs), Size(fs),
           (Len(m.body) >= Len(fs) /\ \A j \in 1..Len(fs) : m.body[j][1] = widths[j]))
    BY <1>0, <1>2 DEF Pop
  <1>5. Pop(m, widths) = TakeOff(m, Len(fs), Size(fs), TRUE)
    BY <1>3, <1>4
  <1>6. Left(m, TakeOff(m, Len(fs), Size(fs), TRUE), fs, rest)
    BY TakeOffLive
  <1> QED BY <1>5, <1>6

LEMMA DropLive ==
  ASSUME NEW m, Live(m), NEW fs, NEW rest, Begins(m, fs, rest)
  PROVE  Left(m, Drop(m, Size(fs)), fs, rest)
  <1>b. fs \in Fields /\ rest \in Fields /\ m.body = fs \o rest
    BY DEF Begins
  <1>p. Left(m, TakeOff(m, Len(fs), Size(fs), TRUE), fs, rest)
    BY TakeOffLive
  <1>0. Len(fs) \in Nat /\ Len(rest) \in Nat /\ Len(m.body) = Len(fs) + Len(rest) /\ Size(fs) \in Nat
    BY <1>b, HeadAndRest, FieldsType, SumType
  <1>1. CASE Size(fs) = 0
    <2>1. Len(fs) = 0
      <3>1. Len(fs) > 0 => Sum(fs)[0] < Sum(fs)[Len(fs)]
        BY <1>0, <1>b, SumGrows
      <3> QED BY <1>0, <1>1, <3>1, <1>b, SumType DEF Size
    <2>2. fs = <<>>
      BY <2>1, <1>b, EmptySeq DEF Fields
    <2>3. m.body = rest
      BY <2>2, <1>b, ConcatEmptySeq DEF Fields
    <2>4. Drop(m, Size(fs)) = m
      BY <1>1 DEF Drop
    <2> QED BY <1>1, <2>3, <2>4 DEF Left, Live, Sane, Alike, Message
  <1>2. CASE Size(fs) # 0
    <2> DEFINE K == {j \in 0..Len(m.body) : j = Len(m.body) \/ Sum(m.body)[j] >= Size(fs)}
    <2>1. \A j \in 0..Len(fs) : Sum(m.body)[j] = Sum(fs)[j] /\ Sum(fs)[j] \in Nat
      <3>1. \A j \in 0..Len(fs) : Sum(fs \o rest)[j] = Sum(fs)[j]
        BY <1>b, SumConcat
      <3> QED BY <1>b, <3>1, SumType
    <2>2. Sum(m.body)[Len(fs)] = Size(fs)
      BY <1>0, <1>b, <2>1 DEF Size
    <2>3. Len(fs) \in K
      BY <1>0, <2>2
    <2>4. \A j \in K : Len(fs) <= j
      <3> SUFFICES ASSUME NEW j \in K, j < Len(fs) PROVE FALSE
        BY <1>0
      <3>1. j \in 0..Len(fs) /\ Len(fs) \in 0..Len(fs) /\ j # Len(m.body)
        BY <1>0
      <3>2. Sum(fs)[j] < Sum(fs)[Len(fs)]
        BY <1>b, <3>1, SumGrows
      <3>3. Sum(fs)[j] >= Size(fs)
        BY <2>1, <3>1
      <3> QED BY <2>1, <3>1, <3>2, <3>3 DEF Size
    <2>5. Min(K) = Len(fs)
      <3>1. \A x \in K : (\A y \in K : x <= y) => x = Len(fs)
        BY <1>0, <2>3, <2>4
      <3> HIDE DEF K
      <3> QED BY <2>3, <2>4, <3>1 DEF Min
    <2>6. (Sum(m.body)[Len(fs)] = Size(fs)) = TRUE
      BY <2>2
    <2>7. Drop(m, Size(fs)) = TakeOff(m, Min(K), Size(fs), Sum(m.body)[Min(K)] = Size(fs))
      BY <1>2 DEF Drop
    <2> HIDE DEF K
    <2>8. Drop(m, Size(fs)) = TakeOff(m, Len(fs), Size(fs), TRUE)
      BY <2>5, <2>6, <2>7
    <2> QED BY <1>p, <2>8
  <1> QED BY <1>1, <1>2

-------------------------------------------------------------------------------
(* The bytes of a short sequence of fields, and what a sequence is made of.    *)
LEMMA Sizes ==
  ASSUME NEW fs \in Fields
  PROVE  /\ Len(fs) = 1 => Size(fs) = fs[1][1]
         /\ Len(fs) = 2 => Size(fs) = fs[1][1] + fs[2][1]
         /\ Len(fs) = 3 => Size(fs) = fs[1][1] + fs[2][1] + fs[3][1]
         /\ Len(fs) = 4 => Size(fs) = fs[1][1] + fs[2][1] + fs[3][1] + fs[4][1]
         /\ Len(fs) = 5 => Size(fs) = fs[1][1] + fs[2][1] + fs[3][1] + fs[4][1] + fs[5][1]
         /\ Len(fs) = 7 => Size(fs) = fs[1][1] + fs[2][1] + fs[3][1] + fs[4][1] + fs[5][1]
                                      + fs[6][1] + fs[7][1]
         /\ Len(fs) = 8 => Size(fs) = fs[1][1] + fs[2][1] + fs[3][1] + fs[4][1] + fs[5][1]
                                      + fs[6][1] + fs[7][1] + fs[8][1]
         /\ Len(fs) = 9 => Size(fs) = fs[1][1] + fs[2][1] + fs[3][1] + fs[4][1] + fs[5][1]
                                      + fs[6][1] + fs[7][1] + fs[8][1] + fs[9][1]
  <1> DEFINE s(k) == Sum(fs)[k]
             n == Len(fs)
             f(k) == fs[k][1]
  <1>1. n \in Nat /\ \A k \in 1..n : f(k) \in Nat
    BY FieldsType
  <1>2. s(0) = 0 /\ Size(fs) = s(n)
    BY SumType DEF Size
  <1>3. \A k \in 1..n : s(k) = s(k - 1) + f(k)
    BY SumType
  <1> HIDE DEF s, n, f
  <1>4. n >= 1 => s(1) = f(1)
    BY <1>1, <1>2, <1>3
  <1>5. n >= 2 => s(2) = s(1) + f(2)
    BY <1>1, <1>3
  <1>6. n >= 3 => s(3) = s(2) + f(3)
    BY <1>1, <1>3
  <1>7. n >= 4 => s(4) = s(3) + f(4)
    BY <1>1, <1>3
  <1>8. n >= 5 => s(5) = s(4) + f(5)
    BY <1>1, <1>3
  <1>9. n >= 6 => s(6) = s(5) + f(6)
    BY <1>1, <1>3
  <1>10. n >= 7 => s(7) = s(6) + f(7)
    BY <1>1, <1>3
  <1>11. n >= 8 => s(8) = s(7) + f(8)
    BY <1>1, <1>3
  <1>12. n >= 9 => s(9) = s(8) + f(9)
    BY <1>1, <1>3
  <1>13. /\ n = 1 => s(n) = f(1)
         /\ n = 2 => s(n) = f(1) + f(2)
         /\ n = 3 => s(n) = f(1) + f(2) + f(3)
         /\ n = 4 => s(n) = f(1) + f(2) + f(3) + f(4)
         /\ n = 5 => s(n) = f(1) + f(2) + f(3) + f(4) + f(5)
         /\ n = 7 => s(n) = f(1) + f(2) + f(3) + f(4) + f(5) + f(6) + f(7)
         /\ n = 8 => s(n) = f(1) + f(2) + f(3) + f(4) + f(5) + f(6) + f(7) + f(8)
         /\ n = 9 => s(n) = f(1) + f(2) + f(3) + f(4) + f(5) + f(6) + f(7) + f(8) + f(9)
    BY <1>4, <1>5, <1>6, <1>7, <1>8, <1>9, <1>10, <1>11, <1>12
  <1> QED BY <1>2, <1>13 DEF n, f

LEMMA Split ==
  ASSUME NEW fields \in Fields, NEW k \in 0..Len(fields)
  PROVE  LET a == SubSeq(fields, 1, k)
             b == SubSeq(fields, k + 1, Len(fields))
         IN  /\ a \in Fields /\ b \in Fields /\ fields = a \o b
             /\ Len(a) = k /\ Size(a) = Sum(fields)[k]
             /\ \A j \in 1..k : a[j] = fields[j]
  <1> DEFINE a == SubSeq(fields, 1, k)
             b == SubSeq(fields, k + 1, Len(fields))
  <1>1. Len(fields) \in Nat
    BY FieldsType
  <1>2. a \in Fields /\ Len(a) = k /\ \A j \in 1..k : a[j] = fields[1 + j - 1]
    BY <1>1, SubSeqProperties DEF Fields
  <1>3. b \in Fields /\ Len(b) = Len(fields) - k
        /\ \A j \in 1..(Len(fields) - k) : b[j] = fields[(k + 1) + j - 1]
    BY <1>1, SubSeqProperties DEF Fields
  <1> HIDE DEF a, b
  <1>4. /\ a \o b \in Seq(Field) /\ Len(a \o b) = Len(fields)
        /\ \A j \in 1..Len(a) : (a \o b)[j] = a[j]
        /\ \A j \in 1..Len(b) : (a \o b)[Len(a) + j] = b[j]
    BY <1>1, <1>2, <1>3, ConcatProperties DEF Fields
  <1>5. \A j \in 1..Len(fields) : (a \o b)[j] = fields[j]
    <2> SUFFICES ASSUME NEW j \in 1..Len(fields) PROVE (a \o b)[j] = fields[j]
      OBVIOUS
    <2>1. CASE j <= k
      BY <1>1, <1>2, <1>4, <2>1
    <2>2. CASE j > k
      <3>1. j - k \in 1..Len(b) /\ Len(a) + (j - k) = j /\ (k + 1) + (j - k) - 1 = j
        BY <1>1, <1>2, <1>3, <2>2
      <3> QED BY <1>3, <1>4, <3>1
    <2>3. j <= k \/ j > k
      BY <1>1
    <2> QED BY <2>1, <2>2, <2>3
  <1>6. a \o b = fields
    <2> DEFINE c == a \o b
    <2>1. c \in Seq(Field) /\ Len(c) = Len(fields) /\ \A j \in 1..Len(fields) : c[j] = fields[j]
      BY <1>4, <1>5
    <2> HIDE DEF c
    <2>2. c = fields
      BY <2>1, SeqEqual DEF Fields
    <2> QED BY <2>2 DEF c
  <1>7. Sum(a \o b)[k] = Sum(a)[k]
    BY <1>1, <1>2, <1>3, SumConcat
  <1>8. Size(a) = Sum(fields)[k]
    BY <1>2, <1>6, <1>7 DEF Size
  <1>9. \A j \in 1..k : a[j] = fields[j]
    BY <1>1, <1>2
  <1> QED BY <1>2, <1>3, <1>6, <1>8, <1>9 DEF a, b

(* Cutting off after n of a sequence's bytes leaves n bytes, and the first     *)
(* field when it fits.                                                         *)
LEMMA FirstBytesAre ==
  ASSUME NEW fields \in Fields, NEW n \in Nat, n < Size(fields)
  PROVE  LET c == FirstBytes(fields, n)
         IN  /\ c \in Fields /\ Size(c) = n
             /\ fields[1][1] <= n => Len(c) > 0 /\ c[1] = fields[1]
             /\ \A k \in 0..Len(fields) : Sum(fields)[k] = n => c = SubSeq(fields, 1, k)
  <1> DEFINE K == {j \in 0..Len(fields) : Sum(fields)[j] <= n}
             k == Max(K)
             a == SubSeq(fields, 1, k)
             v == <<n - Sum(fields)[k], fields[k + 1][2]>>
  <1>1. /\ Len(fields) \in Nat /\ Sum(fields)[0] = 0 /\ Size(fields) = Sum(fields)[Len(fields)]
        /\ \A j \in 0..Len(fields) : Sum(fields)[j] \in Nat
        /\ \A j \in 1..Len(fields) : /\ fields[j] \in Field
                                     /\ Sum(fields)[j] = Sum(fields)[j - 1] + fields[j][1]
    BY FieldsType, SumType DEF Size
  <1>2. k \in K /\ \A j \in K : j <= k
    <2> DEFINE R == {j \in 0..Len(fields) : Sum(fields)[j] > n}
    <2>1. R \in SUBSET Nat /\ Len(fields) \in R
      BY <1>1
    <2> HIDE DEF R
    <2>2. PICK r \in R : \A j \in R : r <= j
      BY <2>1, Least
    <2> USE DEF R
    <2>3. r \in 1..Len(fields) /\ r - 1 \in K
      <3>1. r # 0
        BY <1>1
      <3>2. r \in 1..Len(fields) /\ r - 1 \in 0..Len(fields) /\ r - 1 \notin R
        BY <1>1, <2>2, <3>1
      <3> QED BY <1>1, <3>2
    <2>4. \A j \in K : j <= r - 1
      <3> SUFFICES ASSUME NEW j \in K, j >= r PROVE FALSE
        BY <1>1, <2>3
      <3>1. j = r \/ Sum(fields)[r] < Sum(fields)[j]
        BY <1>1, <2>3, SumGrows
      <3> QED BY <1>1, <2>3, <3>1
    <2>5. \A x \in K : (\A y \in K : x >= y) => x = r - 1
      BY <1>1, <2>3, <2>4, SMTT(30)
    <2> HIDE DEF K, R
    <2>6. k = r - 1
      BY <2>3, <2>4, <2>5 DEF Max
    <2> QED BY <2>3, <2>4, <2>6
  <1> HIDE DEF k
  <1>3. k \in 0..Len(fields) /\ k # Len(fields) /\ Sum(fields)[k] <= n
    BY <1>1, <1>2
  <1>4. /\ a \in Fields /\ Len(a) = k /\ Size(a) = Sum(fields)[k]
        /\ \A j \in 1..k : a[j] = fields[j]
    BY <1>3, Split
  <1>5. fields[1][1] <= n => 1 \in 1..k
    <2>1. 1 \in 1..Len(fields) /\ Sum(fields)[1] = Sum(fields)[0] + fields[1][1]
      BY <1>1, <1>3
    <2>2. Sum(fields)[1] \in Nat /\ fields[1][1] \in Nat /\ Sum(fields)[1] = fields[1][1]
      BY <1>1, <2>1 DEF Field
    <2> QED BY <1>1, <1>2, <2>1, <2>2
  <1>6. ASSUME NEW j \in 0..Len(fields), Sum(fields)[j] = n
        PROVE  j = k /\ Sum(fields)[k] = n
    <2>1. j <= k
      BY <1>1, <1>2, <1>6
    <2>2. j = k \/ Sum(fields)[j] < Sum(fields)[k]
      BY <1>1, <1>3, <2>1, SumGrows
    <2> QED BY <1>1, <1>3, <1>6, <2>2
  <1> DEFINE c == FirstBytes(fields, n)
  <1>7. c = IF Sum(fields)[k] = n THEN a ELSE Append(a, v)
    BY DEF FirstBytes, k
  <1> HIDE DEF c, a, v, K
  <1>8. CASE Sum(fields)[k] = n
    <2>1. c = a /\ (fields[1][1] <= n => Len(a) > 0 /\ a[1] = fields[1])
      BY <1>3, <1>4, <1>5, <1>7, <1>8
    <2>2. \A j \in 0..Len(fields) : Sum(fields)[j] = n => c = SubSeq(fields, 1, j)
      BY <1>6, <2>1 DEF a
    <2> QED BY <1>4, <1>8, <2>1, <2>2 DEF c
  <1>9. CASE Sum(fields)[k] # n
    <2>1. v \in Field
      <3>1. k + 1 \in 1..Len(fields) /\ Sum(fields)[k] \in Nat
        BY <1>1, <1>3
      <3>2. fields[k + 1][2] \in Value /\ n - Sum(fields)[k] \in Nat \ {0}
        BY <1>1, <1>3, <1>9, <3>1, SMTT(30) DEF Field
      <3> QED BY <3>2 DEF v, Field
    <2>2. /\ Append(a, v) \in Fields /\ Len(Append(a, v)) = k + 1
          /\ \A j \in 1..k : Append(a, v)[j] = a[j]
          /\ Append(a, v)[k + 1] = v
      BY <1>4, <2>1, AppendProperties DEF Fields
    <2>3. c = Append(a, v)
      BY <1>7, <1>9
    <2>4. Size(c) = n
      <3> DEFINE d == << v >>
      <3>1. d \in Fields /\ Len(d) = 1 /\ d[1] = v
        BY <2>1 DEF Fields
      <3>2. Append(a, v) = a \o d
        BY <1>4, <2>1, AppendIsConcat DEF Fields
      <3> HIDE DEF d
      <3>3. Size(a \o d) = Size(a) + Size(d) /\ Size(d) = v[1]
        BY <1>4, <3>1, SumConcat, Sizes
      <3>4. v[1] = n - Sum(fields)[k] /\ Sum(fields)[k] \in Nat
        BY <1>1, <1>3 DEF v
      <3> QED BY <1>4, <2>3, <3>2, <3>3, <3>4
    <2>5. fields[1][1] <= n => Len(c) > 0 /\ c[1] = fields[1]
      BY <1>3, <1>4, <1>5, <2>2, <2>3
    <2>6. \A j \in 0..Len(fields) : Sum(fields)[j] # n
      BY <1>6, <1>9
    <2> QED BY <2>2, <2>3, <2>4, <2>5, <2>6 DEF c
  <1> QED BY <1>8, <1>9

(* msg_len(msg) = n: n bytes are left, and of a datagram that is longer than   *)
(* its header says just the datagram.                                          *)
LEMMA ShortenLive ==
  ASSUME NEW m, Live(m), NEW n \in Nat
  PROVE  LET p == Shorten(m, n)
         IN  /\ Live(p) /\ Alike(m, p) /\ p.ptr = m.ptr /\ p.len <= n /\ p.len <= m.len
             /\ Len(m.body) > 0 /\ m.body[1][1] <= n =>
                  Len(p.body) > 0 /\ p.body[1] = m.body[1]
  <1>m. /\ m \in Message /\ m.body \in Fields /\ m.ok = TRUE /\ m.inuse = TRUE
        /\ m.ptr \in Nat /\ m.len \in Nat /\ m.size \in Int /\ m.len = Size(m.body)
        /\ m.offset \in Int /\ m.ptr + m.len <= m.size /\ m.offset \in 0..m.size
    BY LiveType
  <1> DEFINE p == Shorten(m, n)
             b == FirstBytes(m.body, n)
  <1>1. CASE n >= m.len
    BY <1>1, <1>m DEF Shorten, Alike
  <1>2. CASE n < m.len
    <2>1. /\ b \in Fields /\ Size(b) = n
          /\ m.body[1][1] <= n => Len(b) > 0 /\ b[1] = m.body[1]
      BY <1>2, <1>m, FirstBytesAre
    <2>2. p = [m EXCEPT !.len = n, !.body = b]
      BY <1>2, <1>m DEF Shorten
    <2> HIDE DEF p, b
    <2>5. m \in Message /\ b \in Fields /\ n \in Int
      BY <2>1, <1>m
    <2>6. /\ p.ptr = m.ptr /\ p.len = n /\ p.body = b /\ p.size = m.size
          /\ p.offset = m.offset /\ p.ok = m.ok /\ p.inuse = m.inuse
      BY <2>2, <2>5 DEF Message
    <2>7. p \in Message
      BY <2>2, <2>5 DEF Message
    <2>3. /\ p \in Message /\ p.ptr = m.ptr /\ p.len = n
          /\ p.body = b /\ p.ok = m.ok /\ p.size = m.size /\ p.offset = m.offset
          /\ p.inuse = m.inuse
      BY <2>6, <2>7
    <2>4. Live(p)
      BY <1>2, <2>1, <2>3, <1>m DEF Live, Sane
    <2> QED BY <1>2, <1>m, <2>1, <2>3, <2>4 DEF p, Alike
  <1> QED BY <1>1, <1>2, <1>m

LEMMA ShortenTo ==
  ASSUME NEW m, Live(m), NEW fs, NEW rest, Begins(m, fs, rest)
  PROVE  LET p == Shorten(m, Size(fs))
         IN  Live(p) /\ Alike(m, p) /\ p.ptr = m.ptr /\ p.body = fs /\ p.len = Size(fs)
  <1>m. /\ m \in Message /\ m.body \in Fields /\ m.ok = TRUE /\ m.inuse = TRUE
        /\ m.ptr \in Nat /\ m.len \in Nat /\ m.size \in Int /\ m.len = Size(m.body)
        /\ m.offset \in Int /\ m.ptr + m.len <= m.size /\ m.offset \in 0..m.size
    BY LiveType
  <1> DEFINE n == Size(fs)
             p == Shorten(m, n)
  <1>1. fs \in Fields /\ rest \in Fields /\ m.body = fs \o rest
    BY DEF Begins
  <1>2. /\ n \in Nat /\ Size(rest) \in Nat /\ Len(fs) \in Nat /\ Len(rest) \in Nat
        /\ Size(m.body) = n + Size(rest) /\ Len(m.body) = Len(fs) + Len(rest)
        /\ SubSeq(m.body, 1, Len(fs)) = fs
    BY <1>1, SumConcat, SumType, HeadAndRest, FieldsType
  <1>3. Live(p) /\ Alike(m, p) /\ p.ptr = m.ptr
    BY <1>2, ShortenLive
  <1>4. p.body = fs
    <2>1. CASE n >= m.len
      <3>1. Size(rest) = 0
        BY <1>2, <2>1, <1>m
      <3>2. Len(rest) = 0
        <4>1. Len(rest) > 0 => Sum(rest)[0] < Sum(rest)[Len(rest)]
          BY <1>1, <1>2, SumGrows
        <4> QED BY <1>1, <1>2, <3>1, <4>1, SumType DEF Size
      <3>3. rest = <<>>
        BY <1>1, <3>2, EmptySeq DEF Fields
      <3>4. fs \o rest = fs
        BY <1>1, <3>3, ConcatEmptySeq DEF Fields
      <3> QED BY <1>1, <2>1, <3>4 DEF Shorten
    <2>2. CASE n < m.len
      <3>1. Sum(m.body)[Len(fs)] = n
        <4>1. \A k \in 0..Len(fs) : Sum(fs \o rest)[k] = Sum(fs)[k]
          BY <1>1, SumConcat
        <4> QED BY <1>1, <1>2, <4>1 DEF Size
      <3>2. Len(fs) \in 0..Len(m.body) /\ n < Size(m.body)
        BY <1>2, <2>2, <1>m
      <3>3. \A k \in 0..Len(m.body) : Sum(m.body)[k] = n => FirstBytes(m.body, n) = SubSeq(m.body, 1, k)
        BY <1>2, <3>2, <1>m, FirstBytesAre
      <3>4. FirstBytes(m.body, n) = fs
        BY <1>2, <3>1, <3>2, <3>3
      <3>5. p.body = FirstBytes(m.body, n)
        BY <1>2, <2>2, <1>m DEF Shorten, Message
      <3> QED BY <3>4, <3>5
    <2> QED BY <1>2, <2>1, <2>2, <1>m
  <1>5. p.len = Size(p.body)
    BY <1>3 DEF Live, Sane
  <1> QED BY <1>3, <1>4, <1>5

-------------------------------------------------------------------------------
(* Worlds that a handler is called in.  H are the messages that some handler   *)
(* has in hand; all others in use wait for a hop in the cache c, which is that *)
(* of the world but where the entry of a sender is just emptied.  p is what    *)
(* the step is about, a segment or an echo, or NULL, and d the cache as the    *)
(* step found it.                                                              *)
Ids       == {Frame, Request} \cup Pool
EntryRec  == [state : {"IDLE", "WAITING", "BOUND"}, mq : Seq(Pool)]
SocketRec == [state : State, loc : Port \cup {0}, rem : {RemPort, NULL}, ip : Host \cup {NULL}]
Worlds    == [msg : [Ids -> Message], cache : [Hop -> EntryRec], sock : [Sock -> SocketRec],
              out : SUBSET Fields, up : Fields]

Queue(c, h) == {c[h].mq[k] : k \in DOMAIN c[h].mq}
Queued(c)   == UNION {Queue(c, h) : h \in Hop}

(* What may be sent: a datagram that is well formed and answers p.             *)
Datagrams(p) == {f \in Fields : Len(f) >= 13 /\ SentWell(f) /\ (p # NULL => Answers(f, 12, p))}
Ready(m, h, p) == m.ptr >= 14 /\ EthHeader(h, "IP") \o m.body \in Datagrams(p)

Lines(c) == /\ c \in [Hop -> EntryRec]
            /\ \A h \in Hop : Len(c[h].mq) < Depth
            /\ \A g, h \in Hop : \A j \in DOMAIN c[g].mq, k \in DOMAIN c[h].mq :
                  c[g].mq[j] = c[h].mq[k] => g = h /\ j = k
Memory(ms, c, H) == /\ \A i \in Ids : Sane(ms[i])
                    /\ \A i \in Pool : ms[i].size = PoolLen /\ ms[i].offset = PoolOffset
                    /\ ms[Request].size = 60 /\ ms[Request].offset = 14
                    /\ \A i \in Ids : (ms[i].inuse = TRUE) <=> (i \in H \/ i \in Queued(c))
                    /\ H \in SUBSET Ids
                    /\ \A i \in H : i \notin Queued(c)
Held(ms, c, p, d) == \A h \in Hop : \A i \in Queue(c, h) :
                        /\ Ready(ms[i], h, NULL)
                        /\ i \in Queue(d, h) \/ Ready(ms[i], h, p)
Good(w, c, H, p, d) == /\ w \in Worlds
                       /\ Lines(c)
                       /\ Memory(w.msg, c, H)
                       /\ Held(w.msg, c, p, d)
                       /\ \A f \in w.out : f \in Datagrams(p)
                       /\ \A s \in Sock : w.sock[s].state = "CLOSED" => w.sock[s].loc = 0
Stays(w, v)     == v.cache = w.cache /\ v.sock = w.sock /\ v.up = w.up
Others(w, v, i) == \A j \in Ids \ {i} : v.msg[j] = w.msg[j]

LEMMA IdsType ==
  /\ Frame \in Ids /\ Request \in Ids /\ Frame \notin Pool /\ Request \notin Pool
  /\ Frame # Request /\ Pool \in SUBSET Ids /\ Pool \in SUBSET Nat
  BY StackAssumption DEF Ids, Frame, Request, Pool

LEMMA QueuedIs ==
  ASSUME NEW c \in [Hop -> EntryRec]
  PROVE  /\ \A h \in Hop : Queue(c, h) \in SUBSET Pool
         /\ Queued(c) \in SUBSET Pool
         /\ \A i : i \in Queued(c) <=> \E h \in Hop : i \in Queue(c, h)
         /\ \A h \in Hop : c[h].mq \in Seq(Pool) /\ DOMAIN c[h].mq = 1..Len(c[h].mq)
                           /\ Len(c[h].mq) \in Nat
  <1>1. ASSUME NEW h \in Hop
        PROVE  /\ c[h].mq \in Seq(Pool) /\ DOMAIN c[h].mq = 1..Len(c[h].mq)
               /\ Len(c[h].mq) \in Nat
               /\ \A k \in 1..Len(c[h].mq) : c[h].mq[k] \in Pool
    <2>1. c[h].mq \in Seq(Pool)
      BY DEF EntryRec
    <2> QED BY <2>1, LenProperties, ElementOfSeq
  <1>2. \A h \in Hop : Queue(c, h) \in SUBSET Pool
    BY <1>1 DEF Queue
  <1>3. \A i : i \in Queued(c) <=> \E h \in Hop : i \in Queue(c, h)
    BY DEF Queued
  <1>4. Queued(c) \in SUBSET Pool
    BY <1>2, <1>3
  <1> QED BY <1>1, <1>2, <1>3, <1>4

LEMMA GoodIs ==
  ASSUME NEW w, NEW c, NEW H, NEW p, NEW d, Good(w, c, H, p, d)
  PROVE  /\ w \in Worlds /\ w.msg \in [Ids -> Message] /\ c \in [Hop -> EntryRec]
         /\ w.cache \in [Hop -> EntryRec] /\ w.sock \in [Sock -> SocketRec]
         /\ H \in SUBSET Ids
         /\ \A i \in H : Live(w.msg[i]) /\ i \notin Queued(c)
         /\ \A i \in Ids : Sane(w.msg[i]) /\ w.msg[i] \in Message
         /\ \A i \in Pool : w.msg[i].size = PoolLen /\ w.msg[i].offset = PoolOffset
         /\ w.msg[Request].size = 60 /\ w.msg[Request].offset = 14
         /\ \A i \in Ids : (w.msg[i].inuse = TRUE) <=> (i \in H \/ i \in Queued(c))
         /\ \A i \in Ids : w.msg[i].inuse \in BOOLEAN
  <1>1. w \in Worlds /\ Lines(c) /\ Memory(w.msg, c, H)
    BY DEF Good
  <1>2. w.msg \in [Ids -> Message] /\ w.cache \in [Hop -> EntryRec] /\ w.sock \in [Sock -> SocketRec]
    BY <1>1 DEF Worlds
  <1>3. \A i \in Ids : w.msg[i] \in Message /\ w.msg[i].inuse \in BOOLEAN
    BY <1>2 DEF Message
  <1> QED BY <1>1, <1>2, <1>3 DEF Memory, Lines, Live

LEMMA InHand ==
  ASSUME NEW w, NEW c, NEW H, NEW p, NEW d, Good(w, c, H, p, d), NEW i \in H
  PROVE  /\ Live(w.msg[i]) /\ i \in Ids /\ w.msg[i].ptr \in Int /\ w.msg[i].body \in Fields
         /\ w.msg[i].len = Size(w.msg[i].body)
  <1> DEFINE m == w.msg[i]
  <1>1. Live(m) /\ i \in Ids
    BY GoodIs
  <1> HIDE DEF m
  <1>2. m.ptr \in Nat /\ m.body \in Fields /\ m.len = Size(m.body)
    BY <1>1, LiveType
  <1> QED BY <1>1, <1>2 DEF m

LEMMA CacheIs ==
  ASSUME NEW w, NEW c, NEW H, NEW p, NEW d, Good(w, c, H, p, d), NEW h \in Hop
  PROVE  w.cache[h] \in EntryRec
  <1>1. w.cache \in [Hop -> EntryRec]
    BY GoodIs
  <1> QED BY <1>1

LEMMA KeepIs ==
  ASSUME NEW w \in Worlds, NEW i \in Ids, NEW m \in Message
  PROVE  LET v == Keep(w, i, m)
         IN  /\ v \in Worlds /\ v.msg[i] = m /\ Others(w, v, i)
             /\ Stays(w, v) /\ v.out = w.out
             /\ \A j \in Ids : v.msg[j] = IF j = i THEN m ELSE w.msg[j]
  <1> DEFINE v == Keep(w, i, m)
             ms == [w.msg EXCEPT ![i] = m]
  <1>1. v = [w EXCEPT !.msg = ms]
    BY DEF Keep, Worlds
  <1>2. ms \in [Ids -> Message] /\ \A j \in Ids : ms[j] = IF j = i THEN m ELSE w.msg[j]
    BY DEF Worlds
  <1> HIDE DEF v, ms
  <1>3. v \in Worlds
    BY <1>1, <1>2 DEF Worlds
  <1>4. v.msg = ms /\ v.cache = w.cache /\ v.sock = w.sock /\ v.up = w.up /\ v.out = w.out
    BY <1>1 DEF Worlds
  <1>5. \A j \in Ids : v.msg[j] = IF j = i THEN m ELSE w.msg[j]
    BY <1>2, <1>4
  <1> QED BY <1>3, <1>4, <1>5 DEF v, Stays, Others

(* One message is changed, or taken in hand, or freed.                         *)
ChangesOne(w, v, i, m, c, H, G) ==
    /\ v \in Worlds /\ Stays(w, v) /\ v.out = w.out
    /\ i \in Ids /\ i \notin Queued(c) /\ Sane(m) /\ Alike(w.msg[i], m)
    /\ \A j \in Ids : v.msg[j] = IF j = i THEN m ELSE w.msg[j]
    /\ G \in SUBSET Ids /\ \A j \in Ids : j # i => (j \in G <=> j \in H)
    /\ (m.inuse = TRUE) <=> i \in G

LEMMA ChangeOne ==
  ASSUME NEW w, NEW c, NEW H, NEW p, NEW d, Good(w, c, H, p, d),
         NEW v, NEW i, NEW m, NEW G, ChangesOne(w, v, i, m, c, H, G)
  PROVE  Good(v, c, G, p, d)
  <1>h. /\ v \in Worlds /\ Stays(w, v) /\ v.out = w.out
        /\ i \in Ids /\ i \notin Queued(c) /\ Sane(m) /\ Alike(w.msg[i], m)
        /\ \A j \in Ids : v.msg[j] = IF j = i THEN m ELSE w.msg[j]
        /\ G \in SUBSET Ids /\ \A j \in Ids : j # i => (j \in G <=> j \in H)
        /\ (m.inuse = TRUE) <=> i \in G
    BY DEF ChangesOne
  <1>g. Memory(w.msg, c, H) /\ Lines(c) /\ Held(w.msg, c, p, d)
    BY DEF Good
  <1>q. c \in [Hop -> EntryRec]
    BY <1>g DEF Lines
  <1>1. \A j \in Ids : Sane(v.msg[j])
    BY <1>g, <1>h DEF Memory
  <1>2. \A j \in Ids : v.msg[j].size = w.msg[j].size /\ v.msg[j].offset = w.msg[j].offset
    BY <1>h DEF Alike
  <1>3. \A j \in Pool : v.msg[j].size = PoolLen /\ v.msg[j].offset = PoolOffset
    BY <1>2, <1>g, IdsType DEF Memory
  <1>4. v.msg[Request].size = 60 /\ v.msg[Request].offset = 14
    BY <1>2, <1>g, IdsType DEF Memory
  <1>5. \A j \in Ids : (v.msg[j].inuse = TRUE) <=> (j \in G \/ j \in Queued(c))
    <2> SUFFICES ASSUME NEW j \in Ids
                 PROVE  (v.msg[j].inuse = TRUE) <=> (j \in G \/ j \in Queued(c))
      OBVIOUS
    <2>1. CASE j = i
      BY <1>h, <2>1
    <2>2. CASE j # i
      <3>1. (w.msg[j].inuse = TRUE) <=> (j \in H \/ j \in Queued(c))
        BY <1>g DEF Memory
      <3>2. v.msg[j] = w.msg[j] /\ (j \in G <=> j \in H)
        BY <1>h, <2>2
      <3> QED BY <3>1, <3>2
    <2> QED BY <2>1, <2>2
  <1>6. \A j \in G : j \notin Queued(c)
    BY <1>g, <1>h DEF Memory
  <1>7. Memory(v.msg, c, G)
    BY <1>h, <1>1, <1>3, <1>4, <1>5, <1>6 DEF Memory
  <1>8. Held(v.msg, c, p, d)
    <2>1. \A h \in Hop : \A j \in Queue(c, h) : j \in Queued(c) /\ j \in Ids
      BY <1>q, QueuedIs, IdsType
    <2>2. \A h \in Hop : \A j \in Queue(c, h) : v.msg[j] = w.msg[j]
      BY <1>h, <2>1
    <2> QED BY <1>g, <2>2 DEF Held
  <1> QED BY <1>g, <1>h, <1>7, <1>8 DEF Good, Stays

(* A message in hand may be changed as long as it stays live.                  *)
LEMMA KeepGood ==
  ASSUME NEW w, NEW c, NEW H, NEW p, NEW d, Good(w, c, H, p, d),
         NEW i \in H, NEW m, Live(m), Alike(w.msg[i], m)
  PROVE  LET v == Keep(w, i, m)
         IN  /\ Good(v, c, H, p, d) /\ v.msg[i] = m /\ Others(w, v, i)
             /\ Stays(w, v) /\ v.out = w.out
  <1>0. /\ i \in Ids /\ m \in Message /\ w \in Worlds /\ i \notin Queued(c)
        /\ m.inuse = TRUE /\ Sane(m) /\ H \in SUBSET Ids
    BY GoodIs, LiveType DEF Live
  <1> DEFINE v == Keep(w, i, m)
  <1>1. /\ v \in Worlds /\ v.msg[i] = m /\ Others(w, v, i)
        /\ Stays(w, v) /\ v.out = w.out
        /\ \A j \in Ids : v.msg[j] = IF j = i THEN m ELSE w.msg[j]
    BY <1>0, KeepIs
  <1> HIDE DEF v
  <1>3. ChangesOne(w, v, i, m, c, H, H)
    BY <1>0, <1>1 DEF ChangesOne
  <1>2. Good(v, c, H, p, d)
    BY <1>3, ChangeOne
  <1> QED BY <1>1, <1>2 DEF v

(* pool_alloc and pool_idx: a message that is not in use is taken in hand.     *)
LEMMA TakeGood ==
  ASSUME NEW w, NEW c, NEW H, NEW p, NEW d, Good(w, c, H, p, d),
         NEW i \in Ids, i \notin H, i \notin Queued(c), NEW m, Live(m), Alike(w.msg[i], m)
  PROVE  LET v == Keep(w, i, m)
         IN  /\ Good(v, c, H \cup {i}, p, d) /\ v.msg[i] = m /\ Others(w, v, i)
             /\ Stays(w, v) /\ v.out = w.out
  <1>0. m \in Message /\ w \in Worlds /\ m.inuse = TRUE /\ Sane(m) /\ H \in SUBSET Ids
    BY GoodIs, LiveType DEF Live
  <1> DEFINE v == Keep(w, i, m)
             G == H \cup {i}
  <1>1. /\ v \in Worlds /\ v.msg[i] = m /\ Others(w, v, i)
        /\ Stays(w, v) /\ v.out = w.out
        /\ \A j \in Ids : v.msg[j] = IF j = i THEN m ELSE w.msg[j]
    BY <1>0, KeepIs
  <1>2. G \in SUBSET Ids /\ i \in G /\ \A j \in Ids : j # i => (j \in G <=> j \in H)
    BY <1>0
  <1> HIDE DEF v, G
  <1>4. ChangesOne(w, v, i, m, c, H, G)
    BY <1>0, <1>1, <1>2 DEF ChangesOne
  <1>3. Good(v, c, G, p, d)
    BY <1>4, ChangeOne
  <1> QED BY <1>1, <1>3 DEF v, G

LEMMA ClearIs ==
  ASSUME NEW m, Sane(m), NEW used \in BOOLEAN
  PROVE  LET r == [MsgClear(m) EXCEPT !.inuse = used]
         IN  /\ Sane(r) /\ Alike(m, r) /\ r.inuse = used
             /\ r.body = <<>> /\ r.ptr = m.offset /\ r.len = 0
  <1> DEFINE r == [MsgClear(m) EXCEPT !.inuse = used]
             e == <<>>
  <1>1. e \in Fields /\ Size(e) = 0
    BY EmptyType
  <1> HIDE DEF e
  <1>0. m \in Message /\ m.ok = TRUE /\ m.offset \in 0..m.size /\ m.offset \in Int /\ m.size \in Int
    BY DEF Sane, Message
  <1>2. r = [m EXCEPT !.ptr = m.offset, !.len = 0, !.body = e, !.inuse = used]
    BY <1>0 DEF MsgClear, e, Message
  <1> HIDE DEF r
  <1>3. r \in Message
    <2>1. used \in BOOLEAN /\ e \in Fields /\ m \in Message /\ m.offset \in Int
      BY <1>0, <1>1
    <2> DEFINE q == [m EXCEPT !.ptr = m.offset, !.len = 0, !.body = e]
    <2>2. q \in Message
      <3> DEFINE a == m.offset
                 l == 0
      <3>1. q = [m EXCEPT !.ptr = a, !.len = l, !.body = e] /\ a \in Int /\ l \in Int
        BY <2>1
      <3> HIDE DEF a, l, q
      <3> QED BY <2>1, <3>1 DEF Message
    <2>3. r = [q EXCEPT !.inuse = used]
      BY <1>2
    <2> HIDE DEF q
    <2> QED BY <2>1, <2>2, <2>3 DEF Message
  <1>4. /\ r.ptr = m.offset /\ r.len = 0 /\ r.body = e /\ r.inuse = used
        /\ r.size = m.size /\ r.offset = m.offset /\ r.ok = m.ok
    BY <1>0, <1>2 DEF Message
  <1>5. Sane(r)
    BY <1>0, <1>1, <1>3, <1>4 DEF Sane
  <1> QED BY <1>4, <1>5 DEF r, e, Alike

LEMMA InUseLive ==
  ASSUME NEW m, Sane(m)
  PROVE  LET r == InUse(m)
         IN  Live(r) /\ Alike(m, r) /\ r.body = <<>> /\ r.ptr = m.offset /\ r.len = 0
  BY ClearIs DEF InUse, Live

LEMMA FreeIs ==
  ASSUME NEW m, Live(m)
  PROVE  LET r == MsgFree(m)
         IN  Sane(r) /\ r \in Message /\ Alike(m, r) /\ r.inuse = FALSE
  <1> DEFINE r == [MsgClear(m) EXCEPT !.inuse = FALSE]
             q == MsgClear(m).ok /\ m.inuse
  <1>0. Sane(m) /\ m \in Message /\ m.ok = TRUE /\ m.inuse = TRUE
    BY DEF Live, Sane
  <1>1. Sane(r) /\ Alike(m, r) /\ r.inuse = FALSE
    BY <1>0, ClearIs
  <1>2. q \in BOOLEAN /\ q = TRUE
    BY <1>0 DEF MsgClear, Message
  <1>3. MsgFree(m) = [MsgClear(m) EXCEPT !.inuse = FALSE, !.ok = q]
    BY DEF MsgFree
  <1>4. MsgFree(m) = [r EXCEPT !.ok = q]
    BY <1>3
  <1> HIDE DEF q, r
  <1>5. r \in Message /\ r.ok = TRUE
    BY <1>1 DEF Sane
  <1>6. [r EXCEPT !.ok = r.ok] = r
    BY <1>5 DEF Message
  <1>7. MsgFree(m) = r
    BY <1>2, <1>4, <1>5, <1>6
  <1> QED BY <1>1, <1>5, <1>7

(* msg_free of a message in hand.                                              *)
LEMMA FreeGood ==
  ASSUME NEW w, NEW c, NEW H, NEW p, NEW d, Good(w, c, H, p, d), NEW i \in H
  PROVE  LET v == Free(w, i)
         IN  Good(v, c, H \ {i}, p, d) /\ Others(w, v, i) /\ Stays(w, v) /\ v.out = w.out
  <1> DEFINE v == Free(w, i)
             m == MsgFree(w.msg[i])
             G == H \ {i}
  <1>0. i \in Ids /\ w \in Worlds /\ i \notin Queued(c) /\ Live(w.msg[i])
    BY GoodIs
  <1>1. Sane(m) /\ m \in Message /\ Alike(w.msg[i], m) /\ m.inuse = FALSE
    BY <1>0, FreeIs
  <1> HIDE DEF m
  <1>2. /\ v \in Worlds /\ Others(w, v, i)
        /\ Stays(w, v) /\ v.out = w.out
        /\ \A j \in Ids : v.msg[j] = IF j = i THEN m ELSE w.msg[j]
    BY <1>0, <1>1, KeepIs DEF Free, m
  <1> HIDE DEF v
  <1>3. G \in SUBSET Ids /\ i \notin G /\ \A j \in Ids : j # i => (j \in G <=> j \in H)
    BY GoodIs
  <1> HIDE DEF G
  <1>4. m.inuse # TRUE
    BY <1>1
  <1>6. ChangesOne(w, v, i, m, c, H, G)
    BY <1>0, <1>1, <1>2, <1>3, <1>4 DEF ChangesOne
  <1>5. Good(v, c, G, p, d)
    BY <1>6, ChangeOne
  <1> QED BY <1>2, <1>5 DEF v, G

LEMMA AllocIs ==
  ASSUME NEW w, NEW c, NEW H, NEW p, NEW d, Good(w, c, H, p, d), Unused(w) # {}
  PROVE  /\ Alloc(w) \in Pool /\ Alloc(w) \in Ids /\ Alloc(w) \notin H /\ Alloc(w) \notin Queued(c)
         /\ Live(Alloced(w)) /\ Alike(w.msg[Alloc(w)], Alloced(w))
         /\ Alloced(w).body = <<>> /\ Alloced(w).ptr = PoolOffset
         /\ Alloced(w).len = 0 /\ Alloced(w).size = PoolLen
  <1>1. Alloc(w) \in Unused(w)
    <2>1. Unused(w) \in SUBSET Nat
      BY IdsType DEF Unused
    <2>2. PICK x \in Unused(w) : \A y \in Unused(w) : x <= y
      BY <2>1, Least
    <2>3. \E first \in Unused(w) : \A other \in Unused(w) : first <= other
      BY <2>2
    <2> QED BY <2>3 DEF Alloc, Min
  <1>2. Alloc(w) \in Pool /\ ~w.msg[Alloc(w)].inuse
    BY <1>1 DEF Unused
  <1> DEFINE a == Alloc(w)
  <1> HIDE DEF a
  <1>3. a \in Pool /\ a \in Ids /\ w.msg[a].inuse # TRUE
    BY <1>2, IdsType DEF a
  <1>4. Sane(w.msg[a]) /\ a \notin H /\ a \notin Queued(c)
        /\ w.msg[a].size = PoolLen /\ w.msg[a].offset = PoolOffset
    <2>1. /\ \A i \in Ids : Sane(w.msg[i])
          /\ \A i \in Pool : w.msg[i].size = PoolLen /\ w.msg[i].offset = PoolOffset
          /\ \A i \in Ids : (w.msg[i].inuse = TRUE) <=> (i \in H \/ i \in Queued(c))
      BY GoodIs, ZenonT(60)
    <2> QED BY <1>3, <2>1
  <1>5. LET r == InUse(w.msg[a])
        IN  Live(r) /\ Alike(w.msg[a], r) /\ r.body = <<>> /\ r.ptr = w.msg[a].offset /\ r.len = 0
    BY <1>4, InUseLive
  <1>6. Alloced(w) = InUse(w.msg[a])
    BY DEF Alloced, a
  <1> QED BY <1>3, <1>4, <1>5, <1>6 DEF a, Alike

-------------------------------------------------------------------------------
(* The headers.                                                                *)
LEMMA FieldType ==
  ASSUME NEW n \in Nat \ {0}, NEW x \in Value
  PROVE  <<n, x>> \in Field
  BY DEF Field

LEMMA TruthType == <<2, TRUE>> \in Field /\ <<2, FALSE>> \in Field
  <1>1. \A x \in Value : <<2, x>> \in Field
    BY FieldType
  <1>2. TRUE \in Value /\ FALSE \in Value
    BY DEF Value
  <1> QED BY <1>1, <1>2

LEMMA EthHeaderIs ==
  ASSUME NEW dst \in Value, NEW type \in Value
  PROVE  LET f == EthHeader(dst, type)
         IN  /\ f \in Fields /\ Len(f) = 3 /\ Size(f) = 14
             /\ f[1][2] = dst /\ f[3][2] = type
  <1> DEFINE f == EthHeader(dst, type)
  <1>1. <<6, dst>> \in Field /\ <<6, Me>> \in Field /\ <<2, type>> \in Field
    BY DEF Field, Value
  <1>2. f = << <<6, dst>>, <<6, Me>>, <<2, type>> >>
    BY DEF EthHeader
  <1>3. f \in Fields /\ Len(f) = 3
    BY <1>1, <1>2 DEF Fields
  <1>4. f[1] = <<6, dst>> /\ f[2] = <<6, Me>> /\ f[3] = <<2, type>>
    BY <1>2
  <1> HIDE DEF f
  <1>5. Size(f) = f[1][1] + f[2][1] + f[3][1]
    BY <1>3, Sizes
  <1>6. Size(f) = 14 /\ f[1][2] = dst /\ f[3][2] = type
    BY <1>4, <1>5
  <1> QED BY <1>3, <1>6 DEF f

LEMMA IpHeaderIs ==
  ASSUME NEW total \in Value, NEW protocol \in Value, NEW dst \in Value
  PROVE  LET f == IpHeader(total, protocol, dst)
         IN  /\ f \in Fields /\ Len(f) = 9 /\ Size(f) = 20
             /\ f[2][2] = total /\ f[6][2] = protocol /\ f[9][2] = dst
  <1> DEFINE f == << <<2, 20>>, <<2, total>>, <<2, "id">>, <<2, FALSE>>, <<1, "ttl">>,
                     <<1, protocol>>, <<2, TRUE>>, <<4, Me>>, <<4, dst>> >>
  <1>a. <<2, 20>> \in Field /\ <<2, "id">> \in Field /\ <<1, "ttl">> \in Field
        /\ <<4, Me>> \in Field
    BY DEF Field, Value, Word
  <1>b. <<2, total>> \in Field /\ <<1, protocol>> \in Field /\ <<4, dst>> \in Field
    BY DEF Field
  <1>1. /\ <<2, 20>> \in Field /\ <<2, total>> \in Field /\ <<2, "id">> \in Field
        /\ <<2, FALSE>> \in Field /\ <<1, "ttl">> \in Field /\ <<1, protocol>> \in Field
        /\ <<2, TRUE>> \in Field /\ <<4, Me>> \in Field /\ <<4, dst>> \in Field
    BY <1>a, <1>b, TruthType
  <1>2. IpHeader(total, protocol, dst) = f
    BY DEF IpHeader
  <1>3. f \in Fields /\ Len(f) = 9
    BY <1>1 DEF Fields
  <1>4. /\ f[1] = <<2, 20>> /\ f[2] = <<2, total>> /\ f[3] = <<2, "id">>
        /\ f[4] = <<2, FALSE>> /\ f[5] = <<1, "ttl">> /\ f[6] = <<1, protocol>>
        /\ f[7] = <<2, TRUE>> /\ f[8] = <<4, Me>> /\ f[9] = <<4, dst>>
    OBVIOUS
  <1> HIDE DEF f
  <1>5. Size(f) = f[1][1] + f[2][1] + f[3][1] + f[4][1] + f[5][1]
                  + f[6][1] + f[7][1] + f[8][1] + f[9][1]
    BY <1>3, Sizes
  <1>6. Size(f) = 20 /\ f[2][2] = total /\ f[6][2] = protocol /\ f[9][2] = dst
    BY <1>4, <1>5
  <1> QED BY <1>2, <1>3, <1>6

(* A datagram that ip_down has made is what may be sent, to the hop it is      *)
(* routed to.                                                                  *)
Replies(p, dst, rest) == p # NULL => /\ dst = p.ip
                                     /\ rest[1] = <<2, p.loc>> \/ rest[1] = <<1, "reply">>
LEMMA DatagramIs ==
  ASSUME NEW p, NEW rest \in Fields, Len(rest) >= 1, NEW protocol \in {"TCP", "ICMP"},
         NEW dst \in Value, Replies(p, dst, rest)
  PROVE  LET b == IpHeader(20 + Size(rest), protocol, dst) \o rest
             f == EthHeader(Route(dst), "IP") \o b
         IN  b \in Fields /\ Size(b) = 20 + Size(rest) /\ f \in Datagrams(p)
  <1> DEFINE total == 20 + Size(rest)
             a == IpHeader(total, protocol, dst)
             b == a \o rest
             e == EthHeader(Route(dst), "IP")
             f == e \o b
  <1>0. Size(rest) \in Nat /\ total \in Value /\ protocol \in Value /\ Route(dst) \in Value
    <2>1. Size(rest) \in Nat
      BY SumType
    <2>2. Route(dst) \in Hop
      BY DEF Route, Hop
    <2>3. total \in Int /\ "TCP" \in Value /\ "ICMP" \in Value
      BY <2>1 DEF Value, Word
    <2>4. total \in Value
      BY <2>3 DEF Value, Word
    <2>5. Route(dst) \in Value
      BY <2>2 DEF Value
    <2> QED BY <2>1, <2>3, <2>4, <2>5
  <1>1. /\ a \in Fields /\ Len(a) = 9 /\ Size(a) = 20
        /\ a[2][2] = total /\ a[6][2] = protocol /\ a[9][2] = dst
    <2>1. total \in Value /\ protocol \in Value
      BY <1>0
    <2> HIDE DEF total
    <2> QED BY <2>1, IpHeaderIs
  <1>2. e \in Fields /\ Len(e) = 3 /\ Size(e) = 14 /\ e[1][2] = Route(dst) /\ e[3][2] = "IP"
    <2>1. "IP" \in Value
      BY DEF Value, Word
    <2> DEFINE hop == Route(dst)
               ip == "IP"
    <2>2. hop \in Value /\ ip \in Value /\ e = EthHeader(hop, ip)
      BY <1>0, <2>1
    <2> HIDE DEF hop, ip, e
    <2>3. e \in Fields /\ Len(e) = 3 /\ Size(e) = 14 /\ e[1][2] = hop /\ e[3][2] = ip
      BY <2>2, EthHeaderIs
    <2> QED BY <2>3 DEF hop, ip
  <1>t. total = 20 + Size(rest)
    OBVIOUS
  <1> HIDE DEF a, e, total
  <1>3. /\ b \in Fields /\ Size(b) = Size(a) + Size(rest) /\ Len(b) = Len(a) + Len(rest)
        /\ \A k \in 1..Len(a) : b[k] = a[k]
        /\ \A k \in 1..Len(rest) : b[Len(a) + k] = rest[k]
    BY <1>1, Joined
  <1>4. Len(b) >= 10 /\ b[2] = a[2] /\ b[6] = a[6] /\ b[9] = a[9] /\ b[10] = rest[1] /\ Size(b) = total
        /\ Len(rest) \in Nat
    <2>1. Len(rest) \in Nat
      BY FieldsType
    <2>2. 9 + 1 = 10 /\ 1 \in 1..Len(rest)
      BY <2>1
    <2> QED BY <1>0, <1>t, <1>1, <1>3, <2>1, <2>2, SMTT(30)
  <1>b. b \in Fields
    BY <1>3
  <1> HIDE DEF b
  <1>5. /\ f \in Fields /\ Size(f) = Size(e) + Size(b) /\ Len(f) = Len(e) + Len(b)
        /\ \A k \in 1..Len(e) : f[k] = e[k]
        /\ \A k \in 1..Len(b) : f[Len(e) + k] = b[k]
    BY <1>2, <1>b, Joined
  <1>6. /\ Len(f) >= 13 /\ Size(f) = 14 + total
        /\ f[1] = e[1] /\ f[5] = b[2] /\ f[9] = b[6] /\ f[12] = b[9] /\ f[13] = b[10]
    <2>1. Len(b) \in Nat
      BY <1>b, FieldsType
    <2>2. 3 + 2 = 5 /\ 3 + 6 = 9 /\ 3 + 9 = 12 /\ 3 + 10 = 13
          /\ 2 \in 1..Len(b) /\ 6 \in 1..Len(b) /\ 9 \in 1..Len(b) /\ 10 \in 1..Len(b)
      BY <1>4, <2>1
    <2> QED BY <1>2, <1>4, <1>5, <2>1, <2>2, SMTT(30)
  <1>i. total \in Int
    BY <1>0, <1>t
  <1>7. SentWell(f)
    <2>1. f[5][2] = Size(f) - 14
      BY <1>1, <1>4, <1>6, <1>i
    <2>2. f[1][2] = Route(f[12][2])
      BY <1>1, <1>2, <1>4, <1>6
    <2>3. f[9][2] \in {"TCP", "ICMP"}
      BY <1>1, <1>4, <1>6
    <2> QED BY <2>1, <2>2, <2>3 DEF SentWell
  <1>8. p # NULL => Answers(f, 12, p)
    <2>1. f[12][2] = dst /\ f[12 + 1] = rest[1]
      BY <1>1, <1>4, <1>6
    <2> QED BY <2>1 DEF Answers, Replies
  <1>9. f \in Datagrams(p)
    BY <1>5, <1>6, <1>7, <1>8 DEF Datagrams
  <1> QED BY <1>b, <1>t, <1>4, <1>9 DEF a, b, e, total

-------------------------------------------------------------------------------
(* Down to the chip, and ARP's own frames.                                     *)
LEMMA EtherDownGood ==
  ASSUME NEW w, NEW c, NEW H, NEW p, NEW d, Good(w, c, H, p, d), NEW i \in H,
         w.msg[i].body[3][2] = "IP" => w.msg[i].body \in Datagrams(p)
  PROVE  LET v == EtherDown(w, i)
         IN  Good(v, c, H \ {i}, p, d) /\ Others(w, v, i) /\ Stays(w, v)
  <1> DEFINE f == w.msg[i].body
             u == IF f[3][2] = "IP" THEN [w EXCEPT !.out = @ \cup {f}] ELSE w
             v == Free(u, i)
  <1>1. EtherDown(w, i) = v
    BY DEF EtherDown
  <1>2. w \in Worlds
    BY DEF Good
  <1>3. f[3][2] = "IP" => f \in Fields
    BY DEF Datagrams
  <1>4. /\ u \in Worlds /\ u.msg = w.msg /\ Stays(w, u)
        /\ \A g \in u.out : g \in w.out \/ (f[3][2] = "IP" /\ g = f)
    <2>1. CASE f[3][2] = "IP"
      <3> DEFINE o == w.out \cup {f}
      <3>1. u = [w EXCEPT !.out = o]
        BY <2>1
      <3>2. o \in SUBSET Fields
        BY <1>2, <1>3, <2>1 DEF Worlds
      <3>3. \A g \in o : g \in w.out \/ g = f
        OBVIOUS
      <3> HIDE DEF o, u, f
      <3>4. u \in Worlds
        BY <1>2, <3>1, <3>2 DEF Worlds
      <3>5. u.msg = w.msg /\ u.cache = w.cache /\ u.sock = w.sock /\ u.up = w.up /\ u.out = o
        BY <1>2, <3>1 DEF Worlds
      <3> QED BY <2>1, <3>3, <3>4, <3>5 DEF Stays
    <2>2. CASE f[3][2] # "IP"
      BY <1>2, <2>2 DEF Stays
    <2> QED BY <2>1, <2>2
  <1> HIDE DEF u, f
  <1>5. Good(u, c, H, p, d)
    BY <1>4 DEF Good, Stays, f
  <1>6. Good(v, c, H \ {i}, p, d) /\ Others(u, v, i) /\ Stays(u, v)
    BY <1>5, FreeGood
  <1> QED BY <1>1, <1>4, <1>6 DEF Others, Stays

LEMMA SendToGood ==
  ASSUME NEW w, NEW c, NEW H, NEW p, NEW d, Good(w, c, H, p, d), NEW i \in H,
         NEW hop \in Hop, Ready(w.msg[i], hop, p)
  PROVE  LET v == SendTo(w, i, hop)
         IN  Good(v, c, H \ {i}, p, d) /\ Others(w, v, i) /\ Stays(w, v)
  <1> DEFINE e == EthHeader(hop, "IP")
             m == Push(w.msg[i], e)
             u == Keep(w, i, m)
             v == EtherDown(u, i)
  <1>1. e \in Fields /\ Size(e) = 14
    <2>1. hop \in Value /\ "IP" \in Value
      BY DEF Value, Word
    <2> QED BY <2>1, EthHeaderIs
  <1>2. Live(w.msg[i]) /\ 14 <= w.msg[i].ptr /\ e \o w.msg[i].body \in Datagrams(p)
    BY GoodIs DEF Ready
  <1> HIDE DEF e
  <1>3. Live(m) /\ Alike(w.msg[i], m) /\ m.body = e \o w.msg[i].body
    BY <1>1, <1>2, PushLive
  <1> HIDE DEF m
  <1>4. Good(u, c, H, p, d) /\ u.msg[i] = m /\ Others(w, u, i) /\ Stays(w, u)
    BY <1>3, KeepGood
  <1> HIDE DEF u
  <1>5. u.msg[i].body \in Datagrams(p)
    BY <1>2, <1>3, <1>4
  <1>6. Good(v, c, H \ {i}, p, d) /\ Others(u, v, i) /\ Stays(u, v)
    BY <1>4, <1>5, EtherDownGood
  <1>7. SendTo(w, i, hop) = v
    BY DEF SendTo, u, m, e
  <1> QED BY <1>4, <1>6, <1>7 DEF Others, Stays

LEMMA ArpSendGood ==
  ASSUME NEW w, NEW c, NEW H, NEW p, NEW d, Good(w, c, H, p, d), Request \notin H,
         NEW dst \in Value, NEW opcode \in Value, NEW hop \in Value
  PROVE  LET v == ArpSend(w, dst, opcode, hop)
         IN  Good(v, c, H, p, d) /\ Others(w, v, Request) /\ Stays(w, v)
  <1> DEFINE frame == << <<2, 1>>, <<2, "IP">>, <<1, 6>>, <<1, 4>>, <<2, opcode>>,
                         <<6, Me>>, <<4, Me>>, <<6, dst>>, <<4, hop>> >>
             e == EthHeader(dst, "ARP")
             r == InUse(w.msg[Request])
             m == Push(r, e)
             n == Write(m, frame)
             u == Keep(w, Request, n)
             v == EtherDown(u, Request)
             G == H \cup {Request}
  <1>0. ArpSend(w, dst, opcode, hop) = v
    BY DEF ArpSend
  <1>1. frame \in Fields /\ Size(frame) = 28
    <2>1. /\ <<2, 1>> \in Field /\ <<2, "IP">> \in Field /\ <<1, 6>> \in Field
          /\ <<1, 4>> \in Field /\ <<2, opcode>> \in Field /\ <<6, Me>> \in Field
          /\ <<4, Me>> \in Field /\ <<6, dst>> \in Field /\ <<4, hop>> \in Field
      <3>1. 1 \in Value /\ 6 \in Value /\ 4 \in Value /\ "IP" \in Value /\ Me \in Value
        BY DEF Value, Word
      <3> QED BY <3>1, FieldType
    <2>2. frame \in Fields /\ Len(frame) = 9
      BY <2>1 DEF Fields
    <2>3. /\ frame[1] = <<2, 1>> /\ frame[2] = <<2, "IP">> /\ frame[3] = <<1, 6>>
          /\ frame[4] = <<1, 4>> /\ frame[5] = <<2, opcode>> /\ frame[6] = <<6, Me>>
          /\ frame[7] = <<4, Me>> /\ frame[8] = <<6, dst>> /\ frame[9] = <<4, hop>>
      OBVIOUS
    <2> HIDE DEF frame
    <2>4. Size(frame) = frame[1][1] + frame[2][1] + frame[3][1] + frame[4][1] + frame[5][1]
                        + frame[6][1] + frame[7][1] + frame[8][1] + frame[9][1]
      BY <2>2, Sizes
    <2> QED BY <2>2, <2>3, <2>4
  <1>2. e \in Fields /\ Size(e) = 14 /\ Len(e) = 3 /\ e[3][2] = "ARP"
    <2>1. "ARP" \in Value
      BY DEF Value, Word
    <2> QED BY <2>1, EthHeaderIs
  <1>3. /\ Sane(w.msg[Request]) /\ w.msg[Request].size = 60 /\ w.msg[Request].offset = 14
        /\ c \in [Hop -> EntryRec]
    BY GoodIs, IdsType
  <1> HIDE DEF frame, e
  <1>4. /\ Live(r) /\ Alike(w.msg[Request], r) /\ r.body = <<>> /\ r.ptr = 14
        /\ r.len = 0
    BY <1>3, InUseLive
  <1> HIDE DEF r
  <1>5. Live(m) /\ Alike(r, m) /\ m.body = e \o r.body /\ m.ptr = 0
    <2>1. Size(e) <= r.ptr /\ r.ptr - Size(e) = 0
      BY <1>2, <1>4
    <2> QED BY <1>2, <1>4, <2>1, PushLive
  <1> HIDE DEF m
  <1>6. m.body = e /\ m.len = 14 /\ m.size = 60 /\ MsgRoom(m) = 46
    <2>1. m.body = e
      BY <1>2, <1>4, <1>5, ConcatEmptySeq DEF Fields
    <2>2. m.len = 14
      BY <1>2, <1>5, <2>1 DEF Live, Sane
    <2>3. m.size = 60
      BY <1>3, <1>4, <1>5 DEF Alike
    <2> QED BY <1>5, <2>1, <2>2, <2>3 DEF MsgRoom
  <1>7. Live(n) /\ Alike(m, n) /\ n.body = m.body \o frame
    <2>1. Size(frame) <= MsgRoom(m)
      BY <1>1, <1>6
    <2> QED BY <1>1, <1>5, <2>1, WriteLive
  <1> HIDE DEF n
  <1>8. n.body[3][2] # "IP"
    <2>1. (e \o frame)[3] = e[3]
      <3>1. 3 \in 1..Len(e)
        BY <1>2
      <3> QED BY <1>1, <1>2, <3>1, HeadAndRest
    <2> QED BY <1>2, <1>6, <1>7, <2>1
  <1>9. Alike(w.msg[Request], n)
    BY <1>4, <1>5, <1>7 DEF Alike
  <1>10. Request \in Ids /\ Request \notin Queued(c)
    BY <1>3, QueuedIs, IdsType
  <1>11. Good(u, c, G, p, d) /\ u.msg[Request] = n /\ Others(w, u, Request) /\ Stays(w, u)
    BY <1>7, <1>9, <1>10, TakeGood, SMTT(30)
  <1> HIDE DEF u
  <1>12. Request \in G /\ G \ {Request} = H
    OBVIOUS
  <1> HIDE DEF G
  <1>13. Good(v, c, G \ {Request}, p, d) /\ Others(u, v, Request) /\ Stays(u, v)
    BY <1>8, <1>11, <1>12, EtherDownGood
  <1> QED BY <1>0, <1>11, <1>12, <1>13 DEF Others, Stays

(* The messages that wait for a hop are sent one by one.                       *)
Sending(f, w, q, hop) ==
    /\ f = [k \in 0..Len(q) |-> IF k = 0 THEN w ELSE SendTo(f[k - 1], q[k], hop)]
    /\ SendAll(w, q, hop) = f[Len(q)]

LEMMA SendAllIs ==
  ASSUME NEW w, NEW q \in Seq(Pool), NEW hop
  PROVE  \E f : Sending(f, w, q, hop)
  <1> DEFINE Right(f, n) ==
               f = [k \in 0..n |-> IF k = 0 THEN w ELSE SendTo(f[k - 1], q[k], hop)]
             T == {n \in 0..Len(q) : \A f : ~Right(f, n)}
  <1>1. Len(q) \in Nat
    BY LenProperties
  <1>2. T = {}
    <2> SUFFICES ASSUME T # {} PROVE FALSE
      OBVIOUS
    <2>1. PICK n \in T : \A m \in T : n <= m
      <3>1. T \in SUBSET Nat
        BY <1>1
      <3> HIDE DEF T
      <3> QED BY <3>1, Least
    <2>2. n \in 0..Len(q) /\ n \in Nat
      BY <1>1, <2>1
    <2>3. n # 0
      <3> DEFINE f == [k \in 0..0 |-> w]
      <3>1. Right(f, 0)
        OBVIOUS
      <3> QED BY <2>1, <3>1
    <2>9. n - 1 \notin T
      <3> HIDE DEF T
      <3> QED BY <2>1, <2>2
    <2>4. n - 1 \in 0..Len(q) /\ n - 1 \notin T
      BY <1>1, <2>2, <2>3, <2>9
    <2>5. PICK f : Right(f, n - 1)
      BY <2>4
    <2> DEFINE g == [k \in 0..n |-> IF k = n THEN SendTo(f[n - 1], q[n], hop) ELSE f[k]]
    <2>6. \A k \in 0..n-1 : g[k] = f[k] /\ f[k] = IF k = 0 THEN w ELSE SendTo(f[k - 1], q[k], hop)
      BY <2>2, <2>5
    <2>7. ASSUME NEW k \in 0..n
          PROVE  g[k] = IF k = 0 THEN w ELSE SendTo(g[k - 1], q[k], hop)
      <3>1. CASE k = n
        <4>1. g[n] = SendTo(f[n - 1], q[n], hop) /\ g[n - 1] = f[n - 1]
          BY <2>2, <2>3
        <4> QED BY <2>3, <3>1, <4>1
      <3>2. CASE k # n
        <4>1. k \in 0..n-1 /\ (k # 0 => k - 1 \in 0..n-1)
          BY <2>2, <3>2
        <4> HIDE DEF g
        <4> QED BY <2>6, <4>1
      <3> QED BY <3>1, <3>2
    <2>8. Right(g, n)
      BY <2>7
    <2> QED BY <2>1, <2>8
  <1>3. \E f : Right(f, Len(q))
    BY <1>1, <1>2
  <1> DEFINE h == CHOOSE f : Right(f, Len(q))
  <1>4. Right(h, Len(q))
    BY <1>3
  <1>5. SendAll(w, q, hop) = h[Len(q)]
    BY DEF SendAll
  <1> HIDE DEF h
  <1>6. Sending(h, w, q, hop)
    BY <1>4, <1>5 DEF Sending
  <1> QED BY <1>6

Elements(q, k) == {q[j] : j \in 1..k}
Apart(q)       == \A j, k \in 1..Len(q) : q[j] = q[k] => j = k

Sendable(w, q, H, hop, p) ==
    /\ q \in Seq(Pool) /\ Apart(q)
    /\ \A k \in 1..Len(q) : q[k] \in H /\ Ready(w.msg[q[k]], hop, p)

LEMMA SendAllGood ==
  ASSUME NEW w, NEW c, NEW H, NEW p, NEW d, Good(w, c, H, p, d), NEW hop \in Hop,
         NEW q, Sendable(w, q, H, hop, p)
  PROVE  LET v == SendAll(w, q, hop)
         IN  /\ Good(v, c, H \ Elements(q, Len(q)), p, d) /\ Stays(w, v)
             /\ \A j \in Ids \ Pool : v.msg[j] = w.msg[j]
  <1>s. q \in Seq(Pool) /\ Apart(q) /\ \A k \in 1..Len(q) : q[k] \in H /\ Ready(w.msg[q[k]], hop, p)
    BY DEF Sendable
  <1>0. PICK f : Sending(f, w, q, hop)
    BY <1>s, SendAllIs
  <1>1. /\ f = [k \in 0..Len(q) |-> IF k = 0 THEN w ELSE SendTo(f[k - 1], q[k], hop)]
        /\ SendAll(w, q, hop) = f[Len(q)]
    BY <1>0 DEF Sending
  <1>2. Len(q) \in Nat /\ \A k \in 1..Len(q) : q[k] \in Pool
    BY <1>s, LenProperties, ElementOfSeq
  <1> DEFINE P(k) == /\ Good(f[k], c, H \ Elements(q, k), p, d) /\ Stays(w, f[k])
                     /\ \A j \in Ids \ Elements(q, k) : f[k].msg[j] = w.msg[j]
             T == {k \in 0..Len(q) : ~P(k)}
  <1>3. f[0] = w /\ \A k \in 1..Len(q) : f[k] = SendTo(f[k - 1], q[k], hop)
    BY <1>1, <1>2
  <1>4. T = {}
    <2> SUFFICES ASSUME T # {} PROVE FALSE
      OBVIOUS
    <2>1. PICK n \in T : \A m \in T : n <= m
      <3>1. T \in SUBSET Nat
        BY <1>2
      <3> HIDE DEF T
      <3> QED BY <3>1, Least
    <2>2. n # 0
      <3>1. Elements(q, 0) = {} /\ H \ {} = H
        BY DEF Elements
      <3>2. P(0)
        BY <1>3, <3>1 DEF Stays
      <3> QED BY <2>1, <3>2
    <2>15. n \in 0..Len(q)
      BY <2>1
    <2>16. n - 1 \notin T
      <3> HIDE DEF T
      <3> QED BY <1>2, <2>1, <2>15
    <2>3. n \in 1..Len(q) /\ n - 1 \in 0..Len(q) /\ n - 1 \notin T
      BY <1>2, <2>2, <2>15, <2>16
    <2>4. P(n - 1)
      BY <2>3
    <2> DEFINE u == f[n - 1]
               v == f[n]
               i == q[n]
               G == H \ Elements(q, n - 1)
    <2>5. v = SendTo(u, i, hop)
      BY <1>3, <2>3
    <2>6. i \notin Elements(q, n - 1) /\ i \in H /\ i \in Ids
      <3>1. i \notin Elements(q, n - 1)
        BY <1>s, <1>2, <2>3 DEF Apart, Elements
      <3>2. i \in H /\ i \in Pool
        BY <1>s, <1>2, <2>3
      <3> QED BY <3>1, <3>2, IdsType
    <2>7. Elements(q, n) = Elements(q, n - 1) \cup {i}
      BY <1>2, <2>3 DEF Elements
    <2> DEFINE Done == Elements(q, n - 1)
    <2>8. Good(u, c, G, p, d) /\ Stays(w, u) /\ (\A j \in Ids \ Done : u.msg[j] = w.msg[j])
      BY <2>4
    <2>9. i \in G /\ Ready(u.msg[i], hop, p)
      BY <1>s, <2>3, <2>6, <2>8
    <2>10. G \ {i} = H \ Elements(q, n)
      BY <2>7
    <2> HIDE DEF u, v, i, G, Done, P, T
    <2>11. Good(v, c, G \ {i}, p, d) /\ Others(u, v, i) /\ Stays(u, v)
      BY <2>5, <2>8, <2>9, SendToGood
    <2>12. Good(v, c, H \ Elements(q, n), p, d) /\ Stays(w, v)
      BY <2>8, <2>10, <2>11 DEF Stays
    <2>13. \A j \in Ids \ Elements(q, n) : v.msg[j] = w.msg[j]
      BY <2>7, <2>8, <2>11 DEF Others, Done
    <2>14. P(n)
      BY <2>12, <2>13 DEF P, v
    <2> QED BY <2>1, <2>14 DEF T
  <1>5. P(Len(q))
    <2>1. \A k \in 0..Len(q) : P(k)
      <3> HIDE DEF P
      <3> QED BY <1>4
    <2> HIDE DEF P
    <2> QED BY <1>2, <2>1
  <1>6. \A j \in Ids \ Pool : j \notin Elements(q, Len(q))
    BY <1>2 DEF Elements
  <1> QED BY <1>1, <1>5, <1>6

(* ... or freed when arp gives up.                                             *)
LEMMA FreeAllIs ==
  ASSUME NEW w, NEW q \in Seq(Pool)
  PROVE  \E f : /\ f = [k \in 0..Len(q) |-> IF k = 0 THEN w ELSE Free(f[k - 1], q[k])]
                /\ FreeAll(w, q) = f[Len(q)]
  <1> DEFINE Right(f, n) == f = [k \in 0..n |-> IF k = 0 THEN w ELSE Free(f[k - 1], q[k])]
             T == {n \in 0..Len(q) : \A f : ~Right(f, n)}
  <1>1. Len(q) \in Nat
    BY LenProperties
  <1>2. T = {}
    <2> SUFFICES ASSUME T # {} PROVE FALSE
      OBVIOUS
    <2>1. PICK n \in T : \A m \in T : n <= m
      <3>1. T \in SUBSET Nat
        BY <1>1
      <3> HIDE DEF T
      <3> QED BY <3>1, Least
    <2>2. n \in 0..Len(q) /\ n \in Nat
      BY <1>1, <2>1
    <2>3. n # 0
      <3> DEFINE f == [k \in 0..0 |-> w]
      <3>1. Right(f, 0)
        OBVIOUS
      <3> QED BY <2>1, <3>1
    <2>9. n - 1 \notin T
      <3> HIDE DEF T
      <3> QED BY <2>1, <2>2
    <2>4. n - 1 \in 0..Len(q) /\ n - 1 \notin T
      BY <1>1, <2>2, <2>3, <2>9
    <2>5. PICK f : Right(f, n - 1)
      BY <2>4
    <2> DEFINE g == [k \in 0..n |-> IF k = n THEN Free(f[n - 1], q[n]) ELSE f[k]]
    <2>6. \A k \in 0..n-1 : g[k] = f[k] /\ f[k] = IF k = 0 THEN w ELSE Free(f[k - 1], q[k])
      BY <2>2, <2>5
    <2>7. ASSUME NEW k \in 0..n
          PROVE  g[k] = IF k = 0 THEN w ELSE Free(g[k - 1], q[k])
      <3>1. CASE k = n
        <4>1. g[n] = Free(f[n - 1], q[n]) /\ g[n - 1] = f[n - 1]
          BY <2>2, <2>3
        <4> QED BY <2>3, <3>1, <4>1
      <3>2. CASE k # n
        <4>1. k \in 0..n-1 /\ (k # 0 => k - 1 \in 0..n-1)
          BY <2>2, <3>2
        <4> HIDE DEF g
        <4> QED BY <2>6, <4>1
      <3> QED BY <3>1, <3>2
    <2>8. Right(g, n)
      BY <2>7
    <2> QED BY <2>1, <2>8
  <1>3. \E f : Right(f, Len(q))
    BY <1>1, <1>2
  <1> DEFINE h == CHOOSE f : Right(f, Len(q))
  <1>4. Right(h, Len(q))
    BY <1>3
  <1>5. FreeAll(w, q) = h[Len(q)]
    BY DEF FreeAll
  <1> HIDE DEF h
  <1> QED BY <1>4, <1>5

LEMMA FreeAllGood ==
  ASSUME NEW w, NEW c, NEW H, NEW p, NEW d, Good(w, c, H, p, d),
         NEW q \in Seq(Pool), Apart(q), \A k \in 1..Len(q) : q[k] \in H
  PROVE  LET v == FreeAll(w, q)
         IN  /\ Good(v, c, H \ Elements(q, Len(q)), p, d) /\ Stays(w, v)
  <1>1. PICK f : /\ f = [k \in 0..Len(q) |-> IF k = 0 THEN w ELSE Free(f[k - 1], q[k])]
                 /\ FreeAll(w, q) = f[Len(q)]
    BY FreeAllIs
  <1>2. Len(q) \in Nat /\ \A k \in 1..Len(q) : q[k] \in Pool
    BY LenProperties, ElementOfSeq
  <1> DEFINE P(k) == Good(f[k], c, H \ Elements(q, k), p, d) /\ Stays(w, f[k])
             T == {k \in 0..Len(q) : ~P(k)}
  <1>3. f[0] = w /\ \A k \in 1..Len(q) : f[k] = Free(f[k - 1], q[k])
    BY <1>1, <1>2, SMTT(30)
  <1>4. T = {}
    <2> SUFFICES ASSUME T # {} PROVE FALSE
      OBVIOUS
    <2>1. PICK n \in T : \A m \in T : n <= m
      <3>1. T \in SUBSET Nat
        BY <1>2
      <3> HIDE DEF T
      <3> QED BY <3>1, Least
    <2>2. n # 0
      <3>1. Elements(q, 0) = {} /\ H \ {} = H
        BY DEF Elements
      <3>2. P(0)
        BY <1>3, <3>1 DEF Stays
      <3> QED BY <2>1, <3>2
    <2>15. n \in 0..Len(q)
      BY <2>1
    <2>16. n - 1 \notin T
      <3> HIDE DEF T
      <3> QED BY <1>2, <2>1, <2>15
    <2>3. n \in 1..Len(q) /\ n - 1 \in 0..Len(q) /\ n - 1 \notin T
      BY <1>2, <2>2, <2>15, <2>16
    <2>4. P(n - 1)
      BY <2>3
    <2> DEFINE u == f[n - 1]
               v == f[n]
               i == q[n]
               G == H \ Elements(q, n - 1)
    <2>5. v = Free(u, i)
      BY <1>3, <2>3
    <2>6. i \notin Elements(q, n - 1) /\ i \in H
      BY <1>2, <2>3 DEF Apart, Elements
    <2>7. Elements(q, n) = Elements(q, n - 1) \cup {i}
      BY <1>2, <2>3 DEF Elements
    <2>8. Good(u, c, G, p, d) /\ Stays(w, u)
      BY <2>4
    <2>9. i \in G
      BY <2>6
    <2>10. G \ {i} = H \ Elements(q, n)
      BY <2>7
    <2> HIDE DEF u, v, i, G, P, T
    <2>11. Good(v, c, G \ {i}, p, d) /\ Stays(u, v)
      BY <2>5, <2>8, <2>9, FreeGood
    <2>12. Good(v, c, H \ Elements(q, n), p, d) /\ Stays(w, v)
      BY <2>8, <2>10, <2>11 DEF Stays
    <2>14. P(n)
      BY <2>12 DEF P, v
    <2> QED BY <2>1, <2>14 DEF T
  <1>5. P(Len(q))
    <2>1. \A k \in 0..Len(q) : P(k)
      <3> HIDE DEF P
      <3> QED BY <1>4
    <2> HIDE DEF P
    <2> QED BY <1>2, <2>1
  <1> QED BY <1>1, <1>5

-------------------------------------------------------------------------------
(* The queues change: who waits no longer is in hand, and the reverse.         *)
ChangesLines(w, c, H, b, G, p) ==
    /\ Lines(b) /\ G \in SUBSET Ids
    /\ \A i \in G : i \notin Queued(b)
    /\ \A i \in Ids : (i \in G \/ i \in Queued(b)) <=> (i \in H \/ i \in Queued(c))
    /\ \A h \in Hop : \A i \in Queue(b, h) :
          i \in Queue(c, h) \/ (Ready(w.msg[i], h, NULL) /\ Ready(w.msg[i], h, p))

LEMMA ChangeLines ==
  ASSUME NEW w, NEW c, NEW H, NEW p, NEW d, Good(w, c, H, p, d),
         NEW b, NEW G, ChangesLines(w, c, H, b, G, p)
  PROVE  Good(w, b, G, p, d)
  <1>1. /\ Lines(b) /\ G \in SUBSET Ids
        /\ \A i \in G : i \notin Queued(b)
        /\ \A i \in Ids : (i \in G \/ i \in Queued(b)) <=> (i \in H \/ i \in Queued(c))
        /\ \A h \in Hop : \A i \in Queue(b, h) :
              i \in Queue(c, h) \/ (Ready(w.msg[i], h, NULL) /\ Ready(w.msg[i], h, p))
    BY DEF ChangesLines
  <1>2. Memory(w.msg, c, H) /\ Held(w.msg, c, p, d)
    BY DEF Good
  <1>3. Memory(w.msg, b, G)
    BY <1>1, <1>2 DEF Memory
  <1>4. Held(w.msg, b, p, d)
    BY <1>1, <1>2 DEF Held
  <1> QED BY <1>1, <1>3, <1>4 DEF Good

LEMMA RecacheGood ==
  ASSUME NEW w, NEW c, NEW H, NEW p, NEW d, Good(w, c, H, p, d), NEW b \in [Hop -> EntryRec]
  PROVE  LET v == [w EXCEPT !.cache = b]
         IN  /\ Good(v, c, H, p, d) /\ v.msg = w.msg /\ v.cache = b
             /\ v.sock = w.sock /\ v.up = w.up
  <1> DEFINE v == [w EXCEPT !.cache = b]
  <1>1. w \in Worlds
    BY DEF Good
  <1>2. v \in Worlds
    BY <1>1 DEF Worlds
  <1>3. v.msg = w.msg /\ v.cache = b /\ v.sock = w.sock /\ v.up = w.up /\ v.out = w.out
    BY <1>1 DEF Worlds
  <1> HIDE DEF v
  <1>4. Good(v, c, H, p, d)
    BY <1>2, <1>3 DEF Good
  <1> QED BY <1>3, <1>4 DEF v

LEMMA EntryType ==
  ASSUME NEW c \in [Hop -> EntryRec], NEW h \in Hop, NEW e \in EntryRec
  PROVE  LET b == [c EXCEPT ![h] = e]
         IN  b \in [Hop -> EntryRec] /\ b[h] = e /\ \A g \in Hop : g # h => b[g] = c[g]
  OBVIOUS

(* The entry of a hop gets another state.                                      *)
States == {"IDLE", "WAITING", "BOUND"}
Restated(w, h, st) == [w EXCEPT !.cache[h].state = st]

LEMMA RestateGood ==
  ASSUME NEW w, NEW H, NEW p, NEW d, Good(w, w.cache, H, p, d), NEW h \in Hop,
         NEW st \in States
  PROVE  LET v == Restated(w, h, st)
         IN  /\ Good(v, v.cache, H, p, d) /\ v.msg = w.msg
             /\ v.sock = w.sock /\ v.up = w.up
  <1> DEFINE v == Restated(w, h, st)
             c == w.cache
             e == [c[h] EXCEPT !.state = st]
             b == [c EXCEPT ![h] = e]
  <1>1. w \in Worlds /\ c \in [Hop -> EntryRec] /\ Lines(c) /\ Good(w, c, H, p, d)
    BY GoodIs DEF Good
  <1>2. e \in EntryRec /\ e.mq = c[h].mq
    BY <1>1 DEF EntryRec, States
  <1>3. v = [w EXCEPT !.cache = b]
    BY <1>1 DEF Worlds, Restated
  <1> HIDE DEF e
  <1>4. b \in [Hop -> EntryRec] /\ b[h] = e /\ \A g \in Hop : g # h => b[g] = c[g]
    BY <1>1, <1>2, EntryType
  <1> HIDE DEF b, c, v
  <1>5. \A g \in Hop : b[g].mq = c[g].mq
    BY <1>2, <1>4
  <1>6. Lines(b)
    BY <1>1, <1>4, <1>5 DEF Lines
  <1>7. (\A g \in Hop : Queue(b, g) = Queue(c, g)) /\ Queued(b) = Queued(c)
    BY <1>5 DEF Queue, Queued
  <1>8. ChangesLines(w, c, H, b, H, p)
    BY <1>1, <1>6, <1>7, GoodIs DEF ChangesLines
  <1>9. Good(w, b, H, p, d)
    BY <1>1, <1>8, ChangeLines
  <1>10. /\ Good(v, b, H, p, d) /\ v.msg = w.msg /\ v.cache = b
         /\ v.sock = w.sock /\ v.up = w.up
    <2> DEFINE x == [w EXCEPT !.cache = b]
    <2>1. /\ Good(x, b, H, p, d) /\ x.msg = w.msg /\ x.cache = b
          /\ x.sock = w.sock /\ x.up = w.up
      BY <1>4, <1>9, RecacheGood
    <2>2. x = v
      BY <1>3
    <2> HIDE DEF x
    <2> QED BY <2>1, <2>2
  <1> QED BY <1>10 DEF v

(* The messages of an entry are taken in hand, when it is bound or given up.   *)
LEMMA EmptyGood ==
  ASSUME NEW w, NEW H, NEW p, NEW d, Good(w, w.cache, H, p, d), NEW h \in Hop,
         NEW st \in {"IDLE", "WAITING", "BOUND"}
  PROVE  LET b == [w.cache EXCEPT ![h] = [state |-> st, mq |-> <<>>]]
         IN  /\ b \in [Hop -> EntryRec] /\ Good(w, b, H \cup Queue(w.cache, h), p, d)
  <1> DEFINE c == w.cache
             e == [state |-> st, mq |-> <<>>]
             b == [c EXCEPT ![h] = e]
             G == H \cup Queue(c, h)
  <1>a. Good(w, c, H, p, d) /\ Lines(c)
    BY DEF Good
  <1>1. c \in [Hop -> EntryRec] /\ Lines(c) /\ Good(w, c, H, p, d) /\ H \in SUBSET Ids
        /\ \A i \in H : i \notin Queued(c)
    <2> HIDE DEF c
    <2> QED BY <1>a, GoodIs
  <1>2. e \in EntryRec /\ e.mq = <<>>
    BY EmptySeq DEF EntryRec
  <1> HIDE DEF e
  <1>3. b \in [Hop -> EntryRec] /\ b[h] = e /\ \A g \in Hop : g # h => b[g] = c[g]
    BY <1>1, <1>2, EntryType
  <1> HIDE DEF b, c
  <1>4. Queue(b, h) = {} /\ Len(b[h].mq) = 0 /\ DOMAIN b[h].mq = {}
    BY <1>2, <1>3 DEF Queue
  <1>5. \A g \in Hop : g # h => Queue(b, g) = Queue(c, g)
    BY <1>3 DEF Queue
  <1>6. Lines(b)
    <2>1. \A g \in Hop : Len(b[g].mq) < Depth
      BY <1>1, <1>3, <1>4, StackAssumption DEF Lines
    <2>2. ASSUME NEW f \in Hop, NEW g \in Hop, NEW j \in DOMAIN b[f].mq, NEW k \in DOMAIN b[g].mq,
                 b[f].mq[j] = b[g].mq[k]
          PROVE  f = g /\ j = k
      <3>1. f # h /\ g # h
        BY <1>4
      <3> QED BY <1>1, <1>3, <2>2, <3>1 DEF Lines
    <2> QED BY <1>3, <2>1, <2>2 DEF Lines
  <1>7. \A g \in Hop : \A i \in Queue(c, g) : i \in Queue(c, h) => g = h
    BY <1>1 DEF Lines, Queue
  <1>8. /\ \A i : i \in Queued(b) <=> \E g \in Hop : i \in Queue(b, g)
        /\ \A i : i \in Queued(c) <=> \E g \in Hop : i \in Queue(c, g)
        /\ Queue(c, h) \in SUBSET Ids
    BY <1>1, <1>3, QueuedIs, IdsType
  <1>9. G \in SUBSET Ids /\ \A i \in G : i \notin Queued(b)
    BY <1>1, <1>4, <1>5, <1>7, <1>8
  <1>10. \A i \in Ids : (i \in G \/ i \in Queued(b)) <=> (i \in H \/ i \in Queued(c))
    BY <1>4, <1>5, <1>8
  <1>11. \A g \in Hop : \A i \in Queue(b, g) : i \in Queue(c, g)
    BY <1>4, <1>5
  <1> HIDE DEF G
  <1>12. ChangesLines(w, c, H, b, G, p)
    BY <1>6, <1>9, <1>10, <1>11 DEF ChangesLines
  <1>13. Good(w, b, G, p, d)
    BY <1>1, <1>12, ChangeLines
  <1> QED BY <1>3, <1>13 DEF G, b, c, e

(* What a handler of the way down leaves alone: sockets, the terminal server,  *)
(* and the other messages, ARP's own excepted.                                 *)
Downward(w, v, i) == /\ v.sock = w.sock /\ v.up = w.up
                     /\ \A j \in Ids \ {i, Request} : v.msg[j] = w.msg[j]

LEMMA EnqueueGood ==
  ASSUME NEW w, NEW H, NEW p, NEW d, Good(w, w.cache, H, p, d), NEW h \in Hop,
         NEW i \in H, i \in Pool, Ready(w.msg[i], h, NULL), Ready(w.msg[i], h, p)
  PROVE  LET v == Enqueue(w, i, h)
         IN  Good(v, v.cache, H \ {i}, p, d) /\ Downward(w, v, i)
  <1> DEFINE c == w.cache
             v == Enqueue(w, i, h)
             G == H \ {i}
  <1>a. Good(w, c, H, p, d) /\ Lines(c)
    BY DEF Good
  <1>1. w \in Worlds /\ c \in [Hop -> EntryRec] /\ Lines(c) /\ Good(w, c, H, p, d) /\ H \in SUBSET Ids
        /\ \A j \in H : j \notin Queued(c)
    <2> HIDE DEF c
    <2> QED BY <1>a, GoodIs
  <1>2. c[h].mq \in Seq(Pool) /\ Len(c[h].mq) \in Nat /\ DOMAIN c[h].mq = 1..Len(c[h].mq)
    BY <1>1, QueuedIs
  <1>3. CASE Len(w.cache[h].mq) < Depth - 1
    <2> DEFINE q == Append(c[h].mq, i)
               n == Len(c[h].mq)
               e == [c[h] EXCEPT !.mq = q]
               b == [c EXCEPT ![h] = e]
    <2>1. v = [w EXCEPT !.cache = b]
      BY <1>1, <1>3 DEF Enqueue, Worlds
    <2>2. /\ q \in Seq(Pool) /\ Len(q) = n + 1 /\ q[n + 1] = i
          /\ \A k \in 1..n : q[k] = c[h].mq[k]
          /\ DOMAIN q = 1..(n + 1)
      BY <1>2, AppendProperties, LenProperties
    <2> HIDE DEF q
    <2>3. e \in EntryRec /\ e.mq = q
      BY <1>1, <2>2 DEF EntryRec
    <2> HIDE DEF e
    <2>4. b \in [Hop -> EntryRec] /\ b[h] = e /\ \A g \in Hop : g # h => b[g] = c[g]
      BY <1>1, <2>3, EntryType
    <2> HIDE DEF b, v
    <2>5. Queue(b, h) = Queue(c, h) \cup {i}
      <3>1. Queue(b, h) = {q[k] : k \in 1..(n + 1)}
        BY <2>2, <2>3, <2>4 DEF Queue
      <3>2. Queue(c, h) = {c[h].mq[k] : k \in 1..n}
        BY <1>2 DEF Queue
      <3> QED BY <1>2, <2>2, <3>1, <3>2, SMTT(30)
    <2>6. \A g \in Hop : g # h => Queue(b, g) = Queue(c, g)
      BY <2>4 DEF Queue
    <2>7. /\ \A j : j \in Queued(b) <=> \E g \in Hop : j \in Queue(b, g)
          /\ \A j : j \in Queued(c) <=> \E g \in Hop : j \in Queue(c, g)
      BY <1>1, <2>4, QueuedIs
    <2>8. \A j : j \in Queued(b) <=> j \in Queued(c) \/ j = i
      BY <2>5, <2>6, <2>7
    <2>9. Lines(b)
      <3>1. \A g \in Hop : Len(b[g].mq) < Depth
        <4>1. Len(b[h].mq) < Depth
          BY <1>2, <1>3, <2>2, <2>3, <2>4, StackAssumption
        <4> QED BY <1>1, <2>4, <4>1 DEF Lines
      <3>2. \A g \in Hop : \A k \in DOMAIN c[g].mq : c[g].mq[k] # i
        BY <1>1, <2>7 DEF Queue
      <3>3. \A g \in Hop : \A k \in DOMAIN b[g].mq :
               \/ k \in DOMAIN c[g].mq /\ b[g].mq[k] = c[g].mq[k]
               \/ g = h /\ k = n + 1 /\ b[g].mq[k] = i
        <4> SUFFICES ASSUME NEW g \in Hop, NEW k \in DOMAIN b[g].mq
                     PROVE  \/ k \in DOMAIN c[g].mq /\ b[g].mq[k] = c[g].mq[k]
                            \/ g = h /\ k = n + 1 /\ b[g].mq[k] = i
          OBVIOUS
        <4>1. CASE g # h
          BY <2>4, <4>1
        <4>2. CASE g = h
          <5>1. b[g].mq = q /\ k \in 1..(n + 1)
            BY <2>2, <2>3, <2>4, <4>2
          <5>2. k \in 1..n \/ k = n + 1
            BY <1>2, <5>1
          <5> QED BY <1>2, <2>2, <4>2, <5>1, <5>2
        <4> QED BY <4>1, <4>2
      <3>4. ASSUME NEW f \in Hop, NEW g \in Hop, NEW j \in DOMAIN b[f].mq, NEW k \in DOMAIN b[g].mq,
                   b[f].mq[j] = b[g].mq[k]
            PROVE  f = g /\ j = k
        <4>1. CASE j \in DOMAIN c[f].mq /\ b[f].mq[j] = c[f].mq[j]
          <5>1. k \in DOMAIN c[g].mq /\ b[g].mq[k] = c[g].mq[k]
            BY <3>2, <3>3, <3>4, <4>1
          <5>2. c[f].mq[j] = c[g].mq[k]
            BY <3>4, <4>1, <5>1
          <5>3. \A x, y \in Hop : \A l \in DOMAIN c[x].mq, o \in DOMAIN c[y].mq :
                   c[x].mq[l] = c[y].mq[o] => x = y /\ l = o
            BY <1>1 DEF Lines
          <5> HIDE DEF c
          <5> QED BY <4>1, <5>1, <5>2, <5>3
        <4>2. CASE f = h /\ j = n + 1 /\ b[f].mq[j] = i
          <5>1. g = h /\ k = n + 1
            BY <3>2, <3>3, <3>4, <4>2
          <5> QED BY <4>2, <5>1
        <4> QED BY <3>3, <4>1, <4>2
      <3> QED BY <2>4, <3>1, <3>4 DEF Lines
    <2>10. G \in SUBSET Ids /\ \A j \in G : j \notin Queued(b)
      BY <1>1, <2>8
    <2>11. \A j \in Ids : (j \in G \/ j \in Queued(b)) <=> (j \in H \/ j \in Queued(c))
      BY <2>8
    <2>12. \A g \in Hop : \A j \in Queue(b, g) :
              j \in Queue(c, g) \/ (Ready(w.msg[j], g, NULL) /\ Ready(w.msg[j], g, p))
      BY <2>5, <2>6
    <2> HIDE DEF G, c
    <2>13. ChangesLines(w, c, H, b, G, p)
      BY <2>9, <2>10, <2>11, <2>12 DEF ChangesLines
    <2>14. Good(w, b, G, p, d)
      BY <1>1, <2>13, ChangeLines
    <2>15. /\ Good(v, b, G, p, d) /\ v.msg = w.msg /\ v.cache = b
           /\ v.sock = w.sock /\ v.up = w.up
      BY <2>1, <2>4, <2>14, RecacheGood
    <2> QED BY <2>15 DEF v, G, Downward
  <1>4. CASE ~(Len(w.cache[h].mq) < Depth - 1)
    <2>1. v = Free(w, i)
      BY <1>4 DEF Enqueue
    <2> HIDE DEF v
    <2>2. Good(v, c, G, p, d) /\ Others(w, v, i) /\ Stays(w, v)
      BY <1>1, <2>1, FreeGood
    <2> QED BY <2>2 DEF v, Downward, Others, Stays
  <1> QED BY <1>3, <1>4

-------------------------------------------------------------------------------
(* The way down.                                                               *)
LEMMA OneField ==
  ASSUME NEW n \in Nat \ {0}, NEW x \in Value
  PROVE  LET f == << <<n, x>> >>
         IN  f \in Fields /\ Len(f) = 1 /\ Size(f) = n /\ f[1][1] = n /\ f[1][2] = x
  <1> DEFINE f == << <<n, x>> >>
  <1>1. f \in Fields /\ Len(f) = 1 /\ f[1] = <<n, x>>
    BY FieldType DEF Fields
  <1> HIDE DEF f
  <1>2. Size(f) = f[1][1]
    BY <1>1, Sizes
  <1>3. f \in Fields /\ Len(f) = 1 /\ Size(f) = n /\ f[1][1] = n /\ f[1][2] = x
    BY <1>1, <1>2
  <1> QED BY <1>3 DEF f

LEMMA TwoFields ==
  ASSUME NEW n \in Nat \ {0}, NEW x \in Value, NEW k \in Nat \ {0}, NEW y \in Value
  PROVE  LET f == << <<n, x>>, <<k, y>> >>
         IN  /\ f \in Fields /\ Len(f) = 2 /\ Size(f) = n + k
             /\ f[1][1] = n /\ f[1][2] = x /\ f[2][1] = k /\ f[2][2] = y
  <1> DEFINE f == << <<n, x>>, <<k, y>> >>
  <1>1. f \in Fields /\ Len(f) = 2 /\ f[1] = <<n, x>> /\ f[2] = <<k, y>>
    BY FieldType DEF Fields
  <1> HIDE DEF f
  <1>2. Size(f) = f[1][1] + f[2][1]
    BY <1>1, Sizes
  <1>3. /\ f \in Fields /\ Len(f) = 2 /\ Size(f) = n + k
        /\ f[1][1] = n /\ f[1][2] = x /\ f[2][1] = k /\ f[2][2] = y
    BY <1>1, <1>2
  <1> QED BY <1>3 DEF f

(* What arp_down is given: a hop and a datagram for it.                        *)
LEMMA ArpDownGood ==
  ASSUME NEW w, NEW H, NEW p, NEW d, Good(w, w.cache, H, p, d), Request \notin H,
         NEW i \in H, i \in Pool, NEW hop \in Hop, NEW b \in Fields,
         w.msg[i].body = << <<4, hop>> >> \o b, w.msg[i].ptr >= 10,
         EthHeader(hop, "IP") \o b \in Datagrams(NULL), EthHeader(hop, "IP") \o b \in Datagrams(p)
  PROVE  LET v == ArpDown(w, i)
         IN  Good(v, v.cache, H \ {i}, p, d) /\ Downward(w, v, i)
  <1> DEFINE fs == << <<4, hop>> >>
             widths == <<4>>
             m == Pop(w.msg[i], widths)
             u == Keep(w, i, m)
             x == Enqueue(u, i, hop)
             y == [x EXCEPT !.cache[hop].state = "WAITING"]
             z == ArpSend(y, "broadcast", "REQUEST", hop)
             v == ArpDown(w, i)
             G == H \ {i}
  <1>1. fs \in Fields /\ Len(fs) = 1 /\ Size(fs) = 4 /\ fs[1][1] = 4 /\ fs[1][2] = hop
    <2>1. hop \in Value
      BY DEF Value
    <2> QED BY <2>1, OneField
  <1>2. Len(widths) = 1 /\ widths[1] = 4
    OBVIOUS
  <1>3. Live(w.msg[i]) /\ Begins(w.msg[i], fs, b) /\ w.msg[i].ptr \in Int
    <2>1. Live(w.msg[i]) /\ w.msg[i].ptr \in Int
      BY InHand
    <2> QED BY <1>1, <2>1 DEF Begins
  <1> HIDE DEF fs, widths
  <1>4. Left(w.msg[i], m, fs, b)
    BY <1>1, <1>2, <1>3, PopLive
  <1>5. Live(m) /\ Alike(w.msg[i], m) /\ m.body = b /\ m.ptr >= 14
    BY <1>1, <1>3, <1>4 DEF Left
  <1>6. Val(w.msg[i], 1) = hop
    <2>1. \A k \in 1..Len(fs) : Val(w.msg[i], k) = fs[k][2]
      BY <1>3, ValOf
    <2> QED BY <1>1, <2>1
  <1> HIDE DEF m
  <1>7. /\ Good(u, w.cache, H, p, d) /\ u.msg[i] = m /\ Others(w, u, i) /\ Stays(w, u)
    BY <1>5, KeepGood
  <1> HIDE DEF u
  <1>8. Good(u, u.cache, H, p, d) /\ u.cache = w.cache /\ Downward(w, u, i)
    BY <1>7 DEF Stays, Downward, Others
  <1>9. Ready(u.msg[i], hop, NULL) /\ Ready(u.msg[i], hop, p)
    BY <1>5, <1>7 DEF Ready
  <1>10. /\ w.cache[hop].state \in {"IDLE", "WAITING", "BOUND"}
         /\ w.cache[hop].state = "BOUND" => v = SendTo(u, i, hop)
         /\ w.cache[hop].state = "WAITING" => v = x
         /\ w.cache[hop].state = "IDLE" => v = z
    <2>1. w.cache[hop] \in EntryRec
      BY CacheIs
    <2> QED BY <1>6, <2>1 DEF ArpDown, EntryRec, u, m, widths
  <1>11. Good(x, x.cache, G, p, d) /\ Downward(u, x, i)
    BY <1>8, <1>9, EnqueueGood
  <1> HIDE DEF v, x, G
  <1>12. CASE v = SendTo(u, i, hop)
    <2>1. Good(v, u.cache, G, p, d) /\ Others(u, v, i) /\ Stays(u, v)
      BY <1>8, <1>9, <1>12, SendToGood DEF G
    <2> QED BY <1>8, <2>1 DEF v, G, Downward, Others, Stays
  <1>13. CASE v = x
    BY <1>8, <1>11, <1>13 DEF v, G, Downward
  <1>14. CASE v = z
    <2> DEFINE st == "WAITING"
    <2>0. /\ Good(x, x.cache, G, p, d) /\ y = Restated(x, hop, st)
          /\ st \in States
      BY <1>11 DEF Restated, States
    <2> HIDE DEF y, st
    <2>1. /\ Good(y, y.cache, G, p, d) /\ y.msg = x.msg
          /\ y.sock = x.sock /\ y.up = x.up
      BY <2>0, RestateGood
    <2>2. "broadcast" \in Value /\ "REQUEST" \in Value /\ hop \in Value
      BY DEF Value, Word
    <2>3. Request \notin G
      BY DEF G
    <2>4. Good(z, y.cache, G, p, d) /\ Others(y, z, Request) /\ Stays(y, z)
      BY <2>1, <2>2, <2>3, ArpSendGood
    <2> HIDE DEF z
    <2> QED BY <1>8, <1>11, <1>14, <2>1, <2>4 DEF v, G, Downward, Others, Stays
  <1> QED BY <1>10, <1>12, <1>13, <1>14 DEF v, G

LEMMA IpDownGood ==
  ASSUME NEW w, NEW H, NEW p, NEW d, Good(w, w.cache, H, p, d), Request \notin H,
         NEW i \in H, i \in Pool, NEW protocol \in {"TCP", "ICMP"}, NEW dst \in Value,
         NEW rest \in Fields, Len(rest) >= 1, Replies(p, dst, rest),
         w.msg[i].body = << <<1, protocol>>, <<4, dst>> >> \o rest, w.msg[i].ptr >= 29
  PROVE  LET v == IpDown(w, i)
         IN  Good(v, v.cache, H \ {i}, p, d) /\ Downward(w, v, i)
  <1> DEFINE fs == << <<1, protocol>>, <<4, dst>> >>
             widths == <<1, 4>>
             m == Pop(w.msg[i], widths)
             header == IpHeader(20 + Size(rest), protocol, dst)
             hop == Route(dst)
             hs == << <<4, hop>> >>
             b == header \o rest
             n == Push(m, header)
             o == Push(n, hs)
             u == Keep(w, i, o)
             v == ArpDown(u, i)
  <1>1. fs \in Fields /\ Len(fs) = 2 /\ Size(fs) = 5
        /\ fs[1][1] = 1 /\ fs[1][2] = protocol /\ fs[2][1] = 4 /\ fs[2][2] = dst
    <2>1. protocol \in Value
      BY DEF Value, Word
    <2> QED BY <2>1, TwoFields
  <1>2. Len(widths) = 2 /\ widths[1] = 1 /\ widths[2] = 4
    OBVIOUS
  <1>3. Live(w.msg[i]) /\ Begins(w.msg[i], fs, rest) /\ w.msg[i].ptr \in Int
    <2>1. Live(w.msg[i]) /\ w.msg[i].ptr \in Int
      BY InHand
    <2> QED BY <1>1, <2>1 DEF Begins
  <1> HIDE DEF fs, widths
  <1>4. Left(w.msg[i], m, fs, rest)
    <2>1. \A j \in 1..Len(fs) : fs[j][1] = widths[j]
      BY <1>1, <1>2
    <2> QED BY <1>1, <1>2, <1>3, <2>1, PopLive
  <1>5. Live(m) /\ Alike(w.msg[i], m) /\ m.body = rest /\ m.ptr >= 34 /\ m.len = Size(rest)
        /\ m.ptr \in Int
    <2>1. Live(m) /\ Alike(w.msg[i], m) /\ m.body = rest /\ m.ptr = w.msg[i].ptr + Size(fs)
          /\ m.len = Size(rest)
      BY <1>4 DEF Left
    <2> QED BY <1>1, <1>3, <2>1
  <1>6. Val(w.msg[i], 1) = protocol /\ Val(w.msg[i], 2) = dst
    <2>1. \A k \in 1..Len(fs) : Val(w.msg[i], k) = fs[k][2]
      BY <1>3, ValOf
    <2> QED BY <1>1, <2>1
  <1>7. /\ header \in Fields /\ Size(header) = 20
        /\ b \in Fields /\ EthHeader(hop, "IP") \o b \in Datagrams(p)
        /\ EthHeader(hop, "IP") \o b \in Datagrams(NULL)
    <2>1. Size(rest) \in Nat
      BY SumType
    <2>2. 20 + Size(rest) \in Value /\ protocol \in Value
      BY <2>1 DEF Value, Word
    <2>3. header \in Fields /\ Size(header) = 20
      <3> DEFINE total == 20 + Size(rest)
      <3>1. total \in Value /\ protocol \in Value
        BY <2>2
      <3> HIDE DEF total
      <3>2. LET f == IpHeader(total, protocol, dst)
            IN  f \in Fields /\ Size(f) = 20
        BY <3>1, IpHeaderIs
      <3> QED BY <3>2 DEF total
    <2>4. Replies(NULL, dst, rest)
      BY DEF Replies
    <2>5. b \in Fields /\ EthHeader(hop, "IP") \o b \in Datagrams(p)
      BY DatagramIs
    <2>6. EthHeader(hop, "IP") \o b \in Datagrams(NULL)
      BY <2>4, DatagramIs
    <2> QED BY <2>3, <2>5, <2>6
  <1>8. hop \in Hop
    BY DEF Route, Hop
  <1>9. hs \in Fields /\ Size(hs) = 4
    <2>1. hop \in Value
      BY <1>8 DEF Value
    <2> HIDE DEF hop
    <2> QED BY <2>1, OneField
  <1>h. IpDown(w, i) = v
    BY <1>5, <1>6 DEF IpDown, widths
  <1> HIDE DEF m, header, hop, b
  <1>10. Live(n) /\ Alike(m, n) /\ n.body = header \o m.body /\ n.ptr = m.ptr - 20
    <2>1. Size(header) <= m.ptr
      BY <1>5, <1>7
    <2> QED BY <1>5, <1>7, <2>1, PushLive
  <1> HIDE DEF n
  <1>11. Live(o) /\ Alike(n, o) /\ o.body = hs \o n.body /\ o.ptr = n.ptr - 4
    <2>1. Size(hs) <= n.ptr
      BY <1>5, <1>9, <1>10
    <2> HIDE DEF hs
    <2> QED BY <1>9, <1>10, <2>1, PushLive
  <1> HIDE DEF o
  <1>12. Alike(w.msg[i], o) /\ o.body = hs \o b /\ o.ptr >= 10
    BY <1>5, <1>10, <1>11 DEF Alike, b
  <1>13. /\ Good(u, w.cache, H, p, d) /\ u.msg[i] = o /\ Others(w, u, i) /\ Stays(w, u)
    BY <1>11, <1>12, KeepGood
  <1> HIDE DEF u
  <1>14. Good(u, u.cache, H, p, d)
    BY <1>13 DEF Stays
  <1>15. u.msg[i].body = << <<4, hop>> >> \o b /\ u.msg[i].ptr >= 10
    BY <1>12, <1>13
  <1>16. Good(v, v.cache, H \ {i}, p, d) /\ Downward(u, v, i)
    BY <1>7, <1>8, <1>14, <1>15, ArpDownGood
  <1> HIDE DEF v
  <1> QED BY <1>h, <1>13, <1>16 DEF Downward, Others, Stays

LEMMA TcpHeaderIs ==
  ASSUME NEW src \in Value, NEW dst \in Value
  PROVE  LET f == TcpHeader(src, dst)
         IN  f \in Fields /\ Len(f) = 8 /\ Size(f) = 20 /\ f[1] = <<2, src>>
  <1> DEFINE f == << <<2, src>>, <<2, dst>>, <<4, "seq">>, <<4, "ack">>, <<2, "bits">>,
                     <<2, "window">>, <<2, TRUE>>, <<2, 0>> >>
  <1>a. /\ <<4, "seq">> \in Field /\ <<4, "ack">> \in Field /\ <<2, "bits">> \in Field
        /\ <<2, "window">> \in Field /\ <<2, 0>> \in Field
    BY DEF Field, Value, Word
  <1>b. <<2, src>> \in Field /\ <<2, dst>> \in Field
    BY DEF Field
  <1>2. TcpHeader(src, dst) = f
    BY DEF TcpHeader
  <1>3. f \in Fields /\ Len(f) = 8
    BY <1>a, <1>b, TruthType DEF Fields
  <1>4. /\ f[1] = <<2, src>> /\ f[2] = <<2, dst>> /\ f[3] = <<4, "seq">> /\ f[4] = <<4, "ack">>
        /\ f[5] = <<2, "bits">> /\ f[6] = <<2, "window">> /\ f[7] = <<2, TRUE>>
        /\ f[8] = <<2, 0>>
    OBVIOUS
  <1> HIDE DEF f
  <1>5. Size(f) = f[1][1] + f[2][1] + f[3][1] + f[4][1] + f[5][1] + f[6][1] + f[7][1] + f[8][1]
    BY <1>3, Sizes
  <1>6. Size(f) = 20
    BY <1>4, <1>5
  <1> QED BY <1>2, <1>3, <1>4, <1>6

(* The pseudo header is gone again when the checksum is made or verified.      *)
LEMMA PseudoIs ==
  ASSUME NEW m, Live(m), m.ptr >= 12, NEW src \in Value, NEW dst \in Value
  PROVE  LET r == Pseudo(m, src, dst)
         IN  Live(r) /\ Alike(m, r) /\ r.body = m.body /\ r.ptr = m.ptr /\ r.len = m.len
  <1>m. /\ m \in Message /\ m.body \in Fields /\ m.ok = TRUE /\ m.inuse = TRUE
        /\ m.ptr \in Nat /\ m.len \in Nat /\ m.size \in Int /\ m.len = Size(m.body)
        /\ m.offset \in Int /\ m.ptr + m.len <= m.size /\ m.offset \in 0..m.size
    BY LiveType
  <1> DEFINE f == << <<4, src>>, <<4, dst>>, <<1, 0>>, <<1, "TCP">>, <<2, m.len>> >>
             n == Push(m, f)
             r == Drop(n, 12)
  <1>0. Pseudo(m, src, dst) = r
    BY DEF Pseudo
  <1>1. f \in Fields /\ Size(f) = 12
    <2>1. /\ <<4, src>> \in Field /\ <<4, dst>> \in Field
      BY DEF Field
    <2>2. <<1, 0>> \in Field /\ <<1, "TCP">> \in Field
      BY DEF Field, Value, Word
    <2>3. <<2, m.len>> \in Field
      <3>1. m.len \in Value
        BY <1>m DEF Value
      <3> QED BY <3>1, FieldType
    <2>4. f \in Fields /\ Len(f) = 5
      BY <2>1, <2>2, <2>3 DEF Fields
    <2>5. /\ f[1] = <<4, src>> /\ f[2] = <<4, dst>> /\ f[3] = <<1, 0>> /\ f[4] = <<1, "TCP">>
          /\ f[5] = <<2, m.len>>
      OBVIOUS
    <2> HIDE DEF f
    <2>6. Size(f) = f[1][1] + f[2][1] + f[3][1] + f[4][1] + f[5][1]
      BY <2>4, Sizes
    <2> QED BY <2>4, <2>5, <2>6
  <1> HIDE DEF f
  <1>2. Live(n) /\ Alike(m, n) /\ n.body = f \o m.body /\ n.ptr = m.ptr - Size(f)
    <2>1. Size(f) <= m.ptr
      BY <1>1, <1>m
    <2> QED BY <1>1, <2>1, PushLive
  <1> HIDE DEF n
  <1>3. Begins(n, f, m.body)
    BY <1>1, <1>2, <1>m DEF Begins
  <1>4. Left(n, Drop(n, Size(f)), f, m.body)
    BY <1>2, <1>3, DropLive
  <1>5. Left(n, r, f, m.body)
    BY <1>1, <1>4
  <1> HIDE DEF r
  <1>6. Live(r) /\ Alike(m, r) /\ r.body = m.body /\ r.ptr = m.ptr /\ r.len = m.len
    BY <1>1, <1>2, <1>5, <1>m DEF Left, Alike
  <1> QED BY <1>0, <1>6

(* A message in hand is changed, or one that is free taken in hand.            *)
LEMMA PutGood ==
  ASSUME NEW w, NEW c, NEW H, NEW p, NEW d, Good(w, c, H, p, d),
         NEW i \in Ids, i \notin Queued(c), NEW m, Live(m), Alike(w.msg[i], m)
  PROVE  LET v == Keep(w, i, m)
         IN  /\ Good(v, c, H \cup {i}, p, d) /\ v.msg[i] = m /\ Others(w, v, i)
             /\ Stays(w, v) /\ v.out = w.out
  <1>1. CASE i \in H
    <2>1. H \cup {i} = H
      BY <1>1
    <2>2. LET v == Keep(w, i, m)
          IN  /\ Good(v, c, H, p, d) /\ v.msg[i] = m /\ Others(w, v, i)
              /\ Stays(w, v) /\ v.out = w.out
      BY <1>1, KeepGood
    <2> QED BY <2>1, <2>2
  <1>2. CASE i \notin H
    BY <1>2, TakeGood
  <1> QED BY <1>1, <1>2

LEMMA TcpSendGood ==
  ASSUME NEW w, NEW H, NEW p, NEW d, Good(w, w.cache, H, p, d), Request \notin H,
         NEW i \in Pool, i \notin Queued(w.cache), NEW m, Live(m), Alike(w.msg[i], m),
         m.ptr >= 54, NEW header \in Fields, Len(header) >= 1, Size(header) = 20,
         NEW dst \in Value, p # NULL => dst = p.ip /\ header[1] = <<2, p.loc>>
  PROVE  LET v == TcpSend(w, i, m, header, dst)
         IN  Good(v, v.cache, H \ {i}, p, d) /\ Downward(w, v, i)
  <1>m. /\ m \in Message /\ m.body \in Fields /\ m.ok = TRUE /\ m.inuse = TRUE
        /\ m.ptr \in Nat /\ m.len \in Nat /\ m.size \in Int /\ m.len = Size(m.body)
        /\ m.offset \in Int /\ m.ptr + m.len <= m.size /\ m.offset \in 0..m.size
    BY LiveType
  <1> DEFINE n == Push(m, header)
             o == Pseudo(n, Me, dst)
             fs == << <<1, "TCP">>, <<4, dst>> >>
             q == Push(o, fs)
             u == Keep(w, i, q)
             v == IpDown(u, i)
             G == H \cup {i}
             rest == header \o m.body
  <1>0. TcpSend(w, i, m, header, dst) = v
    BY DEF TcpSend
  <1>1. Live(n) /\ Alike(m, n) /\ n.body = rest /\ n.ptr = m.ptr - 20
    <2>1. Size(header) <= m.ptr
      BY <1>m
    <2> QED BY <2>1, PushLive
  <1>2. rest \in Fields /\ Len(rest) >= 1 /\ rest[1] = header[1]
    <2>1. rest \in Fields /\ Len(rest) = Len(header) + Len(m.body)
          /\ \A k \in 1..Len(header) : rest[k] = header[k]
      <3> DEFINE x == m.body
      <3>1. x \in Fields /\ rest = header \o x
        BY <1>m
      <3> HIDE DEF x, rest
      <3>2. /\ header \o x \in Fields /\ Len(header \o x) = Len(header) + Len(x)
            /\ \A k \in 1..Len(header) : (header \o x)[k] = header[k]
        BY <3>1, Joined
      <3> QED BY <3>1, <3>2 DEF x
    <2>2. Len(header) \in Nat /\ Len(m.body) \in Nat
      BY <1>m, FieldsType
    <2> QED BY <2>1, <2>2
  <1> HIDE DEF n, rest
  <1>3. Live(o) /\ Alike(n, o) /\ o.body = rest /\ o.ptr = m.ptr - 20
    <2>1. n.ptr >= 12 /\ Me \in Value
      BY <1>1, <1>m DEF Value
    <2>2. LET r == Pseudo(n, Me, dst)
          IN  Live(r) /\ Alike(n, r) /\ r.body = n.body /\ r.ptr = n.ptr /\ r.len = n.len
      BY <1>1, <2>1, PseudoIs
    <2> QED BY <1>1, <2>2
  <1> HIDE DEF o
  <1>4. fs \in Fields /\ Size(fs) = 5
    <2>1. "TCP" \in Value
      BY DEF Value, Word
    <2> QED BY <2>1, TwoFields
  <1>5. Live(q) /\ Alike(o, q) /\ q.body = fs \o rest /\ q.ptr >= 29
    <2>1. Size(fs) <= o.ptr
      BY <1>3, <1>4, <1>m
    <2> HIDE DEF fs
    <2>2. Live(q) /\ Alike(o, q) /\ q.body = fs \o o.body /\ q.ptr = o.ptr - Size(fs)
      BY <1>3, <1>4, <2>1, PushLive
    <2> QED BY <1>3, <1>4, <1>m, <2>2
  <1> HIDE DEF q
  <1>6. Alike(w.msg[i], q)
    BY <1>1, <1>3, <1>5 DEF Alike
  <1>7. i \in Ids
    BY IdsType
  <1>8. /\ Good(u, w.cache, G, p, d) /\ u.msg[i] = q /\ Others(w, u, i) /\ Stays(w, u)
    <2> DEFINE c == w.cache
    <2>1. Good(w, c, H, p, d) /\ i \notin Queued(c)
      OBVIOUS
    <2>2. i \in Ids /\ Live(q) /\ Alike(w.msg[i], q)
      BY <1>5, <1>6, <1>7
    <2> HIDE DEF c
    <2>3. LET after == Keep(w, i, q)
          IN  /\ Good(after, c, H \cup {i}, p, d) /\ after.msg[i] = q /\ Others(w, after, i)
              /\ Stays(w, after) /\ after.out = w.out
      BY <2>1, <2>2, PutGood
    <2> QED BY <2>3 DEF c
  <1> HIDE DEF u
  <1>9. Good(u, u.cache, G, p, d) /\ Downward(w, u, i)
    BY <1>8 DEF Stays, Downward, Others
  <1>10. Request \notin G /\ i \in G /\ G \ {i} = H \ {i}
    BY IdsType
  <1>11. Replies(p, dst, rest)
    BY <1>2 DEF Replies
  <1>12. u.msg[i].body = << <<1, "TCP">>, <<4, dst>> >> \o rest /\ u.msg[i].ptr >= 29
    BY <1>5, <1>8
  <1> HIDE DEF G
  <1>13. Good(v, v.cache, G \ {i}, p, d) /\ Downward(u, v, i)
    BY <1>2, <1>9, <1>10, <1>11, <1>12, IpDownGood
  <1> HIDE DEF v
  <1> QED BY <1>0, <1>9, <1>10, <1>13 DEF Downward

LEMMA PortType == \A x \in Port : x \in Nat \ {0}
  BY StackAssumption DEF Port, MagicPort, ListPort, Sock

(* tx_process: a segment is built, if the pool has a message for it.           *)
Replying(w, s, p) == p # NULL => w.sock[s].ip = p.ip /\ w.sock[s].loc = p.loc

LEMMA TxProcessGood ==
  ASSUME NEW w, NEW H, NEW p, NEW d, Good(w, w.cache, H, p, d), Request \notin H,
         NEW s \in Sock, NEW n \in Nat, n <= PoolLen - PoolOffset, Replying(w, s, p)
  PROVE  LET v == TxProcess(w, s, n)
         IN  /\ Good(v, v.cache, H, p, d) /\ v.sock = w.sock /\ v.up = w.up
             /\ \A j \in H : v.msg[j] = w.msg[j]
  <1> DEFINE z == w.sock[s]
             data == IF n = 0 THEN <<>> ELSE << <<n, "data">> >>
             params == << <<4, z.ip>>, <<2, z.loc>>, <<2, z.rem>>, <<4, "seq">>, <<4, "ack">>,
                          <<2, "bits">>, <<2, "window">> >>
             widths == <<4, 2, 2, 4, 4, 2, 2>>
             i == Alloc(w)
             a == Alloced(w)
             m == Write(a, data)
             o == Push(m, params)
             u == Keep(w, i, o)
             r == Pop(o, widths)
             header == TcpHeader(z.loc, z.rem)
             v == TcpSend(u, i, r, header, z.ip)
             c == w.cache
             G == H \cup {i}
  <1>1. CASE Unused(w) = {}
    BY <1>1 DEF TxProcess
  <1>2. CASE Unused(w) # {}
    <2>1. /\ i \in Pool /\ i \in Ids /\ i \notin H /\ i \notin Queued(c)
          /\ Live(a) /\ Alike(w.msg[i], a)
          /\ a.body = <<>> /\ a.ptr = PoolOffset
          /\ a.len = 0 /\ a.size = PoolLen
      BY <1>2, AllocIs
    <2>2. z.ip \in Value /\ z.loc \in Value /\ z.rem \in Value
      <3>1. z \in SocketRec
        <4>1. w.sock \in [Sock -> SocketRec]
          BY GoodIs
        <4> QED BY <4>1
      <3> HIDE DEF z
      <3>2. z.ip \in Host \cup {NULL} /\ z.loc \in Port \cup {0} /\ z.rem \in {RemPort, NULL}
        BY <3>1 DEF SocketRec
      <3>3. z.loc \in Int
        BY <3>2, PortType
      <3> QED BY <3>2, <3>3 DEF Value
    <2>3. data \in Fields /\ Size(data) = n
      <3>1. CASE n = 0
        BY <3>1, EmptyType
      <3>2. CASE n # 0
        <4>1. "data" \in Value /\ n \in Nat \ {0}
          BY <3>2 DEF Value, Word
        <4> QED BY <3>2, <4>1, OneField
      <3> QED BY <3>1, <3>2
    <2>4. /\ params \in Fields /\ Len(params) = 7 /\ Size(params) = 20
          /\ params[1] = <<4, z.ip>> /\ params[2] = <<2, z.loc>> /\ params[3] = <<2, z.rem>>
          /\ params[4][1] = 4 /\ params[5][1] = 4 /\ params[6][1] = 2 /\ params[7][1] = 2
      <3> HIDE DEF z
      <3>1. <<4, z.ip>> \in Field /\ <<2, z.loc>> \in Field /\ <<2, z.rem>> \in Field
        BY <2>2, FieldType
      <3>2. /\ <<4, "seq">> \in Field /\ <<4, "ack">> \in Field /\ <<2, "bits">> \in Field
            /\ <<2, "window">> \in Field
        BY DEF Field, Value, Word
      <3>3. params \in Fields /\ Len(params) = 7
        BY <3>1, <3>2 DEF Fields
      <3>4. /\ params[1] = <<4, z.ip>> /\ params[2] = <<2, z.loc>> /\ params[3] = <<2, z.rem>>
            /\ params[4] = <<4, "seq">> /\ params[5] = <<4, "ack">> /\ params[6] = <<2, "bits">>
            /\ params[7] = <<2, "window">>
        OBVIOUS
      <3> HIDE DEF params
      <3>5. Size(params) = params[1][1] + params[2][1] + params[3][1] + params[4][1]
                           + params[5][1] + params[6][1] + params[7][1]
        BY <3>3, Sizes
      <3> QED BY <3>3, <3>4, <3>5
    <2>5. Len(widths) = 7 /\ widths[1] = 4 /\ widths[2] = 2 /\ widths[3] = 2 /\ widths[4] = 4
          /\ widths[5] = 4 /\ widths[6] = 2 /\ widths[7] = 2
      OBVIOUS
    <2>6. header \in Fields /\ Len(header) = 8 /\ Size(header) = 20 /\ header[1] = <<2, z.loc>>
      <3> HIDE DEF z
      <3> QED BY <2>2, TcpHeaderIs
    <2>7. TxProcess(w, s, n) = TcpDown(u, i)
      BY <1>2 DEF TxProcess
    <2>z. p # NULL => z.ip = p.ip /\ z.loc = p.loc
      BY DEF Replying
    <2> HIDE DEF z, data, params, widths, a, header, i
    <2>8. Live(m) /\ Alike(a, m) /\ m.body = a.body \o data /\ m.ptr = PoolOffset
      <3>1. Size(data) <= MsgRoom(a)
        BY <2>1, <2>3, StackAssumption DEF MsgRoom
      <3> QED BY <2>1, <2>3, <3>1, WriteLive
    <2> HIDE DEF m
    <2>9. Live(o) /\ Alike(m, o) /\ o.body = params \o m.body /\ o.ptr = PoolOffset - 20
      <3>1. Size(params) <= m.ptr
        BY <2>4, <2>8, StackAssumption
      <3> QED BY <2>4, <2>8, <3>1, PushLive
    <2>10. Begins(o, params, m.body)
      <3>1. m.body \in Fields
        BY <2>8, LiveType
      <3> QED BY <2>4, <2>9, <3>1 DEF Begins
    <2> HIDE DEF o
    <2>11. Left(o, r, params, m.body)
      <3>1. \A j \in 1..Len(params) : params[j][1] = widths[j]
        BY <2>4, <2>5
      <3> QED BY <2>4, <2>5, <2>9, <2>10, <3>1, PopLive
    <2> HIDE DEF r
    <2>12. Live(r) /\ Alike(o, r) /\ r.ptr = PoolOffset
      BY <2>4, <2>9, <2>11, StackAssumption DEF Left
    <2>13. Alike(w.msg[i], o)
      BY <2>1, <2>8, <2>9 DEF Alike
    <2>14. /\ Good(u, c, G, p, d) /\ u.msg[i] = o /\ Others(w, u, i) /\ Stays(w, u)
      <3>1. i \in Ids /\ i \notin H /\ i \notin Queued(c) /\ Live(o) /\ Alike(w.msg[i], o)
        BY <2>1, <2>9, <2>13
      <3>2. Good(w, c, H, p, d)
        OBVIOUS
      <3> HIDE DEF c
      <3>3. LET after == Keep(w, i, o)
            IN  /\ Good(after, c, H \cup {i}, p, d) /\ after.msg[i] = o /\ Others(w, after, i)
                /\ Stays(w, after) /\ after.out = w.out
        BY <3>1, <3>2, TakeGood
      <3> QED BY <3>3 DEF u
    <2>15. TcpDown(u, i) = v
      <3>1. Val(o, 1) = z.ip /\ Val(o, 2) = z.loc /\ Val(o, 3) = z.rem
        <4>1. \A k \in 1..Len(params) : Val(o, k) = params[k][2]
          BY <2>10, ValOf
        <4> QED BY <2>4, <4>1
      <3> QED BY <2>14, <3>1 DEF TcpDown, r, widths, header
    <2> HIDE DEF u
    <2>16. Good(u, u.cache, G, p, d) /\ Request \notin G /\ i \notin Queued(u.cache)
           /\ Alike(u.msg[i], r) /\ r.ptr >= 54 /\ G \ {i} = H
      BY <2>1, <2>12, <2>14, IdsType, StackAssumption DEF Stays
    <2> HIDE DEF G
    <2>17. Good(v, v.cache, G \ {i}, p, d) /\ Downward(u, v, i)
      <3> DEFINE ip == z.ip
      <3>1. Good(u, u.cache, G, p, d) /\ Request \notin G
        BY <2>16
      <3>2. i \in Pool /\ i \notin Queued(u.cache) /\ Live(r) /\ Alike(u.msg[i], r) /\ r.ptr >= 54
        BY <2>1, <2>12, <2>16
      <3>3. header \in Fields /\ Len(header) >= 1 /\ Size(header) = 20 /\ ip \in Value
        BY <2>2, <2>6
      <3>4. p # NULL => ip = p.ip /\ header[1] = <<2, p.loc>>
        BY <2>6, <2>z
      <3>5. v = TcpSend(u, i, r, header, ip)
        OBVIOUS
      <3> HIDE DEF ip, v
      <3> QED BY <3>1, <3>2, <3>3, <3>4, <3>5, TcpSendGood
    <2> HIDE DEF v
    <2>18. \A j \in H : v.msg[j] = w.msg[j]
      <3>1. H \in SUBSET Ids
        <4>1. Good(w, c, H, p, d)
          OBVIOUS
        <4> HIDE DEF c
        <4> QED BY <4>1, GoodIs
      <3>2. \A j \in H : j \in Ids /\ j # i /\ j # Request
        BY <2>1, <3>1
      <3> QED BY <2>14, <2>17, <3>2 DEF Downward, Others
    <2>19. v.sock = w.sock /\ v.up = w.up
      BY <2>14, <2>17 DEF Downward, Stays
    <2> QED BY <2>7, <2>15, <2>16, <2>17, <2>18, <2>19
  <1> QED BY <1>1, <1>2

-------------------------------------------------------------------------------
(* The way up.                                                                 *)

(* What a terminal server takes, and a socket that changes its state.          *)
LEMMA UpGood ==
  ASSUME NEW w, NEW c, NEW H, NEW p, NEW d, Good(w, c, H, p, d), NEW x \in Fields
  PROVE  LET v == [w EXCEPT !.up = x]
         IN  /\ Good(v, c, H, p, d) /\ v.msg = w.msg /\ v.cache = w.cache
             /\ v.sock = w.sock /\ v.up = x
  <1> DEFINE v == [w EXCEPT !.up = x]
  <1>1. w \in Worlds
    BY DEF Good
  <1>2. v \in Worlds
    BY <1>1 DEF Worlds
  <1>3. v.msg = w.msg /\ v.cache = w.cache /\ v.sock = w.sock /\ v.up = x /\ v.out = w.out
    BY <1>1 DEF Worlds
  <1> HIDE DEF v
  <1>4. Good(v, c, H, p, d)
    BY <1>2, <1>3 DEF Good
  <1> QED BY <1>3, <1>4 DEF v

LEMMA SocketGood ==
  ASSUME NEW w, NEW c, NEW H, NEW p, NEW d, Good(w, c, H, p, d), NEW s \in Sock,
         NEW y \in SocketRec, y.state = "CLOSED" => y.loc = 0
  PROVE  LET v == [w EXCEPT !.sock[s] = y]
         IN  /\ Good(v, c, H, p, d) /\ v.msg = w.msg /\ v.cache = w.cache
             /\ v.sock = [w.sock EXCEPT ![s] = y] /\ v.up = w.up /\ v.sock[s] = y
             /\ \A t \in Sock : t # s => v.sock[t] = w.sock[t]
  <1> DEFINE a == [w.sock EXCEPT ![s] = y]
             v == [w EXCEPT !.sock[s] = y]
  <1>1. w \in Worlds /\ w.sock \in [Sock -> SocketRec]
    BY DEF Good, Worlds
  <1>2. /\ a \in [Sock -> SocketRec] /\ a[s] = y
        /\ \A t \in Sock : t # s => a[t] = w.sock[t]
    BY <1>1
  <1>3. v = [w EXCEPT !.sock = a]
    BY <1>1 DEF Worlds
  <1> HIDE DEF a, v
  <1>4. v \in Worlds
    BY <1>1, <1>2, <1>3 DEF Worlds
  <1>5. v.msg = w.msg /\ v.cache = w.cache /\ v.sock = a /\ v.up = w.up /\ v.out = w.out
    BY <1>1, <1>3 DEF Worlds
  <1>6. \A t \in Sock : v.sock[t].state = "CLOSED" => v.sock[t].loc = 0
    <2>1. \A t \in Sock : w.sock[t].state = "CLOSED" => w.sock[t].loc = 0
      BY DEF Good
    <2> QED BY <1>2, <1>5, <2>1
  <1>7. Good(v, c, H, p, d)
    BY <1>4, <1>5, <1>6 DEF Good
  <1> QED BY <1>2, <1>5, <1>7 DEF v, a

LEMMA ClearLive ==
  ASSUME NEW m, Live(m)
  PROVE  LET r == MsgClear(m)
         IN  Live(r) /\ Alike(m, r) /\ r.body = <<>> /\ r.ptr = m.offset /\ r.len = 0
  <1> DEFINE r == MsgClear(m)
             e == <<>>
             q == [MsgClear(m) EXCEPT !.inuse = TRUE]
  <1>1. e \in Fields
    BY EmptyType
  <1>2. m \in Message /\ m.inuse = TRUE /\ Sane(m)
    BY DEF Live, Sane
  <1>3. q = r
    <2> HIDE DEF e
    <2>1. r = [m EXCEPT !.ptr = m.offset, !.len = 0, !.body = e]
      BY DEF MsgClear, e
    <2>2. r.inuse = TRUE /\ r = [ptr |-> m.offset, len |-> 0, body |-> e, size |-> m.size,
                    offset |-> m.offset, inuse |-> m.inuse, ok |-> m.ok]
      BY <1>2, <2>1 DEF Message
    <2> HIDE DEF r
    <2> QED BY <1>2, <2>2 DEF r
  <1>4. Sane(q) /\ Alike(m, q) /\ q.inuse = TRUE
        /\ q.body = <<>> /\ q.ptr = m.offset /\ q.len = 0
    <2>1. TRUE \in BOOLEAN
      OBVIOUS
    <2> QED BY <1>2, <2>1, ClearIs
  <1> HIDE DEF q, r
  <1> QED BY <1>3, <1>4 DEF Live, r

(* tserver_up takes its parameter off, and frees the message.                  *)
TakenUp(w, v, i, x, rest) == /\ v.cache = w.cache /\ v.sock = w.sock
                             /\ v.up = (IF x = "DATA" THEN rest ELSE w.up)
                             /\ \A j \in Ids \ {i} : v.msg[j] = w.msg[j]

LEMMA TserverUpGood ==
  ASSUME NEW w, NEW c, NEW H, NEW p, NEW d, Good(w, c, H, p, d), NEW i \in H,
         NEW fs, NEW rest, Begins(w.msg[i], fs, rest), Len(fs) = 1, fs[1][1] = 1
  PROVE  LET v == TserverUp(w, i)
         IN  Good(v, c, H \ {i}, p, d) /\ TakenUp(w, v, i, fs[1][2], rest)
  <1> DEFINE x == fs[1][2]
             widths == <<1>>
             o == w.msg[i]
             m == Pop(o, widths)
             u == Keep(w, i, m)
             b == IF x = "DATA" THEN rest ELSE w.up
             e == IF Val(o, 1) = "DATA" THEN m.body ELSE u.up
             t == [u EXCEPT !.up = e]
             v == Free(t, i)
  <1>1. fs \in Fields /\ rest \in Fields
    BY DEF Begins
  <1>2. Len(widths) = 1 /\ widths[1] = 1
    OBVIOUS
  <1>3. Live(o) /\ i \in Ids
    BY InHand
  <1>4. b \in Fields
    <2>1. w.up \in Fields
      BY DEF Good, Worlds
    <2> QED BY <1>1, <2>1
  <1>5. v = TserverUp(w, i)
    BY DEF TserverUp
  <1> HIDE DEF widths, b, v, t, e
  <1>6. Begins(o, fs, rest)
    OBVIOUS
  <1> HIDE DEF o
  <1>7. Left(o, m, fs, rest)
    <2>1. \A j \in 1..Len(fs) : fs[j][1] = widths[j]
      BY <1>1, <1>2
    <2> QED BY <1>1, <1>2, <1>3, <1>6, <2>1, PopLive
  <1>8. Val(o, 1) = x
    <2>1. \A k \in 1..Len(fs) : Val(o, k) = fs[k][2]
      BY <1>6, ValOf
    <2> QED BY <1>1, <2>1
  <1> HIDE DEF m
  <1>9. Live(m) /\ Alike(o, m) /\ m.body = rest
    BY <1>7 DEF Left
  <1>10. Good(u, c, H, p, d) /\ u.msg[i] = m /\ Others(w, u, i) /\ Stays(w, u)
    BY <1>9, KeepGood DEF o
  <1> HIDE DEF u
  <1>12. e = b
    BY <1>8, <1>9, <1>10 DEF b, e, Stays
  <1>11. /\ Good(t, c, H, p, d) /\ t.msg = u.msg /\ t.cache = u.cache
         /\ t.sock = u.sock /\ t.up = b
    BY <1>4, <1>10, <1>12, UpGood DEF t
  <1>13. Good(v, c, H \ {i}, p, d) /\ Others(t, v, i) /\ Stays(t, v)
    BY <1>11, FreeGood DEF v
  <1>15. TakenUp(w, v, i, x, rest)
    BY <1>10, <1>11, <1>13 DEF b, Stays, Others, TakenUp
  <1> QED BY <1>5, <1>13, <1>15

(* What a segment does to a connection: it ends only with the acknowledgment   *)
(* of a FIN, which is not answered.                                            *)
LEMMA SegmentEdges ==
  ASSUME NEW st \in State, st # "CLOSED", NEW ev \in RxEvent
  PROVE  /\ NextState(st, ev) \in State
         /\ NextState(st, ev) = "CLOSED" => ActionOf(st, ev) = "NULL" /\ ~IsRxState(st)
  <1> DEFINE S == EdgeOf(st, ev)
             e == CHOOSE x \in S : TRUE
  <1>1. CASE S = {}
    BY <1>1 DEF NextState
  <1>2. CASE S # {}
    <2>1. e \in S
      BY <1>2
    <2>2. e \in Edges /\ e[1] = st /\ e[2] = ev
      BY <2>1 DEF EdgeOf
    <2>3. NextState(st, ev) = e[4] /\ ActionOf(st, ev) = e[3]
      BY <1>2 DEF NextState, ActionOf
    <2> HIDE DEF e
    <2>4. e[4] \in State
      BY <2>2 DEF Edges, State
    <2>5. ASSUME e[4] = "CLOSED" PROVE e[3] = "NULL" /\ e[1] = "LASTACK"
      BY <2>2, <2>5 DEF Edges, RxEvent
    <2> QED BY <2>2, <2>3, <2>4, <2>5 DEF IsRxState
  <1> QED BY <1>1, <1>2

LEMMA EventType ==
  ASSUME NEW bits, NEW ack \in BOOLEAN, NEW fin \in BOOLEAN
  PROVE  EventOf(bits, ack, fin) \in RxEvent
  <1>1. CASE "RST" \in bits
    BY <1>1 DEF EventOf, RxEvent
  <1>2. CASE "RST" \notin bits /\ "SYN" \in bits
    BY <1>2 DEF EventOf, RxEvent
  <1>3. CASE bits \cap {"RST", "SYN"} = {} /\ fin
    BY <1>3 DEF EventOf, RxEvent
  <1>4. CASE bits \cap {"RST", "SYN"} = {} /\ ~fin
    BY <1>4 DEF EventOf, RxEvent
  <1> QED BY <1>1, <1>2, <1>3, <1>4

(* A socket tells its terminal server.                                         *)
LEMMA TellGood ==
  ASSUME NEW w, NEW c, NEW H, NEW p, NEW d, Good(w, c, H, p, d), NEW i \in H,
         NEW m, Live(m), Alike(w.msg[i], m), m.ptr >= 1, NEW x \in Value
  PROVE  LET v == TserverUp(Keep(w, i, Push(m, << <<1, x>> >>)), i)
         IN  Good(v, c, H \ {i}, p, d) /\ TakenUp(w, v, i, x, m.body)
  <1>m. /\ m \in Message /\ m.body \in Fields /\ m.ok = TRUE /\ m.inuse = TRUE
        /\ m.ptr \in Nat /\ m.len \in Nat /\ m.size \in Int /\ m.len = Size(m.body)
        /\ m.offset \in Int /\ m.ptr + m.len <= m.size /\ m.offset \in 0..m.size
    BY LiveType

  <1> DEFINE fs == << <<1, x>> >>
             rest == m.body
             n == Push(m, fs)
             u == Keep(w, i, n)
             v == TserverUp(u, i)
  <1>1. fs \in Fields /\ Size(fs) = 1 /\ Len(fs) = 1 /\ fs[1][1] = 1 /\ fs[1][2] = x
    BY OneField
  <1> HIDE DEF fs
  <1>2. Live(n) /\ Alike(m, n) /\ n.body = fs \o rest
    <2>1. Size(fs) <= m.ptr
      BY <1>1, <1>m
    <2> QED BY <1>1, <2>1, PushLive
  <1> HIDE DEF n
  <1>3. Alike(w.msg[i], n)
    BY <1>2 DEF Alike
  <1>4. Good(u, c, H, p, d) /\ u.msg[i] = n /\ Others(w, u, i) /\ Stays(w, u)
    BY <1>2, <1>3, KeepGood
  <1> HIDE DEF u
  <1>5. Begins(u.msg[i], fs, rest)
    BY <1>1, <1>2, <1>4, <1>m DEF Begins
  <1> HIDE DEF rest
  <1>6. Good(v, c, H \ {i}, p, d) /\ TakenUp(u, v, i, fs[1][2], rest)
    BY <1>1, <1>4, <1>5, TserverUpGood
  <1> HIDE DEF v
  <1>7. Good(v, c, H \ {i}, p, d) /\ TakenUp(w, v, i, x, rest)
    BY <1>1, <1>4, <1>6 DEF Others, Stays, TakenUp
  <1> QED BY <1>7 DEF v, u, n, fs, rest

(* tcpsock_up: the connection keeps its peer or ends, the data of the segment  *)
(* is passed on when the socket receives, and the frame is freed.              *)
SockStep(w, v, s, rest) ==
    /\ \A t \in Sock : t # s => v.sock[t] = w.sock[t]
    /\ \/ v.sock[s].state = "CLOSED"
       \/ /\ v.sock[s].loc = w.sock[s].loc /\ v.sock[s].rem = w.sock[s].rem
          /\ v.sock[s].ip = w.sock[s].ip
    /\ v.up = w.up \/ (IsRxState(w.sock[s].state) /\ v.up = rest /\ Size(rest) > 0)

LEMMA SockUpGood ==
  ASSUME NEW w, NEW p, NEW d, Good(w, w.cache, {Frame}, p, d), NEW s \in Sock,
         w.sock[s].ip = p.ip, w.sock[s].loc = p.loc, w.sock[s].state # "CLOSED",
         NEW fs, NEW rest, Begins(w.msg[Frame], fs, rest), Len(fs) = 4,
         fs[1][1] = 4, fs[2][1] = 4, fs[3][1] = 2, fs[4][1] = 2, w.msg[Frame].offset = 2
  PROVE  LET v == SockUp(w, s)
         IN  Good(v, v.cache, {}, p, d) /\ SockStep(w, v, s, rest)
  <1> DEFINE H == {Frame}
             m == w.msg[Frame]
             bits == Val(m, 3)
             z == w.sock[s]
             ack == AckOk(z, bits, Val(m, 2))
             fin == "FIN" \in bits /\ Val(m, 1) = "next"
             ev == EventOf(bits, ack, fin)
             st == NextState(z.state, ev)
             y == IF st = "CLOSED" THEN Closed ELSE [z EXCEPT !.state = st]
             widths == <<4, 4, 2, 2>>
             data == Pop(m, widths)
             close == st # z.state /\ st = "LASTACK"
             listens == ~close /\ IsRxState(z.state)
             wrong == listens /\ Val(m, 1) # "next"
             Told(v) == IF close
                     THEN TserverUp(Keep(v, Frame, Push(MsgClear(data), << <<1, "CLOSE">> >>)), Frame)
                   ELSE IF listens /\ ~wrong /\ data.len > 0
                     THEN TserverUp(Keep(v, Frame, Push(data, << <<1, "DATA">> >>)), Frame)
                   ELSE v
             acts == wrong \/ ActionOf(z.state, ev) # "NULL"
             c == w.cache
             t == Keep(w, Frame, data)
             u == [t EXCEPT !.sock[s] = y]
             told == Told(u)
             acted == IF acts THEN TxProcess(told, s, 0) ELSE told
             v == IF acted.msg[Frame].inuse THEN Free(acted, Frame) ELSE acted
  <1>0. SockUp(w, s) = v
    BY DEF SockUp
  <1>1. Live(m) /\ w.sock \in [Sock -> SocketRec] /\ Frame \in Ids /\ z \in SocketRec
    <2>1. Good(w, c, H, p, d) /\ Frame \in H
      OBVIOUS
    <2> HIDE DEF c, H
    <2>2. w.sock \in [Sock -> SocketRec]
      BY <2>1, GoodIs
    <2>3. Live(w.msg[Frame]) /\ Frame \in Ids
      BY <2>1, InHand
    <2> QED BY <2>2, <2>3
  <1>2. st \in State /\ (st = "CLOSED" => ~acts)
    <2>1. ack \in BOOLEAN /\ fin \in BOOLEAN
      BY DEF AckOk
    <2> HIDE DEF ack, fin
    <2>2. ev \in RxEvent
      BY <2>1, EventType
    <2>3. z.state \in State /\ z.state # "CLOSED"
      BY <1>1 DEF SocketRec
    <2> DEFINE q == z.state
    <2>4. q \in State /\ q # "CLOSED"
      BY <2>3
    <2> HIDE DEF q, ev
    <2>5. /\ NextState(q, ev) \in State
          /\ NextState(q, ev) = "CLOSED" => ActionOf(q, ev) = "NULL" /\ ~IsRxState(q)
      BY <2>2, <2>4, SegmentEdges
    <2> QED BY <2>5 DEF q
  <1>3. /\ y \in SocketRec /\ (y.state = "CLOSED" => y.loc = 0)
        /\ st # "CLOSED" => y.loc = z.loc /\ y.rem = z.rem /\ y.ip = z.ip
        /\ st = "CLOSED" => y.state = "CLOSED"
    <2> HIDE DEF st
    <2>1. CASE st = "CLOSED"
      BY <2>1 DEF Closed, SocketRec, State
    <2>2. CASE st # "CLOSED"
      BY <1>1, <1>2, <2>2 DEF SocketRec
    <2> QED BY <2>1, <2>2
  <1>4. Left(m, data, fs, rest)
    <2>1. Len(widths) = 4 /\ widths[1] = 4 /\ widths[2] = 4 /\ widths[3] = 2 /\ widths[4] = 2
      OBVIOUS
    <2> HIDE DEF widths
    <2>2. \A j \in 1..Len(fs) : fs[j][1] = widths[j]
      BY <2>1
    <2>3. Begins(m, fs, rest) /\ Live(m)
      BY <1>1
    <2> HIDE DEF m
    <2> QED BY <2>1, <2>2, <2>3, PopLive
  <1>5. Live(data) /\ Alike(m, data) /\ data.body = rest /\ data.len = Size(rest) /\ data.ptr >= 1
        /\ data.offset = 2
    <2>1. fs \in Fields /\ m.ptr \in Nat
      BY <1>1, LiveType DEF Begins
    <2>2. Size(fs) = 12
      BY <2>1, Sizes
    <2> QED BY <1>4, <2>1, <2>2 DEF Left, Alike
  <1>6. Good(t, c, H, p, d) /\ t.msg[Frame] = data /\ Stays(w, t)
    <2>1. Good(w, c, H, p, d) /\ Frame \in H /\ Live(data) /\ Alike(w.msg[Frame], data)
      BY <1>5
    <2> HIDE DEF c, H, data
    <2> QED BY <2>1, KeepGood
  <1> HIDE DEF data, H, c, acts, t, y
  <1>7. /\ Good(u, c, H, p, d) /\ u.msg = t.msg /\ u.cache = t.cache /\ u.up = t.up /\ u.sock[s] = y
        /\ \A r \in Sock : r # s => u.sock[r] = t.sock[r]
    BY <1>3, <1>6, SocketGood
  <1> HIDE DEF u
  <1>8. u.cache = c /\ Live(u.msg[Frame]) /\ u.msg[Frame] = data /\ Frame \in H
    BY <1>5, <1>6, <1>7 DEF Stays, c, H
  <1> DEFINE G == IF close \/ (listens /\ ~wrong /\ data.len > 0) THEN H \ {Frame} ELSE H
  <1>9. /\ Good(told, c, G, p, d) /\ told.cache = c /\ told.sock = u.sock
        /\ told.up = u.up \/ (IsRxState(z.state) /\ told.up = rest /\ Size(rest) > 0)
    <2> HIDE DEF wrong
    <2>a. "CLOSE" \in Value /\ "DATA" \in Value
      BY DEF Value, Word
    <2>1. CASE close
      <3> DEFINE r == MsgClear(data)
      <3>1. Live(r) /\ Alike(data, r) /\ r.ptr = 2
        BY <1>5, ClearLive
      <3> HIDE DEF r
      <3>2. Alike(u.msg[Frame], r) /\ r.ptr >= 1
        BY <1>8, <3>1 DEF Alike
      <3>3. told = TserverUp(Keep(u, Frame, Push(r, << <<1, "CLOSE">> >>)), Frame)
        BY <2>1 DEF r
      <3> HIDE DEF close, listens, told
      <3> DEFINE x == "CLOSE"
      <3>4. x \in Value /\ x # "DATA" /\ told = TserverUp(Keep(u, Frame, Push(r, << <<1, x>> >>)), Frame)
        BY <2>a, <3>3
      <3> HIDE DEF x
      <3>5. Good(told, c, H \ {Frame}, p, d) /\ TakenUp(u, told, Frame, x, r.body)
        BY <1>7, <1>8, <3>1, <3>2, <3>4, TellGood
      <3> QED BY <1>8, <2>1, <3>4, <3>5 DEF TakenUp
    <2>2. CASE ~close /\ listens /\ ~wrong /\ data.len > 0
      <3>1. IsRxState(z.state)
        BY <2>2
      <3>3. told = TserverUp(Keep(u, Frame, Push(data, << <<1, "DATA">> >>)), Frame)
        BY <2>2
      <3> HIDE DEF close, listens, told
      <3> DEFINE x == "DATA"
      <3>4. x \in Value /\ x = "DATA" /\ told = TserverUp(Keep(u, Frame, Push(data, << <<1, x>> >>)), Frame)
        BY <2>a, <3>3
      <3> HIDE DEF x
      <3>6. Alike(u.msg[Frame], data)
        BY <1>8 DEF Alike
      <3>5. Good(told, c, H \ {Frame}, p, d) /\ TakenUp(u, told, Frame, x, data.body)
        BY <1>5, <1>7, <1>8, <3>4, <3>6, TellGood
      <3>7. told.up = rest /\ Size(rest) > 0 /\ G = H \ {Frame}
        BY <1>5, <2>2, <3>4, <3>5 DEF TakenUp
      <3> QED BY <1>8, <3>1, <3>5, <3>7 DEF TakenUp
    <2>3. CASE ~close /\ ~(listens /\ ~wrong /\ data.len > 0)
      <3>1. told = u /\ G = H
        BY <2>3
      <3> HIDE DEF close, listens, told, G
      <3> QED BY <1>7, <1>8, <3>1
    <2> QED BY <2>1, <2>2, <2>3
  <1>10. G \in {{}, H} /\ Request \notin G
    <2>1. H \ {Frame} = {} /\ Request \notin H
      BY IdsType DEF H
    <2> HIDE DEF close, listens, wrong
    <2> QED BY <2>1
  <1> HIDE DEF told, G
  <1>11. /\ Good(acted, acted.cache, G, p, d) /\ acted.sock = told.sock /\ acted.up = told.up
    <2>0. Good(told, told.cache, G, p, d)
      BY <1>9
    <2>1. CASE ~acts
      BY <2>0, <2>1
    <2>2. CASE acts
      <3>1. st # "CLOSED"
        BY <1>2, <2>2
      <3>2. told.sock[s].ip = p.ip /\ told.sock[s].loc = p.loc
        BY <1>3, <1>7, <1>9, <3>1
      <3> DEFINE n == 0
      <3>3. n \in Nat /\ n <= PoolLen - PoolOffset /\ acted = TxProcess(told, s, n)
        BY <2>2, StackAssumption
      <3> HIDE DEF n, acted
      <3>4. Replying(told, s, p)
        BY <3>2 DEF Replying
      <3>5. /\ Good(acted, acted.cache, G, p, d) /\ acted.sock = told.sock /\ acted.up = told.up
            /\ \A j \in G : acted.msg[j] = told.msg[j]
        <4>1. Request \notin G
          BY <1>10
        <4>2. LET after == TxProcess(told, s, n)
              IN  /\ Good(after, after.cache, G, p, d) /\ after.sock = told.sock /\ after.up = told.up
                  /\ \A j \in G : after.msg[j] = told.msg[j]
          BY <2>0, <3>3, <3>4, <4>1, TxProcessGood, SMTT(30)
        <4> QED BY <3>3, <4>2
      <3> QED BY <3>5
    <2> QED BY <2>1, <2>2
  <1> HIDE DEF acted
  <1>12. (acted.msg[Frame].inuse = TRUE) <=> Frame \in G
    <2> DEFINE a == acted.cache
    <2>1. Good(acted, a, G, p, d)
      BY <1>11
    <2> HIDE DEF a
    <2>2. /\ \A i \in Ids : (acted.msg[i].inuse = TRUE) <=> (i \in G \/ i \in Queued(a))
          /\ a \in [Hop -> EntryRec]
      BY <2>1, GoodIs
    <2>3. Frame \notin Queued(a)
      BY <2>2, QueuedIs, IdsType
    <2> QED BY <1>1, <2>2, <2>3
  <1>13. acted.msg[Frame].inuse \in BOOLEAN
    <2> DEFINE a == acted.cache
    <2>1. Good(acted, a, G, p, d)
      BY <1>11
    <2> HIDE DEF a
    <2> QED BY <1>1, <2>1, GoodIs
  <1>14. Good(v, v.cache, {}, p, d) /\ v.sock = acted.sock /\ v.up = acted.up
    <2>1. CASE Frame \in G
      <3>1. G = H /\ v = Free(acted, Frame) /\ G \ {Frame} = {}
        BY <1>8, <1>10, <1>12, <2>1 DEF H
      <3> HIDE DEF v
      <3> DEFINE a == acted.cache
      <3>2. Good(acted, a, G, p, d)
        BY <1>11
      <3> HIDE DEF a
      <3>3. Good(v, a, G \ {Frame}, p, d) /\ Stays(acted, v)
        BY <2>1, <3>1, <3>2, FreeGood
      <3> QED BY <3>1, <3>3 DEF Stays, a
    <2>2. CASE Frame \notin G
      <3>1. G = {} /\ v = acted
        BY <1>8, <1>10, <1>12, <1>13, <2>2
      <3> HIDE DEF v
      <3> QED BY <1>11, <3>1
    <2> QED BY <2>1, <2>2
  <1> HIDE DEF v
  <1>15. SockStep(w, v, s, rest)
    <2>1. \A r \in Sock : r # s => v.sock[r] = w.sock[r]
      BY <1>6, <1>7, <1>9, <1>11, <1>14 DEF Stays
    <2>2. v.sock[s] = y
      BY <1>7, <1>9, <1>11, <1>14
    <2>3. v.up = w.up \/ (IsRxState(z.state) /\ v.up = rest /\ Size(rest) > 0)
      BY <1>6, <1>7, <1>9, <1>11, <1>14 DEF Stays
    <2> HIDE DEF st
    <2> QED BY <1>3, <2>1, <2>2, <2>3 DEF SockStep
  <1> HIDE DEF m, z, bits, ack, fin, ev, st, close, listens, wrong
  <1> QED BY <1>0, <1>14, <1>15

(* tcp_up refuses a connection: the frame is freed before the reset is sent.   *)
Refusing(w, p, d, loc, rem, ip) ==
    /\ Good(w, w.cache, {Frame}, p, d)
    /\ loc \in Value /\ rem \in Value /\ ip \in Value
    /\ p # NULL => ip = p.ip /\ loc = p.loc

LEMMA RefuseGood ==
  ASSUME NEW w, NEW p, NEW d, NEW loc, NEW rem, NEW ip, Refusing(w, p, d, loc, rem, ip)
  PROVE  LET v == Refuse(w, loc, rem, ip)
         IN  Good(v, v.cache, {}, p, d) /\ v.sock = w.sock /\ v.up = w.up
  <1> DEFINE c == w.cache
             H == {Frame}
             G == H \ {Frame}
             u == Free(w, Frame)
             i == Alloc(u)
             m == Alloced(u)
             header == TcpHeader(loc, rem)
             y == TcpSend(u, i, m, header, ip)
             v == Refuse(w, loc, rem, ip)
  <1>0. v = IF Unused(u) = {} THEN u ELSE y
    BY DEF Refuse
  <1> SUFFICES Good(v, v.cache, {}, p, d) /\ v.sock = w.sock /\ v.up = w.up
    OBVIOUS
  <1> HIDE DEF v
  <1>1. /\ Good(w, c, H, p, d) /\ Frame \in H /\ G = {} /\ Request \notin G
        /\ loc \in Value /\ rem \in Value /\ ip \in Value
    BY DEF Refusing
  <1> HIDE DEF c, H, G, i, m, header, y
  <1>2. Good(u, c, G, p, d) /\ Stays(w, u)
    BY <1>1, FreeGood DEF G
  <1> HIDE DEF u
  <1>3. u.cache = c /\ u.sock = w.sock /\ u.up = w.up
    BY <1>2 DEF Stays, c
  <1>4. CASE Unused(u) = {}
    BY <1>0, <1>1, <1>2, <1>3, <1>4
  <1>5. CASE Unused(u) # {}
    <2>1. /\ i \in Pool /\ i \in Ids /\ i \notin G /\ i \notin Queued(c)
          /\ Live(m) /\ Alike(u.msg[i], m)
          /\ m.body = <<>> /\ m.ptr = PoolOffset
          /\ m.len = 0 /\ m.size = PoolLen
      BY <1>2, <1>5, AllocIs DEF i, m
    <2>2. header \in Fields /\ Len(header) = 8 /\ Size(header) = 20 /\ header[1] = <<2, loc>>
      BY <1>1, TcpHeaderIs DEF header
    <2>3. Good(u, u.cache, G, p, d) /\ i \notin Queued(u.cache)
      BY <1>2, <1>3, <2>1
    <2>4. m.ptr >= 54 /\ Len(header) >= 1
      BY <2>1, <2>2, StackAssumption
    <2>5. p # NULL => ip = p.ip /\ header[1] = <<2, p.loc>>
      BY <2>2 DEF Refusing
    <2>6. LET r == TcpSend(u, i, m, header, ip)
          IN  Good(r, r.cache, G \ {i}, p, d) /\ Downward(u, r, i)
      BY <1>1, <2>1, <2>2, <2>3, <2>4, <2>5, TcpSendGood
    <2>7. G \ {i} = {}
      BY <1>1
    <2>8. Good(y, y.cache, {}, p, d) /\ Downward(u, y, i)
      BY <2>6, <2>7 DEF y
    <2> QED BY <1>0, <1>3, <1>5, <2>8 DEF Downward
  <1> QED BY <1>4, <1>5

(* tcpsock_select: only sockets that are open hear of a segment.               *)
LEMMA HearsIs ==
  ASSUME NEW z \in SocketRec, z.state = "CLOSED" => z.loc = 0,
         NEW loc \in Nat \ {0}, NEW rem, NEW ip, Hears(z, loc, rem, ip)
  PROVE  /\ loc \in Port /\ z.state # "CLOSED"
         /\ ~Binds(z) => z.loc = loc /\ z.rem = rem /\ z.ip = ip
  <1>1. z.loc \in Port \cup {0}
    BY DEF SocketRec
  <1>2. CASE Binds(z)
    <2>1. ListensOn(z, loc)
      BY <1>2 DEF Hears
    <2>2. loc \in Port
      BY <1>1, <2>1 DEF ListensOn, Port
    <2> QED BY <1>2, <2>2 DEF Binds
  <1>3. CASE ~Binds(z)
    <2>1. <<loc, rem, ip>> = <<z.loc, z.rem, z.ip>>
      BY <1>3 DEF Hears
    <2>2. loc = z.loc /\ rem = z.rem /\ ip = z.ip
      BY <2>1
    <2> QED BY <1>1, <1>3, <2>2
  <1> QED BY <1>2, <1>3

LEMMA BindGood ==
  ASSUME NEW w, NEW c, NEW H, NEW p, NEW d, Good(w, c, H, p, d), NEW s \in Sock,
         NEW loc \in Nat \ {0}, NEW rem \in {RemPort}, NEW ip \in Host,
         Hears(w.sock[s], loc, rem, ip)
  PROVE  LET v == Bind(w, s, loc, rem, ip)
         IN  /\ Good(v, c, H, p, d) /\ v.msg = w.msg /\ v.cache = w.cache /\ v.up = w.up
             /\ v.sock[s].loc = loc /\ v.sock[s].ip = ip
             /\ v.sock[s].state = w.sock[s].state /\ v.sock[s].state # "CLOSED"
             /\ w.sock[s].state = "LISTEN" \/ v.sock = w.sock
             /\ \A t \in Sock : t # s => v.sock[t] = w.sock[t]
  <1> DEFINE z == w.sock[s]
             y == [z EXCEPT !.loc = loc, !.rem = rem, !.ip = ip]
             v == [w EXCEPT !.sock[s] = y]
  <1>1. z \in SocketRec /\ (z.state = "CLOSED" => z.loc = 0)
    <2>1. w.sock \in [Sock -> SocketRec]
      BY GoodIs
    <2> QED BY <2>1 DEF Good
  <1>2. /\ loc \in Port /\ z.state # "CLOSED"
        /\ ~Binds(z) => z.loc = loc /\ z.rem = rem /\ z.ip = ip
    <2>1. Hears(z, loc, rem, ip)
      OBVIOUS
    <2> HIDE DEF z
    <2> QED BY <1>1, <2>1, HearsIs
  <1>3. Bind(w, s, loc, rem, ip) = IF Binds(z) THEN v ELSE w
    BY DEF Bind
  <1>4. CASE ~Binds(z)
    BY <1>2, <1>3, <1>4
  <1>5. CASE Binds(z)
    <2>1. y \in SocketRec /\ y.state = z.state /\ y.loc = loc /\ y.ip = ip
      <3> HIDE DEF z
      <3> QED BY <1>1, <1>2 DEF SocketRec
    <2>2. y.state = "CLOSED" => y.loc = 0
      BY <1>2, <2>1
    <2>3. z.state = "LISTEN"
      BY <1>5 DEF Binds
    <2> HIDE DEF y
    <2>4. /\ Good(v, c, H, p, d) /\ v.msg = w.msg /\ v.cache = w.cache
          /\ v.sock = [w.sock EXCEPT ![s] = y] /\ v.up = w.up /\ v.sock[s] = y
          /\ \A t \in Sock : t # s => v.sock[t] = w.sock[t]
      BY <2>1, <2>2, SocketGood
    <2>5. Bind(w, s, loc, rem, ip) = v
      BY <1>3, <1>5
    <2> HIDE DEF v
    <2> QED BY <1>2, <2>1, <2>3, <2>4, <2>5
  <1> QED BY <1>4, <1>5

(* A segment as it arrives.                                                    *)
SegmentHead(loc, bits, seq, ack, good) ==
    << <<2, RemPort>>, <<2, loc>>, <<4, seq>>, <<4, ack>>, <<2, bits>>, <<2, "window">>,
       <<2, good>>, <<2, 0>> >>
SegmentData(n) == IF n = 0 THEN <<>> ELSE << <<n, "data">> >>

SegmentFrom(seg, ip, p) ==
    \E loc \in Nat \ {0}, bits \in SUBSET Bits, seq \in {"next", "old"},
       ack \in {"next", "old"}, good \in BOOLEAN, n \in Nat :
          /\ seg = Segment(loc, bits, seq, ack, good, n)
          /\ good = TRUE => p = Heard(ip, loc, n)

SegmentParts(seg, ip, p, h, t, loc, bits, seq, ack, n) ==
    /\ seg = h \o t /\ t = SegmentData(n)
    /\ h \in Fields /\ Len(h) = 8 /\ Size(h) = 20
    /\ h[1] = <<2, RemPort>> /\ h[2] = <<2, loc>> /\ h[3] = <<4, seq>>
    /\ h[4] = <<4, ack>> /\ h[5] = <<2, bits>> /\ h[6] = <<2, "window">>
    /\ h[7][1] = 2 /\ h[8][1] = 2 /\ (h[7][2] = TRUE => p = Heard(ip, loc, n))
    /\ h[7][2] \in BOOLEAN
    /\ t \in Fields /\ loc \in Value /\ bits \in Value /\ seq \in Value /\ ack \in Value

LEMMA SegmentIs ==
  ASSUME NEW seg, NEW ip, NEW p, SegmentFrom(seg, ip, p)
  PROVE  \E h, t, seq, ack : \E loc \in Nat \ {0}, bits \in SUBSET Bits, n \in Nat :
            SegmentParts(seg, ip, p, h, t, loc, bits, seq, ack, n)
  <1>0. PICK loc \in Nat \ {0}, bits \in SUBSET Bits, seq \in {"next", "old"},
             ack \in {"next", "old"}, good \in BOOLEAN, n \in Nat :
               /\ seg = Segment(loc, bits, seq, ack, good, n)
               /\ good = TRUE => p = Heard(ip, loc, n)
    BY DEF SegmentFrom
  <1> DEFINE h == SegmentHead(loc, bits, seq, ack, good)
             t == SegmentData(n)
  <1>1. Segment(loc, bits, seq, ack, good, n) = h \o t
    BY DEF Segment, SegmentHead, SegmentData
  <1>2. loc \in Value /\ bits \in Value /\ seq \in Value /\ ack \in Value /\ RemPort \in Value
    BY DEF Value, Word
  <1>3. good \in Value
    BY DEF Value
  <1>4. /\ <<2, RemPort>> \in Field /\ <<2, loc>> \in Field /\ <<4, seq>> \in Field
        /\ <<4, ack>> \in Field /\ <<2, bits>> \in Field
    <2>1. \A x \in Value : <<2, x>> \in Field /\ <<4, x>> \in Field
      BY FieldType
    <2> HIDE DEF h, t
    <2> QED BY <1>2, <2>1
  <1>5. <<2, good>> \in Field
    BY <1>3, FieldType
  <1>6. <<2, "window">> \in Field /\ <<2, 0>> \in Field
    BY DEF Field, Value, Word
  <1>7. h \in Fields /\ Len(h) = 8
    BY <1>4, <1>5, <1>6 DEF Fields, SegmentHead
  <1>8. /\ h[1] = <<2, RemPort>> /\ h[2] = <<2, loc>> /\ h[3] = <<4, seq>>
        /\ h[4] = <<4, ack>> /\ h[5] = <<2, bits>> /\ h[6] = <<2, "window">>
        /\ h[7] = <<2, good>> /\ h[8] = <<2, 0>>
    BY DEF SegmentHead
  <1> HIDE DEF h
  <1>9. Size(h) = h[1][1] + h[2][1] + h[3][1] + h[4][1] + h[5][1] + h[6][1] + h[7][1] + h[8][1]
    BY <1>7, Sizes
  <1>10. Size(h) = 20
    <2>1. h[7][1] = 2
      BY <1>8
    <2> QED BY <1>8, <1>9, <2>1
  <1>11. t \in Fields /\ Size(t) = n /\ (n > 0 => t = << <<n, "data">> >>)
    <2>1. CASE n = 0
      BY <2>1, EmptyType DEF SegmentData
    <2>2. CASE n # 0
      <3>1. "data" \in Value /\ n \in Nat \ {0}
        BY <2>2 DEF Value, Word
      <3>2. t = << <<n, "data">> >>
        BY <2>2 DEF SegmentData
      <3> HIDE DEF t
      <3>3. LET f == << <<n, "data">> >>
            IN  f \in Fields /\ Len(f) = 1 /\ Size(f) = n /\ f[1][1] = n /\ f[1][2] = "data"
        BY <3>1, OneField
      <3> QED BY <3>2, <3>3
    <2> QED BY <2>1, <2>2
  <1> HIDE DEF t
  <1>12. h[7][1] = 2 /\ h[7][2] \in BOOLEAN /\ (h[7][2] = TRUE => p = Heard(ip, loc, n))
    <2>1. h[7][2] = good /\ h[7][1] = 2
      BY <1>8
    <2> QED BY <1>0, <2>1
  <1>13. SegmentParts(seg, ip, p, h, t, loc, bits, seq, ack, n)
    BY <1>0, <1>1, <1>2, <1>7, <1>8, <1>10, <1>11, <1>12 DEF SegmentParts, t
  <1> QED BY <1>13

(* tcp_up: a segment that is whole finds a socket or not, another is dropped.  *)
Upward(w, v, p) ==
    /\ \A s \in Sock : Connected(w.sock[s]) /\ Connected(v.sock[s]) =>
          /\ v.sock[s].loc = w.sock[s].loc /\ v.sock[s].rem = w.sock[s].rem
          /\ v.sock[s].ip = w.sock[s].ip
    /\ \/ v.up = w.up
       \/ /\ v.up = << <<p.n, "data">> >>
          /\ \E s \in Sock : /\ Connected(w.sock[s])
                             /\ w.sock[s].loc = p.loc /\ w.sock[s].ip = p.ip

LEMMA SegmentGood ==
  ASSUME NEW w, NEW p, NEW d, Good(w, w.cache, {Frame}, p, d), NEW ip \in Host,
         NEW data, Live(data), Alike(w.msg[Frame], data), data.ptr >= 12,
         w.msg[Frame].offset = 2, NEW loc \in Nat \ {0}, NEW bits \in SUBSET Bits,
         NEW seq \in Value, NEW ack \in Value, NEW n \in Nat, data.body = SegmentData(n),
         p = Heard(ip, loc, n), NEW s \in Sock, Hears(w.sock[s], loc, RemPort, ip)
  PROVE  LET params == << <<4, seq>>, <<4, ack>>, <<2, bits>>, <<2, "window">> >>
             v == SockUp(Bind(Keep(w, Frame, Push(data, params)), s, loc, RemPort, ip), s)
         IN  Good(v, v.cache, {}, p, d) /\ Upward(w, v, p)
  <1> DEFINE H == {Frame}
             c == w.cache
             fs == << <<4, seq>>, <<4, ack>>, <<2, bits>>, <<2, "window">> >>
             m == Push(data, fs)
             t == Keep(w, Frame, m)
             u == Bind(t, s, loc, RemPort, ip)
             v == SockUp(u, s)
             rest == SegmentData(n)
  <1>1. /\ fs \in Fields /\ Size(fs) = 12 /\ Len(fs) = 4
        /\ fs[1][1] = 4 /\ fs[2][1] = 4 /\ fs[3][1] = 2 /\ fs[4][1] = 2
    <2>1. bits \in Value
      BY DEF Value
    <2>2. <<4, seq>> \in Field /\ <<4, ack>> \in Field /\ <<2, bits>> \in Field
      BY <2>1, FieldType
    <2>3. <<2, "window">> \in Field
      BY DEF Field, Value, Word
    <2>4. fs \in Fields /\ Len(fs) = 4
      BY <2>2, <2>3 DEF Fields
    <2>5. fs[1][1] = 4 /\ fs[2][1] = 4 /\ fs[3][1] = 2 /\ fs[4][1] = 2
      OBVIOUS
    <2> HIDE DEF fs
    <2>6. Size(fs) = fs[1][1] + fs[2][1] + fs[3][1] + fs[4][1]
      BY <2>4, Sizes
    <2> QED BY <2>4, <2>5, <2>6
  <1> HIDE DEF fs
  <1>2. Live(m) /\ Alike(data, m) /\ m.body = fs \o data.body
    BY <1>1, PushLive
  <1>3. rest \in Fields /\ Size(rest) = n /\ (n > 0 => rest = << <<n, "data">> >>)
    <2>1. data.body \in Fields
      BY LiveType
    <2>2. CASE n = 0
      BY <2>1, <2>2, EmptyType DEF SegmentData
    <2>3. CASE n # 0
      <3>1. "data" \in Value /\ n \in Nat \ {0}
        BY <2>3 DEF Value, Word
      <3>2. rest = << <<n, "data">> >>
        BY <2>3 DEF SegmentData
      <3> HIDE DEF rest
      <3>3. LET f == << <<n, "data">> >>
            IN  f \in Fields /\ Len(f) = 1 /\ Size(f) = n /\ f[1][1] = n /\ f[1][2] = "data"
        BY <3>1, OneField
      <3> QED BY <3>2, <3>3
    <2> QED BY <2>2, <2>3
  <1>4. data.body = rest
    OBVIOUS
  <1>5. Good(w, c, H, p, d) /\ Frame \in H /\ Alike(w.msg[Frame], m)
    BY <1>2 DEF Alike
  <1> HIDE DEF m, rest, c, H
  <1>6. /\ Good(t, c, H, p, d) /\ t.msg[Frame] = m /\ Stays(w, t)
    BY <1>2, <1>5, KeepGood
  <1> HIDE DEF t
  <1>7. t.sock = w.sock /\ t.up = w.up /\ t.cache = c /\ Hears(t.sock[s], loc, RemPort, ip)
    BY <1>6 DEF Stays, c
  <1>8. /\ Good(u, c, H, p, d) /\ u.msg = t.msg /\ u.cache = t.cache /\ u.up = t.up
        /\ u.sock[s].loc = loc /\ u.sock[s].ip = ip
        /\ u.sock[s].state = t.sock[s].state /\ u.sock[s].state # "CLOSED"
        /\ t.sock[s].state = "LISTEN" \/ u.sock = t.sock
        /\ \A r \in Sock : r # s => u.sock[r] = t.sock[r]
    <2> DEFINE rem == RemPort
    <2>1. rem \in {RemPort} /\ u = Bind(t, s, loc, rem, ip) /\ Hears(t.sock[s], loc, rem, ip)
      BY <1>7
    <2> HIDE DEF rem, u
    <2> QED BY <1>6, <2>1, BindGood
  <1> HIDE DEF u
  <1>9. Good(u, u.cache, {Frame}, p, d) /\ Begins(u.msg[Frame], fs, rest)
        /\ u.msg[Frame].offset = 2
    BY <1>1, <1>2, <1>3, <1>4, <1>5, <1>6, <1>7, <1>8 DEF H, Begins, Alike
  <1>10. u.sock[s].ip = p.ip /\ u.sock[s].loc = p.loc /\ p.n = n
    BY <1>8 DEF Heard
  <1>11. Good(v, v.cache, {}, p, d) /\ SockStep(u, v, s, rest)
    BY <1>1, <1>8, <1>9, <1>10, SockUpGood
  <1> HIDE DEF v
  <1>12. Upward(w, v, p)
    <2>1. ASSUME NEW r \in Sock, Connected(w.sock[r]), Connected(v.sock[r])
          PROVE  /\ v.sock[r].loc = w.sock[r].loc /\ v.sock[r].rem = w.sock[r].rem
                 /\ v.sock[r].ip = w.sock[r].ip
      <3>1. CASE r # s
        BY <1>7, <1>8, <1>11, <3>1 DEF SockStep
      <3>2. CASE r = s
        <4>1. u.sock = w.sock
          BY <1>7, <1>8, <2>1, <3>2 DEF Connected
        <4>2. v.sock[s].state # "CLOSED"
          BY <2>1, <3>2 DEF Connected
        <4> QED BY <1>11, <3>2, <4>1, <4>2 DEF SockStep
      <3> QED BY <3>1, <3>2
    <2>2. ASSUME v.up # w.up
          PROVE  /\ v.up = << <<p.n, "data">> >>
                 /\ Connected(w.sock[s]) /\ w.sock[s].loc = p.loc /\ w.sock[s].ip = p.ip
      <3>1. IsRxState(u.sock[s].state) /\ v.up = rest /\ Size(rest) > 0
        BY <1>7, <1>8, <1>11, <2>2 DEF SockStep
      <3>2. u.sock[s].state \notin {"CLOSED", "LISTEN"}
        BY <3>1 DEF IsRxState
      <3>3. u.sock = w.sock
        BY <1>7, <1>8, <3>2
      <3> QED BY <1>3, <1>10, <3>1, <3>2, <3>3 DEF Connected
    <2> QED BY <2>1, <2>2 DEF Upward
  <1> QED BY <1>11, <1>12 DEF v, u, t, m, fs

LEMMA TcpUpGood ==
  ASSUME NEW w, NEW p, NEW d, Good(w, w.cache, {Frame}, p, d), NEW ip \in Host,
         NEW hd, hd = << <<4, ip>> >>, NEW seg, Begins(w.msg[Frame], hd, seg),
         w.msg[Frame].ptr >= 8, w.msg[Frame].offset = 2,
         Size(seg) < 20 \/ SegmentFrom(seg, ip, p)
  PROVE  LET v == TcpUp(w)
         IN  Good(v, v.cache, {}, p, d) /\ Upward(w, v, p)
  <1> DEFINE H == {Frame}
             c == w.cache
             o == w.msg[Frame]
             four == <<4>>
             r == Pop(o, four)
             src == Val(o, 1)
             m == Pseudo(r, src, Me)
             x == Free(w, Frame)
             v == TcpUp(w)
  <1>1. Live(o) /\ Frame \in Ids /\ Good(w, c, H, p, d) /\ Frame \in H /\ o.ptr \in Nat
    <2>1. Good(w, c, H, p, d) /\ Frame \in H
      OBVIOUS
    <2> HIDE DEF c, H
    <2>2. Live(o) /\ Frame \in Ids
      BY <2>1, InHand
    <2> HIDE DEF o
    <2>3. o.ptr \in Nat
      BY <2>2, LiveType
    <2> QED BY <2>1, <2>2, <2>3
  <1>2. hd \in Fields /\ Len(hd) = 1 /\ Size(hd) = 4 /\ hd[1][1] = 4 /\ hd[1][2] = ip /\ ip \in Value
    <2>1. ip \in Value
      BY DEF Value
    <2> QED BY <2>1, OneField
  <1>3. Begins(o, hd, seg) /\ o.ptr >= 8 /\ o.offset = 2 /\ seg \in Fields
    BY DEF Begins
  <1>4. Len(four) = 1 /\ four[1] = 4
    OBVIOUS
  <1> HIDE DEF H, c, o, four
  <1>5. Left(o, r, hd, seg)
    <2>1. \A j \in 1..Len(hd) : hd[j][1] = four[j]
      BY <1>2, <1>4
    <2> QED BY <1>1, <1>2, <1>3, <1>4, <2>1, PopLive
  <1>6. src = ip
    <2>1. \A k \in 1..Len(hd) : Val(o, k) = hd[k][2]
      BY <1>3, ValOf
    <2> QED BY <1>2, <2>1
  <1> HIDE DEF r, src
  <1>7. /\ Live(m) /\ Alike(o, m) /\ m.body = seg /\ m.ptr >= 12 /\ m.len = Size(seg)
        /\ m.ptr \in Int
    <2>1. Live(r) /\ Alike(o, r) /\ r.body = seg /\ r.ptr >= 12 /\ r.len = Size(seg) /\ r.ptr \in Int
      BY <1>1, <1>2, <1>3, <1>5 DEF Left
    <2>2. src \in Value /\ Me \in Value
      BY <1>2, <1>6 DEF Value
    <2> DEFINE dst == Me
    <2>3. dst \in Value
      BY <2>2
    <2>4. m = Pseudo(r, src, dst)
      OBVIOUS
    <2> HIDE DEF dst, m
    <2>5. LET q == Pseudo(r, src, dst)
          IN  Live(q) /\ Alike(r, q) /\ q.body = r.body /\ q.ptr = r.ptr /\ q.len = r.len
      BY <2>1, <2>2, <2>3, PseudoIs
    <2> QED BY <2>1, <2>4, <2>5 DEF Alike
  <1> HIDE DEF m
  <1> DEFINE widths == <<2, 2, 4, 4, 2, 2, 2, 2>>
             data == Pop(m, widths)
             rem == Val(m, 1)
             loc == Val(m, 2)
             bits == Val(m, 5)
             fs == << <<4, Val(m, 3)>>, <<4, Val(m, 4)>>, <<2, bits>>, <<2, "window">> >>
             found == Selected(w, loc, rem, src)
             s == Min(found)
  <1>8. v = IF m.len < 20 \/ ~Val(m, 7) THEN x
            ELSE IF found = {} THEN Stray(Keep(w, Frame, data), bits, loc, rem, src)
            ELSE SockUp(Bind(Keep(w, Frame, Push(data, fs)), s, loc, rem, src), s)
    BY DEF TcpUp, m, r, src, o, four
  <1> SUFFICES Good(v, v.cache, {}, p, d) /\ Upward(w, v, p)
    OBVIOUS
  <1> HIDE DEF v, widths, rem, loc, bits, fs, found, s, data
  <1>9. Good(x, c, {}, p, d) /\ Stays(w, x)
    <2>1. LET q == Free(w, Frame)
          IN  Good(q, c, H \ {Frame}, p, d) /\ Others(w, q, Frame) /\ Stays(w, q) /\ q.out = w.out
      BY <1>1, FreeGood
    <2>2. H \ {Frame} = {}
      BY DEF H
    <2> QED BY <2>1, <2>2
  <1> HIDE DEF x
  <1>10. Good(x, x.cache, {}, p, d) /\ Upward(w, x, p)
    BY <1>9 DEF Stays, Upward, c
  <1>11. CASE m.len < 20 \/ ~Val(m, 7)
    BY <1>8, <1>10, <1>11
  <1>12. CASE ~(m.len < 20) /\ Val(m, 7)
    <2>0. SegmentFrom(seg, ip, p)
      BY <1>7, <1>12
    <2>z. PICK h, t, e, a : \E l \in Nat \ {0}, b \in SUBSET Bits, n \in Nat :
             SegmentParts(seg, ip, p, h, t, l, b, e, a, n)
      BY <2>0, SegmentIs
    <2>1. PICK l \in Nat \ {0}, b \in SUBSET Bits, n \in Nat :
             SegmentParts(seg, ip, p, h, t, l, b, e, a, n)
      BY <2>z
    <2>2. /\ seg = h \o t /\ t = SegmentData(n)
          /\ h \in Fields /\ Len(h) = 8 /\ Size(h) = 20
          /\ h[1] = <<2, RemPort>> /\ h[2] = <<2, l>> /\ h[3] = <<4, e>>
          /\ h[4] = <<4, a>> /\ h[5] = <<2, b>> /\ h[6] = <<2, "window">>
          /\ h[7][1] = 2 /\ h[8][1] = 2 /\ (h[7][2] = TRUE => p = Heard(ip, l, n))
          /\ h[7][2] \in BOOLEAN
          /\ t \in Fields /\ l \in Value /\ b \in Value /\ e \in Value /\ a \in Value
      BY <2>1 DEF SegmentParts
    <2>3. Begins(m, h, t)
      BY <1>7, <2>2 DEF Begins
    <2>4. \A k \in 1..Len(h) : Val(m, k) = h[k][2]
      BY <2>3, ValOf
    <2>5. rem = RemPort /\ loc = l /\ Val(m, 3) = e /\ Val(m, 4) = a /\ bits = b /\ Val(m, 7) = h[7][2]
      BY <2>2, <2>4 DEF rem, loc, bits
    <2>6. p = Heard(ip, l, n) /\ p.ip = ip /\ p.loc = l
      <3>1. h[7][2] = TRUE
        BY <1>12, <2>2, <2>5
      <3>2. p = Heard(ip, l, n)
        BY <2>2, <3>1
      <3> QED BY <3>2 DEF Heard
    <2>7. Len(widths) = 8 /\ widths[1] = 2 /\ widths[2] = 2 /\ widths[3] = 4 /\ widths[4] = 4
          /\ widths[5] = 2 /\ widths[6] = 2 /\ widths[7] = 2 /\ widths[8] = 2
      BY DEF widths
    <2>8. Left(m, data, h, t)
      <3>1. \A j \in 1..Len(h) : h[j][1] = widths[j]
        BY <2>2, <2>7
      <3> QED BY <1>7, <2>2, <2>3, <2>7, <3>1, PopLive DEF data
    <2>9. Live(data) /\ Alike(w.msg[Frame], data) /\ data.ptr >= 12 /\ data.body = SegmentData(n)
      BY <1>7, <2>2, <2>8 DEF Left, Alike, o
    <2> DEFINE kept == Keep(w, Frame, data)
    <2>10. CASE found = {}
      <3>1. v = Stray(kept, b, l, RemPort, ip)
        BY <1>6, <1>8, <1>12, <2>5, <2>10
      <3>2. Good(kept, c, H, p, d) /\ Stays(w, kept)
        BY <1>1, <2>9, KeepGood
      <3> HIDE DEF kept
      <3>3. CASE "SYN" \in b
        <4>1. v = Refuse(kept, l, RemPort, ip)
          BY <3>1, <3>3 DEF Stray
        <4> DEFINE rport == RemPort
        <4>2. rport \in Value /\ v = Refuse(kept, l, rport, ip)
          BY <4>1 DEF Value
        <4>3. Good(kept, kept.cache, {Frame}, p, d)
          BY <3>2 DEF Stays, H, c
        <4> HIDE DEF rport
        <4>4. Refusing(kept, p, d, l, rport, ip)
          BY <1>2, <2>2, <2>6, <4>2, <4>3 DEF Refusing
        <4>5. Good(v, v.cache, {}, p, d) /\ v.sock = kept.sock /\ v.up = kept.up
          BY <4>2, <4>4, RefuseGood
        <4>6. Good(v, v.cache, {}, p, d) /\ v.sock = w.sock /\ v.up = w.up
          BY <3>2, <4>5 DEF Stays
        <4> QED BY <4>6 DEF Upward
      <3>4. CASE "SYN" \notin b
        <4>1. v = Free(kept, Frame)
          BY <3>1, <3>4 DEF Stray
        <4>2. LET q == Free(kept, Frame)
              IN  Good(q, c, H \ {Frame}, p, d) /\ Others(kept, q, Frame) /\ Stays(kept, q)
                  /\ q.out = kept.out
          BY <1>1, <3>2, FreeGood
        <4>3. H \ {Frame} = {}
          BY DEF H
        <4>4. Good(v, v.cache, {}, p, d) /\ v.sock = w.sock /\ v.up = w.up
          BY <3>2, <4>1, <4>2, <4>3 DEF Stays, c
        <4> QED BY <4>4 DEF Upward
      <3> QED BY <3>3, <3>4
    <2>11. CASE found # {}
      <3>1. s \in found
        <4>1. found \in SUBSET Nat
          BY StackAssumption DEF found, Selected, Sock
        <4>2. PICK y \in found : \A z \in found : y <= z
          BY <2>11, <4>1, Least
        <4>3. \E first \in found : \A other \in found : first <= other
          BY <4>2
        <4> QED BY <4>3 DEF s, Min
      <3>2. s \in Sock /\ Hears(w.sock[s], l, RemPort, ip)
        BY <1>6, <2>5, <3>1 DEF found, Selected
      <3>3. v = SockUp(Bind(Keep(w, Frame, Push(data, << <<4, e>>, <<4, a>>, <<2, b>>, <<2, "window">> >>)),
                            s, l, RemPort, ip), s)
        BY <1>6, <1>8, <1>12, <2>5, <2>11 DEF fs
      <3>4. Good(w, w.cache, {Frame}, p, d) /\ w.msg[Frame].offset = 2
        OBVIOUS
      <3> QED BY <2>2, <2>6, <2>9, <3>2, <3>3, <3>4, SegmentGood, ZenonT(30)
    <2> QED BY <2>10, <2>11
  <1> QED BY <1>11, <1>12

(* An echo request is copied, as far as there is room, and returned.           *)
EchoFrom(echo, ip, p) ==
    /\ echo \in Fields /\ Len(echo) = 4 /\ echo[1][1] = 1 /\ Size(echo) >= 2
    /\ p = Heard(ip, 0, 0)

LEMMA CopyIs ==
  ASSUME NEW m, Live(m), Len(m.body) >= 1, m.body[1][1] = 1, NEW room \in Nat \ {0}
  PROVE  LET copy == << <<1, "reply">> >> \o Tail(Shorten(m, room).body)
         IN  /\ copy \in Fields /\ Len(copy) >= 1 /\ copy[1] = <<1, "reply">>
             /\ Size(copy) <= room
  <1> DEFINE o == Shorten(m, room)
             f == o.body
             a == SubSeq(f, 1, 1)
             b == SubSeq(f, 2, Len(f))
             h == << <<1, "reply">> >>
             copy == h \o Tail(f)
  <1>1. Live(o) /\ o.len <= room /\ Len(f) > 0 /\ f[1] = m.body[1]
    <2>1. Len(m.body) > 0 /\ m.body[1][1] <= room
      <3>1. m.body \in Fields
        BY LiveType
      <3> QED BY <3>1, FieldsType
    <2>2. room \in Nat
      OBVIOUS
    <2> QED BY <2>1, <2>2, ShortenLive
  <1> HIDE DEF o
  <1>2. f \in Fields /\ Len(f) \in Nat /\ o.len = Size(f)
    BY <1>1, LiveType, FieldsType
  <1>3. /\ a \in Fields /\ b \in Fields /\ f = a \o b /\ Len(a) = 1 /\ a[1] = f[1]
    <2> DEFINE k == 1
    <2>1. k \in 0..Len(f) /\ a = SubSeq(f, 1, k) /\ b = SubSeq(f, k + 1, Len(f))
      BY <1>1, <1>2
    <2>2. k = 1
      OBVIOUS
    <2> HIDE DEF k, f, a, b
    <2>3. LET x == SubSeq(f, 1, k)
              y == SubSeq(f, k + 1, Len(f))
          IN  /\ x \in Fields /\ y \in Fields /\ f = x \o y
              /\ Len(x) = k /\ Size(x) = Sum(f)[k]
              /\ \A j \in 1..k : x[j] = f[j]
      BY <1>2, <2>1, Split
    <2> QED BY <2>1, <2>2, <2>3
  <1>4. Tail(f) = b
    <2> HIDE DEF f
    <2>1. f \in Seq(Field) /\ Len(f) > 0
      BY <1>1, <1>2 DEF Fields
    <2>2. f # <<>>
      BY <2>1
    <2> QED BY <2>1, <2>2
  <1> HIDE DEF f, a, b
  <1>5. Size(a) = 1 /\ Size(f) = Size(a) + Size(b)
    <2>1. Size(a) = a[1][1]
      BY <1>3, Sizes
    <2>2. a[1][1] = 1
      BY <1>1, <1>3
    <2>3. Size(a \o b) = Size(a) + Size(b)
      BY <1>3, SumConcat
    <2> QED BY <1>3, <2>1, <2>2, <2>3
  <1>6. h \in Fields /\ Len(h) = 1 /\ Size(h) = 1 /\ h[1] = <<1, "reply">>
    <2>1. "reply" \in Value
      BY DEF Value, Word
    <2> QED BY <2>1, OneField
  <1> HIDE DEF h
  <1>7. h \o b \in Fields /\ Size(h \o b) = Size(h) + Size(b) /\ (h \o b)[1] = h[1]
        /\ Len(h \o b) = Len(h) + Len(b) /\ Len(b) \in Nat
    <2>1. h \o b \in Fields /\ Size(h \o b) = Size(h) + Size(b)
      BY <1>3, <1>6, SumConcat
    <2>2. Len(h \o b) = Len(h) + Len(b) /\ \A k \in 1..Len(h) : (h \o b)[k] = h[k]
      BY <1>3, <1>6, HeadAndRest
    <2>3. Len(b) \in Nat
      BY <1>3, FieldsType
    <2> QED BY <1>6, <2>1, <2>2, <2>3
  <1>8. copy = h \o b
    BY <1>4
  <1>9. Size(b) \in Nat
    BY <1>3, SumType
  <1>10. copy \in Fields /\ Len(copy) >= 1 /\ copy[1] = <<1, "reply">> /\ Size(copy) <= room
    <2> HIDE DEF copy
    <2>1. Size(copy) = o.len
      BY <1>2, <1>5, <1>6, <1>7, <1>8
    <2>2. copy[1] = <<1, "reply">>
      BY <1>6, <1>7, <1>8
    <2> QED BY <1>1, <1>6, <1>7, <1>8, <2>1, <2>2
  <1> QED BY <1>10 DEF copy, h, f, o

Echoing(w, p, d, ip, hd, echo) ==
    /\ Good(w, w.cache, {Frame}, p, d)
    /\ ip \in Value /\ hd = << <<4, ip>> >>
    /\ Begins(w.msg[Frame], hd, echo) /\ EchoFrom(echo, ip, p)

LEMMA IcmpUpGood ==
  ASSUME NEW w, NEW p, NEW d, NEW ip, NEW hd, NEW echo, Echoing(w, p, d, ip, hd, echo)
  PROVE  LET v == IcmpUp(w)
         IN  Good(v, v.cache, {}, p, d) /\ v.sock = w.sock /\ v.up = w.up
  <1> DEFINE H == {Frame}
             c == w.cache
             o == w.msg[Frame]
             four == <<4>>
             r == Pop(o, four)
             src == Val(o, 1)
             m == Read(r, 2)
             u == Keep(w, Frame, m)
             i == Alloc(u)
             a == Alloced(u)
             copy == << <<1, "reply">> >> \o Tail(Shorten(m, MsgRoom(a)).body)
             n == Write(a, copy)
             reply == Push(n, << <<1, "ICMP">>, <<4, src>> >>)
             t == Keep(u, i, reply)
             x == IpDown(t, i)
             y == Free(x, Frame)
             z == Free(u, Frame)
             v == IcmpUp(w)
             answers == Val(m, 3) /\ Val(m, 1) = "request" /\ Unused(u) # {}
             short == m.len < 2
  <1>00. v = IF short THEN u ELSE IF answers THEN y ELSE z
    BY DEF IcmpUp
  <1> SUFFICES Good(v, v.cache, {}, p, d) /\ v.sock = w.sock /\ v.up = w.up
    OBVIOUS
  <1> HIDE DEF v, y, x, t, reply, n, copy, a, i, z
  <1>1. /\ Good(w, c, H, p, d) /\ Frame \in H /\ ip \in Value /\ hd = << <<4, ip>> >>
        /\ Begins(o, hd, echo) /\ echo \in Fields /\ Len(echo) = 4 /\ echo[1][1] = 1
        /\ Size(echo) >= 2 /\ p = Heard(ip, 0, 0)
    BY DEF Echoing, EchoFrom
  <1>2. hd \in Fields /\ Len(hd) = 1 /\ Size(hd) = 4 /\ hd[1][1] = 4 /\ hd[1][2] = ip
    BY <1>1, OneField
  <1>3. Live(o) /\ Frame \in Ids
    <2> HIDE DEF c, H
    <2> QED BY <1>1, InHand
  <1>4. Len(four) = 1 /\ four[1] = 4
    OBVIOUS
  <1> HIDE DEF c, o, four
  <1>5. Left(o, r, hd, echo)
    <2>1. \A j \in 1..Len(hd) : hd[j][1] = four[j]
      BY <1>2, <1>4
    <2> QED BY <1>1, <1>2, <1>3, <1>4, <2>1, PopLive
  <1>6. src = ip
    <2>1. \A k \in 1..Len(hd) : Val(o, k) = hd[k][2]
      BY <1>1, ValOf
    <2> QED BY <1>2, <2>1
  <1> HIDE DEF r, src
  <1>7. m = r
    <2> DEFINE two == 2
    <2>1. Live(r) /\ two \in Int /\ two <= r.len
      BY <1>1, <1>5 DEF Left
    <2> HIDE DEF two
    <2>2. Read(r, two) = r
      BY <2>1, ReadLive
    <2> QED BY <2>2 DEF two
  <1> HIDE DEF m
  <1>8. Live(m) /\ Alike(o, m) /\ m.body = echo
    BY <1>5, <1>7 DEF Left
  <1>0. v = IF answers THEN y ELSE z
    <2>1. ~short
      <3>1. m.len = Size(echo) /\ m.len \in Nat
        BY <1>8, LiveType
      <3> QED BY <1>1, <3>1
    <2> HIDE DEF short, answers
    <2> QED BY <1>00, <2>1
  <1> HIDE DEF short
  <1>9. Good(u, c, H, p, d) /\ u.msg[Frame] = m /\ Stays(w, u)
    <2>1. Alike(w.msg[Frame], m)
      BY <1>8 DEF o
    <2> HIDE DEF H
    <2> QED BY <1>1, <1>8, <2>1, KeepGood
  <1> HIDE DEF u
  <1>10. u.cache = c /\ u.sock = w.sock /\ u.up = w.up
    BY <1>9 DEF Stays, c
  <1>11. H \ {Frame} = {}
    OBVIOUS
  <1>12. CASE ~answers
    <2> HIDE DEF H
    <2>1. Good(z, c, H \ {Frame}, p, d) /\ Stays(u, z)
      BY <1>1, <1>9, FreeGood DEF z
    <2>2. Good(z, z.cache, {}, p, d) /\ z.sock = w.sock /\ z.up = w.up
      BY <1>10, <1>11, <2>1 DEF Stays
    <2>3. v = z
      BY <1>0, <1>12
    <2> QED BY <2>2, <2>3
  <1>13. CASE answers
    <2>1. v = y /\ Unused(u) # {}
      BY <1>0, <1>13
    <2> HIDE DEF answers
    <2>2. /\ i \in Pool /\ i \in Ids /\ i \notin H /\ i \notin Queued(c)
          /\ Live(a) /\ Alike(u.msg[i], a) /\ a.body = <<>> /\ a.ptr = PoolOffset
          /\ a.len = 0 /\ a.size = PoolLen
      <3> HIDE DEF H
      <3> QED BY <1>9, <2>1, AllocIs DEF i, a
    <2> DEFINE room == MsgRoom(a)
    <2>3. room \in Nat \ {0}
      BY <2>2, StackAssumption DEF MsgRoom
    <2>4. copy = << <<1, "reply">> >> \o Tail(Shorten(m, room).body)
      BY DEF copy
    <2> HIDE DEF room
    <2>5. /\ copy \in Fields /\ Len(copy) >= 1 /\ copy[1] = <<1, "reply">> /\ Size(copy) <= room
      <3>1. Len(m.body) >= 1 /\ m.body[1][1] = 1
        BY <1>1, <1>8
      <3>2. LET q == << <<1, "reply">> >> \o Tail(Shorten(m, room).body)
            IN  /\ q \in Fields /\ Len(q) >= 1 /\ q[1] = <<1, "reply">> /\ Size(q) <= room
        BY <1>8, <2>3, <3>1, CopyIs
      <3> QED BY <2>4, <3>2
    <2>6. Live(n) /\ Alike(a, n) /\ n.body = copy /\ n.ptr = PoolOffset
      <3>1. Size(copy) <= MsgRoom(a)
        BY <2>5 DEF room
      <3>2. Live(n) /\ Alike(a, n) /\ n.body = a.body \o copy /\ n.ptr = a.ptr
        BY <2>2, <2>5, <3>1, WriteLive DEF n
      <3>3. <<>> \o copy = copy
        BY <2>5 DEF Fields
      <3> QED BY <2>2, <3>2, <3>3
    <2> DEFINE fs == << <<1, "ICMP">>, <<4, src>> >>
    <2>7. fs \in Fields /\ Size(fs) = 5
      <3>1. "ICMP" \in Value /\ src \in Value
        BY <1>1, <1>6 DEF Value, Word
      <3> QED BY <3>1, TwoFields
    <2>8. fs = << <<1, "ICMP">>, <<4, ip>> >> /\ reply = Push(n, fs)
      BY <1>6 DEF reply
    <2> HIDE DEF fs
    <2>9. Live(reply) /\ Alike(n, reply) /\ reply.body = fs \o copy /\ reply.ptr >= 29
      <3>1. Size(fs) <= n.ptr
        BY <2>6, <2>7, StackAssumption
      <3>2. LET q == Push(n, fs)
            IN  /\ Live(q) /\ Alike(n, q)
                /\ q.body = fs \o n.body /\ q.ptr = n.ptr - Size(fs)
        BY <2>6, <2>7, <3>1, PushLive
      <3>3. /\ Live(reply) /\ Alike(n, reply)
            /\ reply.body = fs \o n.body /\ reply.ptr = n.ptr - Size(fs)
        BY <2>8, <3>2
      <3>4. reply.body = fs \o copy
        BY <2>6, <3>3
      <3>5. reply.ptr >= 29
        BY <2>6, <2>7, <3>3, StackAssumption
      <3> QED BY <3>3, <3>4, <3>5
    <2> DEFINE G == H \cup {i}
    <2>10. /\ Good(t, c, G, p, d) /\ t.msg[i] = reply /\ Others(u, t, i) /\ Stays(u, t)
      <3>1. Alike(u.msg[i], reply)
        BY <2>2, <2>6, <2>9 DEF Alike
      <3> HIDE DEF H
      <3> QED BY <1>9, <2>2, <2>9, <3>1, TakeGood DEF t
    <2>11. G \ {i} = H /\ i \in G /\ Request \notin G
      BY <2>2, IdsType
    <2> HIDE DEF G, H
    <2>12. Good(x, x.cache, H, p, d) /\ Downward(t, x, i)
      <3> DEFINE protocol == "ICMP"
      <3>1. protocol \in {"TCP", "ICMP"} /\ t.msg[i].body = << <<1, protocol>>, <<4, ip>> >> \o copy
        BY <2>8, <2>9, <2>10
      <3> HIDE DEF protocol
      <3>2. Good(t, t.cache, G, p, d) /\ t.msg[i].ptr >= 29
        BY <1>10, <2>9, <2>10 DEF Stays
      <3>3. Replies(p, ip, copy)
        BY <1>1, <2>5 DEF Replies, Heard
      <3>4. LET q == IpDown(t, i)
            IN  Good(q, q.cache, G \ {i}, p, d) /\ Downward(t, q, i)
        BY <1>1, <2>2, <2>5, <2>11, <3>1, <3>2, <3>3, IpDownGood
      <3> QED BY <2>11, <3>4 DEF x
    <2> DEFINE b == x.cache
    <2>13. Good(x, b, H, p, d)
      BY <2>12
    <2> HIDE DEF b
    <2>14. Good(y, b, H \ {Frame}, p, d) /\ Stays(x, y)
      BY <1>1, <2>13, FreeGood DEF y
    <2>15. Good(y, y.cache, {}, p, d) /\ y.sock = w.sock /\ y.up = w.up
      BY <1>10, <1>11, <2>10, <2>12, <2>14 DEF Stays, Downward, b
    <2> QED BY <2>1, <2>15
  <1> QED BY <1>12, <1>13

(* ip_up: a datagram that is in order is cut down to its payload and passed on *)
(* with the address of its sender; any other is dropped.                       *)
Measured(nine, opts, payload) ==
    /\ nine[8][2] \in Host
    /\ nine[1][2] = 20 + Size(opts) /\ nine[2][2] = nine[1][2] + Size(payload)

InOrder(p, nine, opts, payload) ==
    /\ Measured(nine, opts, payload)
    /\ nine[6][2] = "TCP" => Size(payload) < 20 \/ SegmentFrom(payload, nine[8][2], p)
    /\ nine[6][2] = "ICMP" => EchoFrom(payload, nine[8][2], p)

HeaderIs(nine) ==
    /\ nine \in Fields /\ Len(nine) = 9 /\ Size(nine) = 20
    /\ nine[1][1] = 2 /\ nine[2][1] = 2 /\ nine[3][1] = 2 /\ nine[4][1] = 2 /\ nine[5][1] = 1
    /\ nine[6][1] = 1 /\ nine[7][1] = 2 /\ nine[8][1] = 4 /\ nine[9][1] = 4
    /\ nine[1][2] \in Nat

Parted(body, nine, opts, payload, pad) ==
    /\ HeaderIs(nine)
    /\ opts \in Fields /\ payload \in Fields /\ pad \in Fields
    /\ body = (nine \o (opts \o payload)) \o pad

DatagramFrom(p, body, nine, opts, payload, pad) ==
    /\ Parted(body, nine, opts, payload, pad)
    /\ nine[1][2] < 20 \/ nine[4][2] = TRUE \/ nine[7][2] = FALSE \/ InOrder(p, nine, opts, payload)

LEMMA PayloadIs ==
  ASSUME NEW m, Live(m), NEW nine, NEW opts, NEW payload, NEW pad,
         Parted(m.body, nine, opts, payload, pad), Measured(nine, opts, payload)
  PROVE  LET r == Payload(m)
         IN  Live(r) /\ Alike(m, r) /\ r.body = payload /\ r.ptr >= 20
  <1>m. /\ m \in Message /\ m.body \in Fields /\ m.ok = TRUE /\ m.inuse = TRUE
        /\ m.ptr \in Nat /\ m.len \in Nat /\ m.size \in Int /\ m.len = Size(m.body)
        /\ m.offset \in Int /\ m.ptr + m.len <= m.size /\ m.offset \in 0..m.size
    BY LiveType
  <1> DEFINE widths == <<2, 2, 2, 2, 1, 1, 2, 4, 4>>
             rest == opts \o payload
             fs == nine \o rest
             total == Val(m, 2)
             hlen == Val(m, 1)
             s == Shorten(m, total)
             q == Pop(s, widths)
             r == Drop(q, hlen - 20)
  <1>0. Payload(m) = r
    BY DEF Payload
  <1>1. /\ HeaderIs(nine) /\ opts \in Fields /\ payload \in Fields /\ pad \in Fields
        /\ m.body = fs \o pad
    BY DEF Parted
  <1>2. nine \in Fields /\ Len(nine) = 9 /\ Size(nine) = 20
    BY <1>1 DEF HeaderIs
  <1>3. rest \in Fields /\ Size(rest) = Size(opts) + Size(payload)
    BY <1>1, SumConcat
  <1> HIDE DEF rest
  <1>4. fs \in Fields /\ Size(fs) = Size(nine) + Size(rest)
        /\ Len(fs) = Len(nine) + Len(rest) /\ \A k \in 1..Len(nine) : fs[k] = nine[k]
    <2>1. fs \in Fields /\ Size(fs) = Size(nine) + Size(rest)
      BY <1>2, <1>3, SumConcat
    <2>2. Len(fs) = Len(nine) + Len(rest) /\ \A k \in 1..Len(nine) : fs[k] = nine[k]
      BY <1>2, <1>3, HeadAndRest
    <2> QED BY <2>1, <2>2
  <1>5. Len(fs) \in Nat /\ Len(rest) \in Nat /\ Size(opts) \in Nat /\ Size(payload) \in Nat
    BY <1>1, <1>3, <1>4, FieldsType, SumType
  <1> HIDE DEF fs, total, hlen, r, q, s, widths
  <1>6. Begins(m, fs, pad)
    BY <1>1, <1>4 DEF Begins
  <1>7. Val(m, 1) = nine[1][2] /\ Val(m, 2) = nine[2][2]
    <2>1. \A k \in 1..Len(fs) : Val(m, k) = fs[k][2]
      BY <1>6, ValOf
    <2>2. 1 \in 1..Len(fs) /\ 2 \in 1..Len(fs)
      BY <1>2, <1>4, <1>5
    <2>3. fs[1] = nine[1] /\ fs[2] = nine[2]
      BY <1>2, <1>4
    <2> QED BY <2>1, <2>2, <2>3
  <1>8. total = Size(fs) /\ hlen - 20 = Size(opts)
    BY <1>2, <1>3, <1>4, <1>5, <1>7 DEF Measured, total, hlen
  <1>9. Live(s) /\ Alike(m, s) /\ s.ptr = m.ptr /\ s.body = fs
    <2>1. LET o == Shorten(m, Size(fs))
          IN  Live(o) /\ Alike(m, o) /\ o.ptr = m.ptr /\ o.body = fs /\ o.len = Size(fs)
      BY <1>6, ShortenTo
    <2> QED BY <1>8, <2>1 DEF s
  <1>10. Begins(s, nine, rest)
    BY <1>2, <1>3, <1>9 DEF Begins, fs
  <1>11. Left(s, q, nine, rest)
    <2>1. /\ Len(widths) = 9 /\ widths[1] = 2 /\ widths[2] = 2 /\ widths[3] = 2 /\ widths[4] = 2
          /\ widths[5] = 1 /\ widths[6] = 1 /\ widths[7] = 2 /\ widths[8] = 4 /\ widths[9] = 4
      BY DEF widths
    <2>2. \A j \in 1..Len(nine) : nine[j][1] = widths[j]
      BY <1>1, <2>1 DEF HeaderIs
    <2> QED BY <1>2, <1>9, <1>10, <2>1, <2>2, PopLive DEF q
  <1>12. Live(q) /\ Alike(s, q) /\ q.body = rest /\ q.ptr = m.ptr + 20
    BY <1>2, <1>9, <1>11 DEF Left
  <1>13. Begins(q, opts, payload)
    BY <1>1, <1>12 DEF Begins, rest
  <1>14. Left(q, r, opts, payload)
    <2>1. Left(q, Drop(q, Size(opts)), opts, payload)
      BY <1>12, <1>13, DropLive
    <2> QED BY <1>8, <2>1 DEF r
  <1>15. Live(r) /\ Alike(m, r) /\ r.body = payload /\ r.ptr >= 20
    <2>1. Live(r) /\ Alike(q, r) /\ r.body = payload /\ r.ptr = q.ptr + Size(opts)
      BY <1>14 DEF Left
    <2>2. Alike(m, r)
      BY <1>9, <1>12, <2>1 DEF Alike
    <2> QED BY <1>m, <1>5, <1>12, <2>1, <2>2
  <1> QED BY <1>0, <1>15

LEMMA HeaderVals ==
  ASSUME NEW m, NEW nine, NEW opts, NEW payload, NEW pad, Parted(m.body, nine, opts, payload, pad)
  PROVE  \A k \in 1..9 : Val(m, k) = nine[k][2]
  <1> DEFINE rest == opts \o payload
             tail == rest \o pad
             fs == nine \o rest
  <1>1. /\ nine \in Fields /\ Len(nine) = 9 /\ opts \in Fields /\ payload \in Fields /\ pad \in Fields
        /\ m.body = fs \o pad
    BY DEF Parted, HeaderIs
  <1>2. rest \in Fields
    BY <1>1, SumConcat
  <1> HIDE DEF rest
  <1>3. fs \in Fields /\ Len(fs) = Len(nine) + Len(rest) /\ \A k \in 1..Len(nine) : fs[k] = nine[k]
    BY <1>1, <1>2, Joined
  <1>4. Len(rest) \in Nat
    BY <1>2, FieldsType
  <1> HIDE DEF fs
  <1>5. Begins(m, fs, pad)
    BY <1>1, <1>3 DEF Begins
  <1>6. \A k \in 1..Len(fs) : Val(m, k) = fs[k][2]
    BY <1>5, ValOf
  <1>7. \A k \in 1..9 : k \in 1..Len(fs) /\ fs[k] = nine[k]
    BY <1>1, <1>3, <1>4
  <1> QED BY <1>6, <1>7

Arriving(w, p, d, nine, opts, payload, pad) ==
    /\ Good(w, w.cache, {Frame}, p, d) /\ w.msg[Frame].offset = 2
    /\ DatagramFrom(p, w.msg[Frame].body, nine, opts, payload, pad)

LEMMA IpUpGood ==
  ASSUME NEW w, NEW p, NEW d, NEW nine, NEW opts, NEW payload, NEW pad,
         Arriving(w, p, d, nine, opts, payload, pad)
  PROVE  LET v == IpUp(w)
         IN  Good(v, v.cache, {}, p, d) /\ Upward(w, v, p)
  <1> DEFINE H == {Frame}
             c == w.cache
             m == w.msg[Frame]
             r == Payload(m)
             src == Val(m, 8)
             hd == << <<4, src>> >>
             q == Push(r, hd)
             t == Keep(w, Frame, q)
             x == Free(w, Frame)
             v == IpUp(w)
             tcp == IpOk(m) /\ Val(m, 6) = "TCP"
             icmp == IpOk(m) /\ Val(m, 6) = "ICMP"
  <1>0. /\ tcp => v = TcpUp(t)
        /\ icmp => v = IcmpUp(t)
        /\ ~tcp /\ ~icmp => v = x
    BY DEF IpUp
  <1> SUFFICES Good(v, v.cache, {}, p, d) /\ Upward(w, v, p)
    OBVIOUS
  <1> HIDE DEF v, t, x, q, r
  <1>1. /\ Good(w, c, H, p, d) /\ Frame \in H /\ m.offset = 2 /\ H \ {Frame} = {}
        /\ DatagramFrom(p, m.body, nine, opts, payload, pad)
    BY DEF Arriving
  <1>2. Live(m) /\ Frame \in Ids
    <2> HIDE DEF c, H
    <2> QED BY <1>1, InHand
  <1> HIDE DEF c, H
  <1>3. CASE ~tcp /\ ~icmp
    <2>1. LET y == Free(w, Frame)
          IN  Good(y, c, H \ {Frame}, p, d) /\ Others(w, y, Frame) /\ Stays(w, y) /\ y.out = w.out
      BY <1>1, FreeGood
    <2>2. Good(v, c, {}, p, d) /\ Stays(w, v)
      BY <1>0, <1>1, <1>3, <2>1 DEF x
    <2> QED BY <2>2 DEF Stays, Upward, c
  <1>4. CASE IpOk(m) /\ Val(m, 6) \in {"TCP", "ICMP"}
    <2>1. \A k \in 1..9 : Val(m, k) = nine[k][2]
      BY <1>1, HeaderVals DEF DatagramFrom
    <2>2. InOrder(p, nine, opts, payload)
      <3>1. Val(m, 7) /\ ~Val(m, 4) /\ Val(m, 1) \in 20..m.len
        BY <1>4 DEF IpOk
      <3>2. m.len \in Nat
        BY <1>2, LiveType
      <3> DEFINE a == nine[7][2]
                 b == nine[4][2]
      <3>3. a = Val(m, 7) /\ b = Val(m, 4) /\ nine[1][2] = Val(m, 1)
        BY <2>1
      <3>4. ~(nine[1][2] < 20)
        BY <3>1, <3>2, <3>3
      <3> HIDE DEF a, b
      <3>5. a # FALSE /\ b # TRUE
        BY <3>1, <3>3
      <3> QED BY <1>1, <3>4, <3>5 DEF DatagramFrom, a, b
    <2> HIDE DEF m
    <2>3. Live(r) /\ Alike(m, r) /\ r.body = payload /\ r.ptr >= 20 /\ r.ptr \in Nat
      <3>1. LET y == Payload(m)
            IN  Live(y) /\ Alike(m, y) /\ y.body = payload /\ y.ptr >= 20
        BY <1>1, <1>2, <2>2, PayloadIs DEF DatagramFrom, InOrder
      <3>2. Live(r) /\ Alike(m, r) /\ r.body = payload /\ r.ptr >= 20
        BY <3>1 DEF r
      <3> QED BY <3>2, LiveType
    <2>4. src = nine[8][2] /\ src \in Host /\ src \in Value
      BY <2>1, <2>2 DEF InOrder, Measured, Value
    <2> HIDE DEF src
    <2>5. hd \in Fields /\ Size(hd) = 4
      BY <2>4, OneField
    <2>6. hd = << <<4, src>> >>
      OBVIOUS
    <2> HIDE DEF hd
    <2>7. Live(q) /\ Alike(r, q) /\ q.body = hd \o payload /\ q.ptr >= 8
      <3>1. Size(hd) <= r.ptr
        BY <2>3, <2>5
      <3>2. Live(q) /\ Alike(r, q) /\ q.body = hd \o r.body /\ q.ptr = r.ptr - Size(hd)
        BY <2>3, <2>5, <3>1, PushLive DEF q
      <3> QED BY <2>3, <2>5, <3>2
    <2>8. /\ Good(t, c, H, p, d) /\ t.msg[Frame] = q /\ Stays(w, t)
      <3>1. Alike(w.msg[Frame], q)
        BY <2>3, <2>7 DEF Alike, m
      <3> QED BY <1>1, <2>7, <3>1, KeepGood DEF t
    <2>9. /\ Good(t, t.cache, {Frame}, p, d) /\ t.sock = w.sock /\ t.up = w.up
      BY <2>8 DEF Stays, c, H
    <2>10. /\ Begins(t.msg[Frame], hd, payload) /\ t.msg[Frame].ptr >= 8 /\ t.msg[Frame].offset = 2
      BY <1>1, <2>3, <2>5, <2>7, <2>8 DEF Begins, Alike, DatagramFrom, Parted
    <2>11. CASE Val(m, 6) = "TCP"
      <3>1. v = TcpUp(t)
        BY <1>0, <1>4, <2>11
      <3>2. Size(payload) < 20 \/ SegmentFrom(payload, src, p)
        BY <2>1, <2>2, <2>4, <2>11 DEF InOrder
      <3>3. LET y == TcpUp(t)
            IN  Good(y, y.cache, {}, p, d) /\ Upward(t, y, p)
        BY <2>4, <2>6, <2>9, <2>10, <3>2, TcpUpGood
      <3>4. Good(v, v.cache, {}, p, d) /\ Upward(t, v, p)
        BY <3>1, <3>3
      <3> QED BY <2>9, <3>4 DEF Upward
    <2>12. CASE Val(m, 6) = "ICMP"
      <3>1. v = IcmpUp(t)
        BY <1>0, <1>4, <2>12
      <3>2. EchoFrom(payload, src, p)
        BY <2>1, <2>2, <2>4, <2>12 DEF InOrder
      <3>3. Echoing(t, p, d, src, hd, payload)
        BY <2>4, <2>6, <2>9, <2>10, <3>2 DEF Echoing
      <3>4. Good(v, v.cache, {}, p, d) /\ v.sock = t.sock /\ v.up = t.up
        BY <3>1, <3>3, IcmpUpGood
      <3> QED BY <2>9, <3>4 DEF Upward
    <2> QED BY <1>4, <2>11, <2>12
  <1> QED BY <1>3, <1>4

(* arp_up: the messages that wait for the sender are sent.                     *)
Emptied(w, c, H, h) == /\ Sendable(w, c[h].mq, H \cup Queue(c, h), h, NULL)
                       /\ (H \cup Queue(c, h)) \ Elements(c[h].mq, Len(c[h].mq)) = H

LEMMA EmptiedIs ==
  ASSUME NEW w, NEW c, NEW H, NEW p, NEW d, Good(w, c, H, p, d), NEW h \in Hop
  PROVE  Emptied(w, c, H, h)
  <1> DEFINE q == c[h].mq
             Q == Queue(c, h)
             G == H \cup Q
  <1>1. c \in [Hop -> EntryRec] /\ (\A i \in H : i \notin Queued(c)) /\ Lines(c) /\ Held(w.msg, c, p, d)
    <2>1. Lines(c) /\ Held(w.msg, c, p, d)
      BY DEF Good
    <2> QED BY <2>1, GoodIs
  <1>2. q \in Seq(Pool) /\ DOMAIN q = 1..Len(q) /\ (\A i : i \in Queued(c) <=> \E g \in Hop : i \in Queue(c, g))
    BY <1>1, QueuedIs
  <1>3. Apart(q)
    BY <1>1, <1>2 DEF Lines, Apart
  <1>4. Q = {q[k] : k \in 1..Len(q)}
    BY <1>2 DEF Queue
  <1>5. \A k \in 1..Len(q) : q[k] \in Q
    BY <1>4
  <1>6. \A i \in Q : Ready(w.msg[i], h, NULL)
    BY <1>1 DEF Held
  <1>7. \A i \in H : i \notin Q
    BY <1>1, <1>2
  <1>8. G \ Elements(q, Len(q)) = H
    <2>1. Elements(q, Len(q)) = Q
      BY <1>4 DEF Elements
    <2> HIDE DEF q, Q
    <2> QED BY <1>7, <2>1
  <1> HIDE DEF Q
  <1>9. \A k \in 1..Len(q) : q[k] \in G /\ Ready(w.msg[q[k]], h, NULL)
    BY <1>5, <1>6
  <1> QED BY <1>2, <1>3, <1>8, <1>9 DEF Q, Sendable, Emptied

Calling(w, d) ==
    /\ Good(w, w.cache, {Frame}, NULL, d)
    /\ w.msg[Frame].len >= 28 /\ Val(w.msg[Frame], 7) \in Hop

LEMMA ArpUpGood ==
  ASSUME NEW w, NEW d, Calling(w, d)
  PROVE  LET v == ArpUp(w)
         IN  Good(v, v.cache, {}, NULL, d) /\ v.sock = w.sock /\ v.up = w.up
  <1> DEFINE H == {Frame}
             c == w.cache
             o == w.msg[Frame]
             m == Read(o, 28)
             from == Val(m, 7)
             v == IF Val(m, 5) = "REQUEST" THEN ArpSend(w, from, "REPLY", from) ELSE w
             q == w.cache[from].mq
             sent == SendAll(v, q, from)
             e == [state |-> "BOUND", mq |-> <<>>]
             t == Keep(sent, Frame, m)
             y == [t EXCEPT !.cache[from] = e]
             x == Keep(w, Frame, m)
             z == ArpUp(w)
  <1>0. z = Free(IF Val(m, 9) # Me THEN x ELSE y, Frame)
    BY DEF ArpUp
  <1> SUFFICES Good(z, z.cache, {}, NULL, d) /\ z.sock = w.sock /\ z.up = w.up
    OBVIOUS
  <1> HIDE DEF z, x, y, t, sent, v
  <1>1. /\ Good(w, c, H, NULL, d) /\ Frame \in H /\ o.len >= 28 /\ Val(o, 7) \in Hop
        /\ H \ {Frame} = {} /\ Request \notin H
    BY IdsType DEF Calling
  <1>2. Live(o) /\ Frame \in Ids
    <2> HIDE DEF c, H
    <2> QED BY <1>1, InHand
  <1> HIDE DEF c, H, o
  <1>3. m = o
    <2> DEFINE n == 28
    <2>1. n \in Int /\ n <= o.len
      BY <1>1, <1>2, LiveType
    <2> HIDE DEF n
    <2>2. Read(o, n) = o
      BY <1>2, <2>1, ReadLive
    <2> QED BY <2>2 DEF n
  <1>4. from \in Hop /\ Alike(w.msg[Frame], m) /\ Live(m) /\ w.msg[Frame] = m
    BY <1>1, <1>2, <1>3 DEF Alike, o
  <1>5. from \in Value
    BY <1>4 DEF Value
  <1> HIDE DEF m, from
  <1>6. CASE Val(m, 9) # Me
    <2>1. Good(x, c, H, NULL, d) /\ Stays(w, x)
      BY <1>1, <1>4, KeepGood DEF x
    <2>2. LET r == Free(x, Frame)
          IN  Good(r, c, H \ {Frame}, NULL, d) /\ Others(x, r, Frame) /\ Stays(x, r) /\ r.out = x.out
      BY <1>1, <2>1, FreeGood
    <2>3. Good(z, c, {}, NULL, d) /\ Stays(x, z)
      BY <1>0, <1>1, <1>6, <2>2
    <2> QED BY <2>1, <2>3 DEF Stays, c
  <1>7. CASE Val(m, 9) = Me
    <2>1. Good(v, c, H, NULL, d) /\ Stays(w, v) /\ v.msg[Frame] = m
      <3>1. CASE Val(m, 5) = "REQUEST"
        <4> DEFINE reply == "REPLY"
        <4>1. v = ArpSend(w, from, reply, from) /\ reply \in Value
          BY <3>1 DEF v, Value, Word
        <4> HIDE DEF reply
        <4>2. Good(v, c, H, NULL, d) /\ Others(w, v, Request) /\ Stays(w, v)
          <5>1. LET r == ArpSend(w, from, reply, from)
                IN  Good(r, c, H, NULL, d) /\ Others(w, r, Request) /\ Stays(w, r)
            BY <1>1, <1>5, <4>1, ArpSendGood
          <5> QED BY <4>1, <5>1
        <4> QED BY <1>2, <1>4, <4>2, IdsType DEF Others
      <3>2. CASE Val(m, 5) # "REQUEST"
        <4>1. v = w
          BY <3>2 DEF v
        <4> QED BY <1>1, <1>4, <4>1 DEF Stays
      <3> QED BY <3>1, <3>2
    <2>2. v.cache = c /\ q = c[from].mq
      BY <2>1 DEF Stays, c
    <2> DEFINE G == H \cup Queue(c, from)
               b == [c EXCEPT ![from] = e]
    <2>3. Sendable(v, q, G, from, NULL) /\ G \ Elements(q, Len(q)) = H
      <3>1. Emptied(v, c, H, from)
        BY <1>4, <2>1, EmptiedIs
      <3> HIDE DEF q
      <3> QED BY <2>2, <3>1 DEF Emptied
    <2>4. Good(v, b, G, NULL, d) /\ b \in [Hop -> EntryRec]
      <3> DEFINE st == "BOUND"
      <3>1. st \in {"IDLE", "WAITING", "BOUND"} /\ Good(v, v.cache, H, NULL, d)
        BY <2>1, <2>2
      <3>2. b = [v.cache EXCEPT ![from] = [state |-> st, mq |-> <<>>]]
        BY <2>2
      <3>3. G = H \cup Queue(v.cache, from)
        BY <2>2
      <3> HIDE DEF st, b, G
      <3> QED BY <1>4, <3>1, <3>2, <3>3, EmptyGood
    <2>5. y = [t EXCEPT !.cache = [t.cache EXCEPT ![from] = e]]
      BY DEF y
    <2> HIDE DEF b, G, q, e
    <2>6. /\ Good(sent, b, H, NULL, d) /\ Stays(v, sent) /\ sent.msg[Frame] = m
      <3>1. LET r == SendAll(v, q, from)
            IN  /\ Good(r, b, G \ Elements(q, Len(q)), NULL, d) /\ Stays(v, r)
                /\ \A j \in Ids \ Pool : r.msg[j] = v.msg[j]
        <4>1. Good(v, b, G, NULL, d) /\ Sendable(v, q, G, from, NULL) /\ from \in Hop
          BY <1>4, <2>3, <2>4
        <4> QED BY <4>1, SendAllGood
      <3> QED BY <2>1, <2>3, <3>1, IdsType DEF sent
    <2>7. Good(t, b, H, NULL, d) /\ Stays(sent, t)
      <3>1. Alike(sent.msg[Frame], m)
        BY <2>6 DEF Alike
      <3> QED BY <1>1, <1>4, <2>6, <3>1, KeepGood DEF t
    <2>8. t.cache = c /\ t.sock = w.sock /\ t.up = w.up
      BY <2>1, <2>2, <2>6, <2>7 DEF Stays
    <2>9. y = [t EXCEPT !.cache = b]
      BY <2>5, <2>8 DEF b
    <2>10. /\ Good(y, b, H, NULL, d) /\ y.cache = b /\ y.sock = t.sock /\ y.up = t.up
      <3>1. LET r == [t EXCEPT !.cache = b]
            IN  /\ Good(r, b, H, NULL, d) /\ r.msg = t.msg /\ r.cache = b
                /\ r.sock = t.sock /\ r.up = t.up
        BY <2>4, <2>7, RecacheGood
      <3> QED BY <2>9, <3>1
    <2>11. LET r == Free(y, Frame)
           IN  Good(r, b, H \ {Frame}, NULL, d) /\ Others(y, r, Frame) /\ Stays(y, r) /\ r.out = y.out
      BY <1>1, <2>10, FreeGood
    <2>12. Good(z, b, {}, NULL, d) /\ Stays(y, z)
      BY <1>0, <1>1, <1>7, <2>11
    <2> QED BY <2>8, <2>10, <2>12 DEF Stays
  <1> QED BY <1>6, <1>7

(* ether_idle takes the type of a frame off.                                   *)
Framed(w, p, d, type, hd, rest) ==
    /\ Good(w, w.cache, {Frame}, p, d) /\ w.msg[Frame].offset = 2
    /\ type \in Value /\ hd = << <<2, type>> >> /\ Begins(w.msg[Frame], hd, rest)

Typed(w, v, p, d, type, rest) ==
    /\ Good(v, v.cache, {Frame}, p, d) /\ v.msg[Frame].offset = 2
    /\ v.msg[Frame].body = rest /\ v.msg[Frame].len = Size(rest)
    /\ v.sock = w.sock /\ v.up = w.up /\ rest \in Fields
    /\ Live(v.msg[Frame]) /\ Val(w.msg[Frame], 1) = type

LEMMA TypeOff ==
  ASSUME NEW w, NEW p, NEW d, NEW type, NEW hd, NEW rest, Framed(w, p, d, type, hd, rest)
  PROVE  Typed(w, Keep(w, Frame, Pop(w.msg[Frame], <<2>>)), p, d, type, rest)
  <1> DEFINE H == {Frame}
             c == w.cache
             o == w.msg[Frame]
             two == <<2>>
             r == Pop(o, two)
             v == Keep(w, Frame, r)
  <1>1. /\ Good(w, c, H, p, d) /\ Frame \in H /\ o.offset = 2
        /\ type \in Value /\ hd = << <<2, type>> >> /\ Begins(o, hd, rest) /\ rest \in Fields
    BY DEF Framed, Begins
  <1>2. Live(o) /\ Frame \in Ids
    <2> HIDE DEF c, H
    <2> QED BY <1>1, InHand
  <1>3. hd \in Fields /\ Len(hd) = 1 /\ Size(hd) = 2 /\ hd[1][1] = 2 /\ hd[1][2] = type
    BY <1>1, OneField
  <1>4. Len(two) = 1 /\ two[1] = 2
    OBVIOUS
  <1> HIDE DEF H, c, o, two
  <1>5. Left(o, r, hd, rest)
    <2>1. \A j \in 1..Len(hd) : hd[j][1] = two[j]
      BY <1>3, <1>4
    <2> QED BY <1>1, <1>2, <1>3, <1>4, <2>1, PopLive
  <1>6. Val(o, 1) = type
    <2>1. \A k \in 1..Len(hd) : Val(o, k) = hd[k][2]
      BY <1>1, ValOf
    <2> QED BY <1>3, <2>1
  <1> HIDE DEF r
  <1>7. Live(r) /\ Alike(o, r) /\ r.body = rest /\ r.len = Size(rest)
    BY <1>5 DEF Left
  <1>8. /\ Good(v, c, H, p, d) /\ v.msg[Frame] = r /\ Stays(w, v)
    <2>1. Alike(w.msg[Frame], r)
      BY <1>7 DEF o
    <2> QED BY <1>1, <1>7, <2>1, KeepGood
  <1> HIDE DEF v
  <1>9. /\ Good(v, v.cache, {Frame}, p, d) /\ v.msg[Frame].offset = 2
        /\ v.msg[Frame].body = rest /\ v.msg[Frame].len = Size(rest)
        /\ v.sock = w.sock /\ v.up = w.up /\ Live(v.msg[Frame])
    BY <1>1, <1>7, <1>8 DEF Alike, Stays, c, H
  <1> QED BY <1>1, <1>6, <1>9 DEF v, r, two, o, Typed

LEMMA EtherUpIp ==
  ASSUME NEW w, NEW p, NEW d, NEW hd, NEW rest, Framed(w, p, d, "IP", hd, rest),
         NEW nine, NEW opts, NEW payload, NEW pad, DatagramFrom(p, rest, nine, opts, payload, pad)
  PROVE  LET v == EtherUp(w)
         IN  Good(v, v.cache, {}, p, d) /\ Upward(w, v, p)
  <1> DEFINE u == Keep(w, Frame, Pop(w.msg[Frame], <<2>>))
             v == EtherUp(w)
             type == "IP"
  <1>1. Framed(w, p, d, type, hd, rest) /\ type = "IP"
    OBVIOUS
  <1> HIDE DEF type
  <1>2. /\ Good(u, u.cache, {Frame}, p, d) /\ u.msg[Frame].offset = 2
        /\ u.msg[Frame].body = rest /\ u.msg[Frame].len = Size(rest)
        /\ u.sock = w.sock /\ u.up = w.up /\ rest \in Fields
        /\ Live(u.msg[Frame]) /\ Val(w.msg[Frame], 1) = type
    <2>1. Typed(w, u, p, d, type, rest)
      BY <1>1, TypeOff
    <2> HIDE DEF u
    <2> QED BY <2>1 DEF Typed
  <1>3. v = IpUp(u)
    BY <1>1, <1>2 DEF EtherUp
  <1> HIDE DEF u, v
  <1>4. Arriving(u, p, d, nine, opts, payload, pad)
    BY <1>2 DEF Arriving
  <1>5. Good(v, v.cache, {}, p, d) /\ Upward(u, v, p)
    BY <1>3, <1>4, IpUpGood
  <1> QED BY <1>2, <1>5 DEF Upward, v

LEMMA EtherUpArp ==
  ASSUME NEW w, NEW d, NEW hd, NEW rest, Framed(w, NULL, d, "ARP", hd, rest),
         Size(rest) >= 28, Len(rest) >= 7, rest[7][2] \in Hop
  PROVE  LET v == EtherUp(w)
         IN  Good(v, v.cache, {}, NULL, d) /\ v.sock = w.sock /\ v.up = w.up
  <1> DEFINE u == Keep(w, Frame, Pop(w.msg[Frame], <<2>>))
             v == EtherUp(w)
             type == "ARP"
             p == NULL
  <1>1. Framed(w, p, d, type, hd, rest) /\ type = "ARP" /\ p = NULL
    OBVIOUS
  <1> HIDE DEF type, p
  <1>2. /\ Good(u, u.cache, {Frame}, p, d) /\ u.msg[Frame].offset = 2
        /\ u.msg[Frame].body = rest /\ u.msg[Frame].len = Size(rest)
        /\ u.sock = w.sock /\ u.up = w.up /\ rest \in Fields
        /\ Live(u.msg[Frame]) /\ Val(w.msg[Frame], 1) = type
    <2>1. Typed(w, u, p, d, type, rest)
      BY <1>1, TypeOff
    <2> HIDE DEF u
    <2> QED BY <2>1 DEF Typed
  <1>3. v = ArpUp(u)
    BY <1>1, <1>2 DEF EtherUp
  <1> HIDE DEF u, v
  <1>4. Val(u.msg[Frame], 7) \in Hop
    <2>1. Len(rest) \in Nat /\ DOMAIN rest = 1..Len(rest)
      BY <1>2, FieldsType
    <2> QED BY <1>2, <2>1 DEF Val
  <1>5. Calling(u, d)
    BY <1>1, <1>2, <1>4 DEF Calling
  <1>6. Good(v, v.cache, {}, NULL, d) /\ v.sock = u.sock /\ v.up = u.up
    BY <1>3, <1>5, ArpUpGood
  <1> QED BY <1>2, <1>6 DEF v

LEMMA Assoc ==
  ASSUME NEW a \in Fields, NEW b \in Fields, NEW c \in Fields
  PROVE  (a \o b) \o c = a \o (b \o c)
  <1>1. a \in Seq(Field) /\ b \in Seq(Field) /\ c \in Seq(Field)
    BY DEF Fields
  <1> QED BY <1>1, ConcatAssociative

(* The frames that arrive are in order, or are dropped on the way.             *)
IpFrame(f, p) == \E nine, opts, payload, pad, rest :
                    f = << <<2, "IP">> >> \o rest /\ rest \in Fields
                    /\ DatagramFrom(p, rest, nine, opts, payload, pad)

ArpFrame(f) == \E rest : /\ f = << <<2, "ARP">> >> \o rest /\ rest \in Fields
                         /\ Size(rest) >= 28 /\ Len(rest) >= 7 /\ rest[7][2] \in Hop

Nine(hlen, total, frag, protocol, good, src) ==
    << <<2, hlen>>, <<2, total>>, <<2, "id">>, <<2, frag>>, <<1, "ttl">>,
       <<1, protocol>>, <<2, good>>, <<4, src>>, <<4, Me>> >>

NineParts(f, hlen, total, frag, protocol, good, src) ==
    /\ f \in Fields /\ Len(f) = 9 /\ Size(f) = 20
    /\ f[1] = <<2, hlen>> /\ f[2] = <<2, total>> /\ f[3][1] = 2 /\ f[4] = <<2, frag>>
    /\ f[5][1] = 1 /\ f[6] = <<1, protocol>> /\ f[7] = <<2, good>>
    /\ f[8] = <<4, src>> /\ f[9][1] = 4

LEMMA NineIs ==
  ASSUME NEW hlen \in Value, NEW total \in Value, NEW frag \in Value, NEW protocol \in Value,
         NEW good \in Value, NEW src \in Value
  PROVE  NineParts(Nine(hlen, total, frag, protocol, good, src),
                   hlen, total, frag, protocol, good, src)
  <1> DEFINE f == Nine(hlen, total, frag, protocol, good, src)
             a == <<2, hlen>>
             b == <<2, total>>
             c == <<2, "id">>
             d == <<2, frag>>
             e == <<1, "ttl">>
             g == <<1, protocol>>
             h == <<2, good>>
             i == <<4, src>>
             j == <<4, Me>>
  <1>1. \A x \in Value : <<1, x>> \in Field /\ <<2, x>> \in Field /\ <<4, x>> \in Field
    BY FieldType
  <1>2. "id" \in Value /\ "ttl" \in Value /\ Me \in Value
    BY DEF Value, Word
  <1>3. f = <<a, b, c, d, e, g, h, i, j>>
    BY DEF Nine
  <1>4. /\ a \in Field /\ b \in Field /\ c \in Field /\ d \in Field /\ e \in Field
        /\ g \in Field /\ h \in Field /\ i \in Field /\ j \in Field
    BY <1>1, <1>2
  <1>5. /\ a[1] = 2 /\ b[1] = 2 /\ c[1] = 2 /\ d[1] = 2 /\ e[1] = 1
        /\ g[1] = 1 /\ h[1] = 2 /\ i[1] = 4 /\ j[1] = 4
    OBVIOUS
  <1>6. /\ a = <<2, hlen>> /\ b = <<2, total>> /\ d = <<2, frag>>
        /\ g = <<1, protocol>> /\ h = <<2, good>> /\ i = <<4, src>>
    OBVIOUS
  <1> HIDE DEF a, b, c, d, e, g, h, i, j, f
  <1>7. f \in Fields /\ Len(f) = 9
    BY <1>3, <1>4 DEF Fields
  <1>8. /\ f[1] = a /\ f[2] = b /\ f[3] = c /\ f[4] = d /\ f[5] = e
        /\ f[6] = g /\ f[7] = h /\ f[8] = i /\ f[9] = j
    BY <1>3
  <1>9. Size(f) = f[1][1] + f[2][1] + f[3][1] + f[4][1] + f[5][1] + f[6][1] + f[7][1] + f[8][1] + f[9][1]
    BY <1>7, Sizes
  <1>10. Size(f) = 20
    BY <1>5, <1>8, <1>9
  <1>11. NineParts(f, hlen, total, frag, protocol, good, src)
    BY <1>5, <1>6, <1>7, <1>8, <1>10 DEF NineParts
  <1> QED BY <1>11 DEF f

(* What of a datagram is passed on, if anything is.                            *)
Payloads(p, src, protocol, payload) ==
    /\ protocol = "TCP" => Size(payload) < 20 \/ SegmentFrom(payload, src, p)
    /\ protocol = "ICMP" => EchoFrom(payload, src, p)

Sent(p, src, hlen, frag, good, protocol, payload) ==
    /\ src \in Host /\ hlen \in Nat /\ frag \in Value /\ good \in Value
    /\ protocol \in {"TCP", "ICMP", "UDP"} /\ payload \in Fields
    /\ hlen < 20 \/ frag = TRUE \/ good = FALSE \/ Payloads(p, src, protocol, payload)

LEMMA HeadOfTen ==
  ASSUME NEW a, NEW b, NEW c, NEW d, NEW e, NEW f, NEW g, NEW h, NEW i, NEW j
  PROVE  <<a, b, c, d, e, f, g, h, i, j>> = <<a>> \o <<b, c, d, e, f, g, h, i, j>>
  OBVIOUS

Parts(f, rest, nine, opts, pad, src, hlen, frag, good, protocol, payload) ==
    /\ f = << <<2, "IP">> >> \o rest /\ rest \in Fields
    /\ Parted(rest, nine, opts, payload, pad)
    /\ NineParts(nine, hlen, hlen + Size(payload), frag, protocol, good, src)
    /\ hlen >= 20 => Measured(nine, opts, payload)

LEMMA DatagramParts ==
  ASSUME NEW src \in Host, NEW hlen \in Nat, NEW frag \in Value, NEW good \in Value,
         NEW protocol \in {"TCP", "ICMP", "UDP"}, NEW payload \in Fields
  PROVE  \E rest, nine, opts, pad :
            Parts(Datagram(src, hlen, frag, good, protocol, payload), rest, nine, opts, pad,
                  src, hlen, frag, good, protocol, payload)
  <1> DEFINE opts == IF hlen <= 20 THEN <<>> ELSE << <<hlen - 20, "options">> >>
             total == hlen + Size(payload)
             pad == IF total >= 46 THEN <<>> ELSE << <<46 - total, "pad">> >>
             ten == << <<2, "IP">>, <<2, hlen>>, <<2, total>>, <<2, "id">>, <<2, frag>>, <<1, "ttl">>,
                       <<1, protocol>>, <<2, good>>, <<4, src>>, <<4, Me>> >>
             nine == Nine(hlen, total, frag, protocol, good, src)
             hd == << <<2, "IP">> >>
             body == opts \o payload
             fs == nine \o body
             rest == fs \o pad
  <1>0. Datagram(src, hlen, frag, good, protocol, payload) = ((ten \o opts) \o payload) \o pad
    BY DEF Datagram
  <1>1. /\ src \in Host /\ hlen \in Nat /\ frag \in Value /\ good \in Value
        /\ protocol \in {"TCP", "ICMP", "UDP"} /\ payload \in Fields
    OBVIOUS
  <1>2. Size(payload) \in Nat /\ total \in Nat
    BY <1>1, SumType
  <1>3. opts \in Fields /\ (hlen >= 20 => Size(opts) = hlen - 20)
    <2>1. CASE hlen <= 20
      BY <1>1, <2>1, EmptyType
    <2>2. CASE ~(hlen <= 20)
      <3> DEFINE n == hlen - 20
      <3>1. "options" \in Value /\ n \in Nat \ {0} /\ opts = << <<n, "options">> >>
        BY <1>1, <2>2 DEF Value, Word
      <3> HIDE DEF n, opts
      <3>2. opts \in Fields /\ Size(opts) = n
        BY <3>1, OneField
      <3> QED BY <3>2 DEF n
    <2> QED BY <2>1, <2>2
  <1>4. pad \in Fields
    <2> HIDE DEF total
    <2>1. CASE total >= 46
      BY <2>1, EmptyType
    <2>2. CASE ~(total >= 46)
      <3> DEFINE n == 46 - total
      <3>1. "pad" \in Value /\ n \in Nat \ {0} /\ pad = << <<n, "pad">> >>
        BY <1>2, <2>2 DEF Value, Word
      <3> HIDE DEF n, pad
      <3> QED BY <3>1, OneField
    <2> QED BY <2>1, <2>2
  <1>5. ten = hd \o nine
    <2> DEFINE a == <<2, "IP">>
               b == <<2, hlen>>
               c == <<2, total>>
               d == <<2, "id">>
               e == <<2, frag>>
               f == <<1, "ttl">>
               g == <<1, protocol>>
               h == <<2, good>>
               i == <<4, src>>
               j == <<4, Me>>
    <2>1. /\ ten = <<a, b, c, d, e, f, g, h, i, j>>
          /\ nine = <<b, c, d, e, f, g, h, i, j>>
          /\ hd = <<a>>
      BY DEF Nine
    <2> HIDE DEF a, b, c, d, e, f, g, h, i, j, ten, nine, hd
    <2> QED BY <2>1, HeadOfTen, SMTT(30)
  <1>6. hd \in Fields
    BY OneField DEF Value, Word
  <1>7. NineParts(nine, hlen, total, frag, protocol, good, src)
    <2>1. hlen \in Value /\ total \in Value /\ protocol \in Value /\ src \in Value
      BY <1>1, <1>2 DEF Value, Word
    <2> HIDE DEF total
    <2> QED BY <1>1, <2>1, NineIs
  <1> HIDE DEF opts, pad, ten, nine, hd
  <1>p. nine \in Fields
    BY <1>7 DEF NineParts
  <1>8. body \in Fields /\ fs \in Fields /\ rest \in Fields
    BY <1>1, <1>3, <1>4, <1>p, SumConcat
  <1>9. ((ten \o opts) \o payload) \o pad = hd \o rest
    <2>1. nine \o opts \in Fields
      BY <1>3, <1>p, SumConcat
    <2>2. ten \o opts = hd \o (nine \o opts)
      <3>1. (hd \o nine) \o opts = hd \o (nine \o opts)
        BY <1>3, <1>6, <1>p, Assoc
      <3> QED BY <1>5, <3>1
    <2>3. (hd \o (nine \o opts)) \o payload = hd \o ((nine \o opts) \o payload)
      <3> DEFINE q == nine \o opts
      <3>1. q \in Fields
        BY <2>1
      <3> HIDE DEF q
      <3>2. (hd \o q) \o payload = hd \o (q \o payload)
        BY <1>1, <1>6, <3>1, Assoc
      <3> QED BY <3>2 DEF q
    <2>4. (nine \o opts) \o payload = fs
      BY <1>1, <1>3, <1>p, Assoc
    <2> HIDE DEF fs, body
    <2>5. (hd \o fs) \o pad = hd \o rest
      BY <1>4, <1>6, <1>8, Assoc
    <2> QED BY <2>2, <2>3, <2>4, <2>5
  <1>10. HeaderIs(nine)
    BY <1>1, <1>7 DEF HeaderIs, NineParts
  <1>11. ASSUME hlen >= 20 PROVE Measured(nine, opts, payload)
    <2>1. nine[8][2] = src /\ nine[1][2] = hlen /\ nine[2][2] = total
      BY <1>7 DEF NineParts
    <2>2. hlen = 20 + Size(opts)
      BY <1>1, <1>3, <1>11
    <2>3. total = hlen + Size(payload)
      OBVIOUS
    <2> HIDE DEF total
    <2> QED BY <1>1, <2>1, <2>2, <2>3 DEF Measured
  <1>12. Parted(rest, nine, opts, payload, pad)
    BY <1>1, <1>3, <1>4, <1>10 DEF Parted
  <1> HIDE DEF rest
  <1>13. Datagram(src, hlen, frag, good, protocol, payload) = << <<2, "IP">> >> \o rest
    BY <1>0, <1>9 DEF hd
  <1>14. Parts(Datagram(src, hlen, frag, good, protocol, payload), rest, nine, opts, pad,
               src, hlen, frag, good, protocol, payload)
    BY <1>7, <1>8, <1>11, <1>12, <1>13 DEF Parts
  <1> QED BY <1>14

LEMMA DatagramFrame ==
  ASSUME NEW p, NEW src, NEW hlen, NEW frag, NEW good, NEW protocol, NEW payload,
         Sent(p, src, hlen, frag, good, protocol, payload)
  PROVE  IpFrame(Datagram(src, hlen, frag, good, protocol, payload), p)
  <1> DEFINE f == Datagram(src, hlen, frag, good, protocol, payload)
  <1>1. /\ src \in Host /\ hlen \in Nat /\ frag \in Value /\ good \in Value
        /\ protocol \in {"TCP", "ICMP", "UDP"} /\ payload \in Fields
        /\ hlen < 20 \/ frag = TRUE \/ good = FALSE \/ Payloads(p, src, protocol, payload)
    BY DEF Sent
  <1>2. PICK rest, nine, opts, pad :
            Parts(f, rest, nine, opts, pad, src, hlen, frag, good, protocol, payload)
    BY <1>1, DatagramParts
  <1> HIDE DEF f
  <1>3. /\ nine[8][2] = src /\ nine[1][2] = hlen /\ nine[6][2] = protocol
        /\ nine[4][2] = frag /\ nine[7][2] = good
    BY <1>2 DEF Parts, NineParts
  <1>4. ASSUME Payloads(p, src, protocol, payload), ~(hlen < 20)
        PROVE  InOrder(p, nine, opts, payload)
    <2>1. hlen >= 20
      BY <1>1, <1>4
    <2> QED BY <1>2, <1>3, <1>4, <2>1 DEF Parts, InOrder, Payloads
  <1>5. DatagramFrom(p, rest, nine, opts, payload, pad)
    BY <1>1, <1>2, <1>3, <1>4 DEF Parts, DatagramFrom
  <1> QED BY <1>2, <1>5 DEF Parts, IpFrame, f

LEMMA WholeSegment ==
  ASSUME NEW loc \in Nat \ {0}, NEW bits \in SUBSET Bits, NEW seq \in {"next", "old"},
         NEW ack \in {"next", "old"}, NEW n \in Nat, NEW ip
  PROVE  /\ SegmentFrom(Segment(loc, bits, seq, ack, TRUE, n), ip, Heard(ip, loc, n))
         /\ SegmentFrom(Segment(loc, bits, seq, ack, FALSE, n), ip, NULL)
  BY DEF SegmentFrom

LEMMA SegmentFields ==
  ASSUME NEW seg, NEW ip, NEW p, SegmentFrom(seg, ip, p)
  PROVE  seg \in Fields
  <1>1. PICK h, t, seq, ack : \E loc \in Nat \ {0}, bits \in SUBSET Bits, n \in Nat :
               SegmentParts(seg, ip, p, h, t, loc, bits, seq, ack, n)
    BY SegmentIs
  <1>2. seg = h \o t /\ h \in Fields /\ t \in Fields
    BY <1>1 DEF SegmentParts
  <1> QED BY <1>2, SumConcat

LEMMA SegmentFrame ==
  ASSUME NEW seg, NEW ip \in Host, NEW p, SegmentFrom(seg, ip, p), NEW hlen \in Nat
  PROVE  IpFrame(Datagram(ip, hlen, FALSE, TRUE, "TCP", seg), p)
  <1>1. seg \in Fields
    BY SegmentFields
  <1>2. Payloads(p, ip, "TCP", seg)
    BY DEF Payloads
  <1>3. FALSE \in Value /\ TRUE \in Value
    BY DEF Value
  <1>4. Sent(p, ip, hlen, FALSE, TRUE, "TCP", seg)
    BY <1>1, <1>2, <1>3 DEF Sent
  <1> QED BY <1>4, DatagramFrame

LEMMA SegmentFramesAre ==
  ASSUME NEW x \in SegmentFrames
  PROVE  IpFrame(x[2], x[1])
  <1> DEFINE Whole(ip, hlen, loc, bits, seq, ack, n) ==
               x = <<Heard(ip, loc, n), Datagram(ip, hlen, FALSE, TRUE, "TCP",
                                                 Segment(loc, bits, seq, ack, TRUE, n))>>
  <1> DEFINE Carried(ip, hlen, p) == Datagram(ip, hlen, FALSE, TRUE, "TCP", p)
             Refused(bits) == Segment(OtherPort, bits, "old", "old", TRUE, 0)
             About(ip, loc, n) == Heard(ip, loc, n)
             A == UNION {{<<About(ip, loc, 0), Carried(ip, 20, p)>> : p \in Plain(loc)} :
                           ip \in Host, loc \in HeardPort}
             B == {<<About(ip, OtherPort, 0), Carried(ip, 20, Refused(bits))>> :
                     ip \in Host, bits \in {{"SYN"}, {"ACK"}}}
             C == {<<About(ip, loc, 3), Carried(ip, hlen, Data(loc))>> :
                     ip \in Host, loc \in HeardPort, hlen \in {20, 24}}
  <1>1. \A loc \in HeardPort : loc \in Nat \ {0}
    BY PortType, StackAssumption
  <1>a. SegmentFrames = (A \cup B) \cup C
    BY DEF SegmentFrames
  <1> HIDE DEF Carried, Refused, About
  <1>2. \E ip \in Host, hlen \in Nat, loc \in Nat \ {0}, bits \in SUBSET Bits, n \in Nat :
          \E seq \in {"next", "old"} : \E ack \in {"next", "old"} :
             Whole(ip, hlen, loc, bits, seq, ack, n)
    <2>1. CASE x \in A
      <3>1. PICK ip \in Host, loc \in HeardPort :
              x \in {<<About(ip, loc, 0), Carried(ip, 20, p)>> : p \in Plain(loc)}
        BY <2>1
      <3>2. PICK p \in Plain(loc) : x = <<About(ip, loc, 0), Carried(ip, 20, p)>>
        BY <3>1
      <3>3. \E bits \in SUBSET Bits : \E seq \in {"next", "old"} : \E ack \in {"next", "old"} :
              p = Segment(loc, bits, seq, ack, TRUE, 0)
        <4>1. {"SYN"} \in SUBSET Bits /\ {"RST", "ACK"} \in SUBSET Bits
              /\ {"ACK"} \in SUBSET Bits /\ {"FIN", "ACK"} \in SUBSET Bits
          BY DEF Bits
        <4>2. CASE p = Segment(loc, {"SYN"}, "next", "old", TRUE, 0)
          BY <4>1, <4>2
        <4>3. CASE p = Segment(loc, {"RST", "ACK"}, "next", "next", TRUE, 0)
          BY <4>1, <4>3
        <4>4. CASE \E bits \in {{"ACK"}, {"FIN", "ACK"}} :
                     \E n \in {<<"next", "next">>, <<"next", "old">>, <<"old", "next">>} :
                        p = Segment(loc, bits, n[1], n[2], TRUE, 0)
          <5>1. PICK bits \in {{"ACK"}, {"FIN", "ACK"}} :
                     \E n \in {<<"next", "next">>, <<"next", "old">>, <<"old", "next">>} :
                        p = Segment(loc, bits, n[1], n[2], TRUE, 0)
            BY <4>4
          <5>2. PICK n \in {<<"next", "next">>, <<"next", "old">>, <<"old", "next">>} :
                        p = Segment(loc, bits, n[1], n[2], TRUE, 0)
            BY <5>1
          <5>3. n[1] \in {"next", "old"} /\ n[2] \in {"next", "old"} /\ bits \in SUBSET Bits
            BY <4>1
          <5> QED BY <5>2, <5>3
        <4> DEFINE Made(bits, n) == Segment(loc, bits, n[1], n[2], TRUE, 0)
                   Sorts == {<<"next", "next">>, <<"next", "old">>, <<"old", "next">>}
                   Kinds == {{"ACK"}, {"FIN", "ACK"}}
                   First == {Segment(loc, {"SYN"}, "next", "old", TRUE, 0),
                             Segment(loc, {"RST", "ACK"}, "next", "next", TRUE, 0)}
                   Answered == {Made(bits, n) : bits \in Kinds, n \in Sorts}
        <4>5. Plain(loc) = First \cup Answered
          BY DEF Plain
        <4>6. CASE p \in Answered
          <5> HIDE DEF Made, Sorts, Kinds
          <5>1. \E bits \in Kinds, n \in Sorts : p = Made(bits, n)
            BY <4>6
          <5> QED BY <4>4, <5>1 DEF Made, Sorts, Kinds
        <4>7. p \in First => \/ p = Segment(loc, {"SYN"}, "next", "old", TRUE, 0)
                             \/ p = Segment(loc, {"RST", "ACK"}, "next", "next", TRUE, 0)
          OBVIOUS
        <4> HIDE DEF First, Answered
        <4> QED BY <4>2, <4>3, <4>5, <4>6, <4>7
      <3>4. loc \in Nat \ {0} /\ 0 \in Nat /\ 20 \in Nat
        BY <1>1
      <3> QED BY <3>2, <3>3, <3>4 DEF About, Carried
    <2>2. CASE x \in B
      <3>1. PICK ip \in Host, bits \in {{"SYN"}, {"ACK"}} :
              x = <<About(ip, OtherPort, 0), Carried(ip, 20, Refused(bits))>>
        BY <2>2
      <3>2. OtherPort \in Nat \ {0} /\ bits \in SUBSET Bits /\ 20 \in Nat /\ 0 \in Nat
        BY DEF OtherPort, Bits
      <3>3. Whole(ip, 20, OtherPort, bits, "old", "old", 0)
        BY <3>1 DEF About, Carried, Refused
      <3> QED BY <3>2, <3>3
    <2>3. CASE x \in C
      <3>1. {"ACK"} \in SUBSET Bits
        BY DEF Bits
      <3>2. PICK ip \in Host, loc \in HeardPort, hlen \in {20, 24} :
              x = <<About(ip, loc, 3), Carried(ip, hlen, Data(loc))>>
        BY <2>3
      <3>3. loc \in Nat \ {0} /\ hlen \in Nat
        BY <1>1
      <3>4. Whole(ip, hlen, loc, {"ACK"}, "next", "next", 3)
        BY <3>2 DEF Data, About, Carried
      <3> QED BY <3>1, <3>3, <3>4
    <2>4. x \in A \/ x \in B \/ x \in C
      <3>1. x \in SegmentFrames
        OBVIOUS
      <3> HIDE DEF A, B, C
      <3> QED BY <1>a, <3>1
    <2> HIDE DEF A, B, C
    <2> QED BY <2>1, <2>2, <2>3, <2>4
  <1>3. PICK ip \in Host, hlen \in Nat, loc \in Nat \ {0}, bits \in SUBSET Bits, n \in Nat :
          \E seq \in {"next", "old"} : \E ack \in {"next", "old"} :
             Whole(ip, hlen, loc, bits, seq, ack, n)
    BY <1>2
  <1>4. PICK seq \in {"next", "old"}, ack \in {"next", "old"} :
             Whole(ip, hlen, loc, bits, seq, ack, n)
    BY <1>3
  <1> DEFINE seg == Segment(loc, bits, seq, ack, TRUE, n)
             p == Heard(ip, loc, n)
  <1>5. x = <<p, Datagram(ip, hlen, FALSE, TRUE, "TCP", seg)>>
    BY <1>4
  <1>6. SegmentFrom(seg, ip, p)
    BY WholeSegment
  <1> HIDE DEF seg, p
  <1>7. IpFrame(Datagram(ip, hlen, FALSE, TRUE, "TCP", seg), p)
    BY <1>6, SegmentFrame
  <1> QED BY <1>5, <1>7

LEMMA EchoFrame ==
  ASSUME NEW type \in Value, NEW good \in Value, NEW n \in Nat \ {0}, NEW ip \in Host
  PROVE  IpFrame(Datagram(ip, 24, FALSE, TRUE, "ICMP", Echo(type, good, n)), Heard(ip, 0, 0))
  <1> DEFINE a == <<1, type>>
             b == <<1, 0>>
             c == <<2, good>>
             e == <<n, "echo">>
             f == Echo(type, good, n)
             p == Heard(ip, 0, 0)
             hlen == 24
  <1>1. a \in Field /\ b \in Field /\ c \in Field /\ e \in Field
    <2>1. "echo" \in Value /\ 0 \in Value
      BY DEF Value, Word
    <2> QED BY <2>1, FieldType
  <1>2. a[1] = 1 /\ b[1] = 1 /\ c[1] = 2 /\ e[1] \in Nat
    OBVIOUS
  <1>3. f = <<a, b, c, e>>
    BY DEF Echo
  <1> HIDE DEF a, b, c, e, f
  <1>4. f \in Fields /\ Len(f) = 4 /\ f[1] = a /\ f[2] = b /\ f[3] = c /\ f[4] = e
    BY <1>1, <1>3 DEF Fields
  <1>5. Size(f) = f[1][1] + f[2][1] + f[3][1] + f[4][1]
    BY <1>4, Sizes
  <1>6. EchoFrom(f, ip, p)
    BY <1>2, <1>4, <1>5 DEF EchoFrom
  <1> HIDE DEF p
  <1>7. Payloads(p, ip, "ICMP", f)
    BY <1>6 DEF Payloads
  <1>8. FALSE \in Value /\ TRUE \in Value /\ hlen \in Nat
    BY DEF Value
  <1> HIDE DEF hlen
  <1>9. Sent(p, ip, hlen, FALSE, TRUE, "ICMP", f)
    BY <1>4, <1>7, <1>8 DEF Sent
  <1>10. IpFrame(Datagram(ip, hlen, FALSE, TRUE, "ICMP", f), p)
    BY <1>9, DatagramFrame
  <1> QED BY <1>10 DEF hlen, f, p

LEMMA EchoFramesAre ==
  ASSUME NEW x \in EchoFrames
  PROVE  IpFrame(x[2], x[1])
  <1> DEFINE Carried(ip, echo) == Datagram(ip, 24, FALSE, TRUE, "ICMP", echo)
             About(ip) == Heard(ip, 0, 0)
  <1>0. EchoFrames = {<<About(ip), Carried(ip, echo)>> : ip \in Host, echo \in Echoes}
    BY DEF EchoFrames
  <1> HIDE DEF Carried, About
  <1>1. PICK ip \in Host, echo \in Echoes : x = <<About(ip), Carried(ip, echo)>>
    BY <1>0
  <1>2. /\ "request" \in Value /\ "other" \in Value /\ TRUE \in Value /\ FALSE \in Value
        /\ PoolLen \in Nat \ {0} /\ 4 \in Nat \ {0}
    BY StackAssumption DEF Value, Word
  <1>3. PICK type \in Value, good \in Value, n \in Nat \ {0} : echo = Echo(type, good, n)
    <2>1. \/ echo = Echo("request", TRUE, PoolLen) \/ echo = Echo("request", FALSE, 4)
          \/ echo = Echo("other", TRUE, 4)
      BY DEF Echoes
    <2> QED BY <1>2, <2>1
  <1>4. IpFrame(Carried(ip, echo), About(ip))
    BY <1>3, EchoFrame DEF Carried, About
  <1> QED BY <1>1, <1>4

Useless(hlen, frag, good, protocol, payload) ==
    /\ hlen \in Nat /\ frag \in Value /\ good \in Value
    /\ protocol \in {"TCP", "ICMP", "UDP"} /\ payload \in Fields
    /\ \/ hlen < 20 \/ frag = TRUE \/ good = FALSE \/ protocol = "UDP"
       \/ protocol = "TCP" /\ Size(payload) < 20

LEMMA BadFrame ==
  ASSUME NEW ip \in Host, NEW hlen, NEW frag, NEW good, NEW protocol, NEW payload,
         Useless(hlen, frag, good, protocol, payload)
  PROVE  IpFrame(Datagram(ip, hlen, frag, good, protocol, payload), NULL)
  <1> DEFINE p == NULL
  <1> HIDE DEF p
  <1>1. hlen < 20 \/ frag = TRUE \/ good = FALSE \/ Payloads(p, ip, protocol, payload)
    BY DEF Payloads, Useless
  <1>2. Sent(p, ip, hlen, frag, good, protocol, payload)
    BY <1>1 DEF Sent, Useless
  <1>3. IpFrame(Datagram(ip, hlen, frag, good, protocol, payload), p)
    BY <1>2, DatagramFrame
  <1> QED BY <1>3 DEF p

LEMMA BadFramesAre ==
  ASSUME NEW x \in BadFrames
  PROVE  x[1] = NULL /\ IpFrame(x[2], NULL)
  <1> DEFINE data == Data(OtherPort)
             short == SubSeq(data, 1, 5)
             bad == Segment(OtherPort, {"SYN"}, "next", "next", FALSE, 0)
  <1>1. PICK ip \in Remote :
          \/ x = <<NULL, Datagram(ip, 20, FALSE, TRUE, "UDP", data)>>
          \/ x = <<NULL, Datagram(ip, 20, TRUE, TRUE, "TCP", data)>>
          \/ x = <<NULL, Datagram(ip, 20, FALSE, FALSE, "TCP", data)>>
          \/ x = <<NULL, Datagram(ip, 16, FALSE, TRUE, "TCP", data)>>
          \/ x = <<NULL, Datagram(ip, 20, FALSE, TRUE, "TCP", short)>>
          \/ x = <<NULL, Datagram(ip, 20, FALSE, TRUE, "TCP", bad)>>
    BY DEF BadFrames
  <1>2. ip \in Host
    BY DEF Host
  <1>3. OtherPort \in Nat \ {0} /\ {"ACK"} \in SUBSET Bits /\ {"SYN"} \in SUBSET Bits
    BY DEF OtherPort, Bits
  <1>4. SegmentFrom(data, ip, Heard(ip, OtherPort, 3))
    BY <1>3, WholeSegment DEF Data
  <1>5. SegmentFrom(bad, ip, NULL)
    BY <1>3, WholeSegment
  <1>6. PICK h, t, seq, ack : \E loc \in Nat \ {0}, bits \in SUBSET Bits, n \in Nat :
               SegmentParts(data, ip, Heard(ip, OtherPort, 3), h, t, loc, bits, seq, ack, n)
    BY <1>4, SegmentIs
  <1>7. /\ data = h \o t /\ h \in Fields /\ t \in Fields /\ Len(h) = 8
        /\ h[1][1] = 2 /\ h[2][1] = 2 /\ h[3][1] = 4 /\ h[4][1] = 4 /\ h[5][1] = 2
    BY <1>6 DEF SegmentParts
  <1>8. data \in Fields
    BY <1>4, SegmentFields
  <1> HIDE DEF data
  <1>9. 5 \in 0..Len(data) /\ \A k \in 1..5 : data[k] = h[k]
    <2>1. h \in Seq(Field) /\ t \in Seq(Field) /\ Len(t) \in Nat
      BY <1>7, FieldsType DEF Fields
    <2>2. Len(h \o t) = Len(h) + Len(t) /\ \A k \in 1..Len(h) : (h \o t)[k] = h[k]
      BY <2>1
    <2> QED BY <1>7, <2>1, <2>2
  <1>10. short \in Fields /\ Len(short) = 5 /\ \A k \in 1..5 : short[k] = data[k]
    <2> DEFINE five == 5
    <2>1. five \in 0..Len(data)
      BY <1>9
    <2> HIDE DEF five
    <2>2. /\ SubSeq(data, 1, five) \in Fields /\ Len(SubSeq(data, 1, five)) = five
          /\ \A k \in 1..five : SubSeq(data, 1, five)[k] = data[k]
      BY <1>8, <2>1, Split
    <2> QED BY <2>2 DEF five
  <1> HIDE DEF short
  <1>11. Size(short) < 20
    <2>1. Size(short) = short[1][1] + short[2][1] + short[3][1] + short[4][1] + short[5][1]
      BY <1>10, Sizes
    <2>2. short[1] = h[1] /\ short[2] = h[2] /\ short[3] = h[3] /\ short[4] = h[4] /\ short[5] = h[5]
      BY <1>9, <1>10
    <2> QED BY <1>7, <2>1, <2>2
  <1> HIDE DEF bad
  <1>12. TRUE \in Value /\ FALSE \in Value
    BY DEF Value
  <1> QED
    <2>1. CASE x = <<NULL, Datagram(ip, 20, FALSE, TRUE, "UDP", data)>>
      <3>1. Useless(20, FALSE, TRUE, "UDP", data)
        BY <1>8, <1>12 DEF Useless
      <3>2. IpFrame(Datagram(ip, 20, FALSE, TRUE, "UDP", data), NULL)
        BY <1>2, <3>1, BadFrame
      <3> QED BY <2>1, <3>2
    <2>2. CASE x = <<NULL, Datagram(ip, 20, TRUE, TRUE, "TCP", data)>>
      <3>1. Useless(20, TRUE, TRUE, "TCP", data)
        BY <1>8, <1>12 DEF Useless
      <3>2. IpFrame(Datagram(ip, 20, TRUE, TRUE, "TCP", data), NULL)
        BY <1>2, <3>1, BadFrame
      <3> QED BY <2>2, <3>2
    <2>3. CASE x = <<NULL, Datagram(ip, 20, FALSE, FALSE, "TCP", data)>>
      <3>1. Useless(20, FALSE, FALSE, "TCP", data)
        BY <1>8, <1>12 DEF Useless
      <3>2. IpFrame(Datagram(ip, 20, FALSE, FALSE, "TCP", data), NULL)
        BY <1>2, <3>1, BadFrame
      <3> QED BY <2>3, <3>2
    <2>4. CASE x = <<NULL, Datagram(ip, 16, FALSE, TRUE, "TCP", data)>>
      <3>1. Useless(16, FALSE, TRUE, "TCP", data)
        <4> DEFINE hlen == 16
        <4>1. hlen \in Nat /\ hlen < 20
          OBVIOUS
        <4> HIDE DEF hlen
        <4>2. Useless(hlen, FALSE, TRUE, "TCP", data)
          BY <1>8, <1>12, <4>1 DEF Useless
        <4> QED BY <4>2 DEF hlen
      <3>2. IpFrame(Datagram(ip, 16, FALSE, TRUE, "TCP", data), NULL)
        BY <1>2, <3>1, BadFrame
      <3> QED BY <2>4, <3>2
    <2>5. CASE x = <<NULL, Datagram(ip, 20, FALSE, TRUE, "TCP", short)>>
      <3>1. Useless(20, FALSE, TRUE, "TCP", short)
        BY <1>10, <1>11, <1>12 DEF Useless
      <3>2. IpFrame(Datagram(ip, 20, FALSE, TRUE, "TCP", short), NULL)
        BY <1>2, <3>1, BadFrame
      <3> QED BY <2>5, <3>2
    <2>6. CASE x = <<NULL, Datagram(ip, 20, FALSE, TRUE, "TCP", bad)>>
      <3>1. IpFrame(Datagram(ip, 20, FALSE, TRUE, "TCP", bad), NULL)
        BY <1>2, <1>5, SegmentFrame
      <3> QED BY <2>6, <3>1
    <2> QED BY <1>1, <2>1, <2>2, <2>3, <2>4, <2>5, <2>6

LEMMA ArpFramesAre ==
  ASSUME NEW f \in ArpFrames
  PROVE  ArpFrame(f)
  <1>1. PICK op \in {<<"REQUEST", Me>>, <<"REPLY", Me>>, <<"REQUEST", NULL>>}, h \in Hop :
          f = << <<2, "ARP">>, <<2, 1>>, <<2, "IP">>, <<1, 6>>, <<1, 4>>, <<2, op[1]>>, <<6, h>>,
                 <<4, h>>, <<6, "any">>, <<4, op[2]>>, <<18, "pad">> >>
    BY DEF ArpFrames
  <1> DEFINE a == <<2, 1>>
             b == <<2, "IP">>
             c == <<1, 6>>
             d == <<1, 4>>
             e == <<2, op[1]>>
             g == <<6, h>>
             i == <<4, h>>
             j == <<6, "any">>
             k == <<4, op[2]>>
             l == <<18, "pad">>
             seven == <<a, b, c, d, e, g, i>>
             three == <<j, k, l>>
             rest == <<a, b, c, d, e, g, i, j, k, l>>
  <1>2. /\ a \in Field /\ b \in Field /\ c \in Field /\ d \in Field /\ e \in Field
        /\ g \in Field /\ i \in Field /\ j \in Field /\ k \in Field /\ l \in Field
    <2>1. /\ 1 \in Value /\ "IP" \in Value /\ 6 \in Value /\ 4 \in Value /\ "any" \in Value
          /\ "pad" \in Value /\ h \in Value
      BY DEF Value, Word
    <2>2. op[1] \in Value /\ op[2] \in Value
      BY DEF Value, Word
    <2>3. \A x \in Value : <<1, x>> \in Field /\ <<2, x>> \in Field /\ <<4, x>> \in Field
                           /\ <<6, x>> \in Field /\ <<18, x>> \in Field
      BY FieldType
    <2> QED BY <2>1, <2>2, <2>3
  <1>3. /\ a[1] = 2 /\ b[1] = 2 /\ c[1] = 1 /\ d[1] = 1 /\ e[1] = 2 /\ g[1] = 6 /\ i[1] = 4
        /\ j[1] = 6 /\ k[1] = 4 /\ l[1] = 18 /\ i[2] = h
    OBVIOUS
  <1> DEFINE type == <<2, "ARP">>
  <1>4. f = <<type, a, b, c, d, e, g, i, j, k, l>>
    BY <1>1
  <1> HIDE DEF a, b, c, d, e, g, i, j, k, l, type
  <1>e. f = <<type>> \o rest
    BY <1>4
  <1>5. seven \in Fields /\ three \in Fields /\ Len(seven) = 7 /\ Len(three) = 3
    BY <1>2 DEF Fields
  <1>6. rest = seven \o three /\ rest[7] = i /\ Len(rest) = 10
    OBVIOUS
  <1>7. /\ seven[1] = a /\ seven[2] = b /\ seven[3] = c /\ seven[4] = d /\ seven[5] = e
        /\ seven[6] = g /\ seven[7] = i /\ three[1] = j /\ three[2] = k /\ three[3] = l
    OBVIOUS
  <1> HIDE DEF seven, three, rest
  <1>8. /\ Size(seven) = seven[1][1] + seven[2][1] + seven[3][1] + seven[4][1] + seven[5][1]
                         + seven[6][1] + seven[7][1]
        /\ Size(three) = three[1][1] + three[2][1] + three[3][1]
    BY <1>5, Sizes
  <1>9. Size(seven) = 18 /\ Size(three) = 28
    BY <1>3, <1>7, <1>8
  <1>10. rest \in Fields /\ Size(rest) = Size(seven) + Size(three)
    BY <1>5, <1>6, SumConcat
  <1>11. rest[7][2] \in Hop /\ Size(rest) >= 28 /\ Len(rest) >= 7
    BY <1>3, <1>6, <1>9, <1>10
  <1> QED BY <1>e, <1>10, <1>11 DEF ArpFrame, type

(* A frame takes a message of its own, and gives it back.                      *)
Framing(w, m, c, H, G) == /\ Sane(m) /\ G \in SUBSET Ids
                          /\ \A j \in Ids : j # Frame => (j \in G <=> j \in H)
                          /\ (m.inuse = TRUE) <=> Frame \in G

LEMMA FrameGood ==
  ASSUME NEW w, NEW c, NEW H, NEW p, NEW d, Good(w, c, H, p, d),
         NEW m, NEW G, Framing(w, m, c, H, G)
  PROVE  LET v == Keep(w, Frame, m)
         IN  Good(v, c, G, p, d) /\ v.msg[Frame] = m /\ Others(w, v, Frame)
             /\ Stays(w, v) /\ v.out = w.out
  <1> DEFINE v == Keep(w, Frame, m)
             i == Frame
  <1>h. /\ Sane(m) /\ G \in SUBSET Ids
        /\ \A j \in Ids : j # i => (j \in G <=> j \in H)
        /\ (m.inuse = TRUE) <=> i \in G
    BY DEF Framing
  <1>g. Memory(w.msg, c, H) /\ Lines(c) /\ Held(w.msg, c, p, d) /\ w \in Worlds
    BY DEF Good
  <1>q. c \in [Hop -> EntryRec]
    BY <1>g DEF Lines
  <1>i. i \in Ids /\ i \notin Pool /\ i # Request /\ m \in Message
    BY <1>h, IdsType DEF Sane
  <1>n. i \notin Queued(c)
    BY <1>i, <1>q, QueuedIs
  <1>k. /\ v \in Worlds /\ v.msg[i] = m /\ Others(w, v, i)
        /\ Stays(w, v) /\ v.out = w.out
        /\ \A j \in Ids : v.msg[j] = IF j = i THEN m ELSE w.msg[j]
    BY <1>g, <1>i, KeepIs
  <1> HIDE DEF v, i
  <1>1. \A j \in Ids : Sane(v.msg[j])
    BY <1>g, <1>h, <1>k DEF Memory
  <1>3. \A j \in Pool : v.msg[j].size = PoolLen /\ v.msg[j].offset = PoolOffset
    BY <1>g, <1>i, <1>k, IdsType DEF Memory
  <1>4. v.msg[Request].size = 60 /\ v.msg[Request].offset = 14
    BY <1>g, <1>i, <1>k, IdsType DEF Memory
  <1>5. \A j \in Ids : (v.msg[j].inuse = TRUE) <=> (j \in G \/ j \in Queued(c))
    <2> SUFFICES ASSUME NEW j \in Ids
                 PROVE  (v.msg[j].inuse = TRUE) <=> (j \in G \/ j \in Queued(c))
      OBVIOUS
    <2>1. CASE j = i
      BY <1>h, <1>k, <1>n, <2>1
    <2>2. CASE j # i
      <3>1. (w.msg[j].inuse = TRUE) <=> (j \in H \/ j \in Queued(c))
        BY <1>g DEF Memory
      <3>2. v.msg[j] = w.msg[j] /\ (j \in G <=> j \in H)
        BY <1>h, <1>k, <2>2
      <3> QED BY <3>1, <3>2
    <2> QED BY <2>1, <2>2
  <1>6. \A j \in G : j \notin Queued(c)
    BY <1>g, <1>h, <1>n DEF Memory
  <1>7. Memory(v.msg, c, G)
    BY <1>h, <1>1, <1>3, <1>4, <1>5, <1>6 DEF Memory
  <1>8. Held(v.msg, c, p, d)
    <2>1. \A h \in Hop : \A j \in Queue(c, h) : j \in Queued(c) /\ j \in Ids
      BY <1>q, QueuedIs, IdsType
    <2>2. \A h \in Hop : \A j \in Queue(c, h) : v.msg[j] = w.msg[j]
      BY <1>k, <1>n, <2>1
    <2> QED BY <1>g, <2>2 DEF Held
  <1>9. Good(v, c, G, p, d)
    BY <1>g, <1>k, <1>7, <1>8 DEF Good, Stays
  <1> QED BY <1>9, <1>k DEF v, i

(* Between steps nothing is in hand, and what waits is fit to be sent.         *)
StackInv == /\ Good(World, cache, {}, NULL, cache)
            /\ \A f \in out : SentWell(f)

LEMMA WorldGood ==
  ASSUME StackInv, NEW p
  PROVE  /\ Good(World, cache, {}, p, cache) /\ World.cache = cache /\ World.msg = msg
         /\ World.sock = sock /\ World.up = <<>> /\ World.out = {}
  <1> DEFINE w == World
  <1>1. Good(w, cache, {}, NULL, cache)
    BY DEF StackInv
  <1>2. w.cache = cache /\ w.msg = msg /\ w.sock = sock /\ w.up = <<>> /\ w.out = {}
    BY DEF World
  <1> HIDE DEF w
  <1>3. Held(w.msg, cache, p, cache)
    BY <1>1 DEF Good, Held
  <1>4. Good(w, cache, {}, p, cache)
    BY <1>1, <1>2, <1>3 DEF Good
  <1> QED BY <1>2, <1>4 DEF w

LEMMA ArrivedIs ==
  ASSUME StackInv, NEW p, NEW type \in Value, NEW rest \in Fields,
         NEW f, f = << <<2, type>> >> \o rest
  PROVE  LET w == Arrived(f)
         IN  Framed(w, p, cache, type, << <<2, type>> >>, rest) /\ w.sock = sock /\ w.up = <<>>
  <1> DEFINE w == Arrived(f)
             hd == << <<2, type>> >>
             m == [ptr |-> 0, len |-> Size(f), body |-> f, size |-> Size(f), offset |-> 2,
                   inuse |-> TRUE, ok |-> msg[Frame].ok]
             v == Keep(World, Frame, m)
             c == cache
  <1>1. /\ Good(World, c, {}, p, c) /\ World.cache = cache /\ World.msg = msg
        /\ World.sock = sock /\ World.up = <<>>
    BY WorldGood
  <1>2. hd \in Fields /\ Size(hd) = 2
    <2>1. 2 \in Nat \ {0}
      OBVIOUS
    <2> QED BY <2>1, OneField
  <1>3. f \in Fields /\ Size(f) = 2 + Size(rest) /\ Size(rest) \in Nat
    BY <1>2, SumConcat, SumType
  <1>4. msg[Frame].ok = TRUE
    <2>1. Sane(World.msg[Frame])
      BY <1>1, GoodIs, IdsType
    <2> QED BY <1>1, <2>1 DEF Sane
  <1>5. w = v
    BY DEF Arrived, Keep, World
  <1>6. /\ m.ptr = 0 /\ m.len = Size(f) /\ m.body = f /\ m.size = Size(f) /\ m.offset = 2
        /\ m.inuse = TRUE /\ m.ok = TRUE /\ m \in Message
    <2> DEFINE n == Size(f)
               ok == msg[Frame].ok
    <2>1. n \in Int /\ ok = TRUE
      BY <1>3, <1>4
    <2> HIDE DEF n, ok
    <2>2. m = [ptr |-> 0, len |-> n, body |-> f, size |-> n, offset |-> 2,
               inuse |-> TRUE, ok |-> TRUE]
      BY <2>1 DEF n, ok
    <2> HIDE DEF m
    <2>3. m \in Message
      BY <1>3, <2>1, <2>2 DEF Message
    <2> QED BY <2>2, <2>3 DEF n
  <1> HIDE DEF m, hd, c
  <1>7. Sane(m)
    BY <1>3, <1>6 DEF Sane
  <1>8. Framing(World, m, c, {}, {Frame})
    BY <1>6, <1>7, IdsType DEF Framing
  <1>9. /\ Good(v, c, {Frame}, p, c) /\ v.msg[Frame] = m /\ Stays(World, v)
    BY <1>1, <1>8, FrameGood
  <1> HIDE DEF v, w
  <1>10. v.cache = c /\ v.sock = sock /\ v.up = <<>>
    BY <1>1, <1>9 DEF Stays, c
  <1>11. Begins(m, hd, rest)
    BY <1>2, <1>6 DEF Begins, hd
  <1>12. Framed(v, p, c, type, hd, rest)
    BY <1>6, <1>9, <1>10, <1>11 DEF Framed, hd
  <1> QED BY <1>5, <1>10, <1>12 DEF w, hd, c

(* What a step ends with, when it was about p.                                 *)
Ended(v, p) == /\ StackInv' /\ sock' \in [Sock -> SocketRec]
               /\ sock' = v.sock /\ up' = v.up
               /\ \A f \in out' : f \in Datagrams(p)
               /\ \A h \in Hop : \A i \in Waiting(h)' \ Waiting(h) :
                     msg'[i].body \in Fields /\ Ready(msg'[i], h, p)

LEMMA ReturnedIs ==
  ASSUME NEW o, o.inuse = FALSE, o.ok = TRUE
  PROVE  Returned(o) = [ptr |-> 0, len |-> 0, body |-> <<>>, size |-> 0, offset |-> 0,
                        inuse |-> FALSE, ok |-> TRUE]
  <1> DEFINE a == o.inuse
             b == o.ok
             n == NewMsg(0, 0)
  <1>1. Returned(o) = [n EXCEPT !.inuse = a, !.ok = b]
    BY DEF Returned
  <1>2. n = [ptr |-> 0, len |-> 0, body |-> <<>>, size |-> 0, offset |-> 0,
             inuse |-> FALSE, ok |-> TRUE]
    BY DEF NewMsg
  <1>3. a = FALSE /\ b = TRUE
    OBVIOUS
  <1> HIDE DEF a, b, n
  <1>4. Returned(o) = n
    BY <1>1, <1>2, <1>3
  <1> QED BY <1>2, <1>4

LEMMA EndGood ==
  ASSUME NEW v, NEW p, Good(v, v.cache, {}, p, cache), Becomes(v)
  PROVE  Ended(v, p)
  <1> DEFINE m == Returned(v.msg[Frame])
             u == Keep(v, Frame, m)
             d == cache
             c == v.cache
             W == [msg |-> msg', cache |-> cache', sock |-> sock', out |-> {}, up |-> <<>>]
  <1>1. /\ msg' = [v.msg EXCEPT ![Frame] = m]
        /\ cache' = v.cache /\ sock' = v.sock /\ out' = v.out /\ up' = v.up
    BY DEF Becomes
  <1>2. /\ v \in Worlds /\ Sane(v.msg[Frame]) /\ v.msg[Frame].inuse = FALSE /\ Lines(c)
        /\ c \in [Hop -> EntryRec] /\ v.msg \in [Ids -> Message]
    <2>1. Good(v, c, {}, p, d)
      OBVIOUS
    <2> HIDE DEF c
    <2>4. Frame \in Ids
      BY IdsType
    <2>5. \A i \in Ids : (v.msg[i].inuse = TRUE) <=> i \in Queued(c)
      BY <2>1 DEF Good, Memory
    <2>6. \A i \in Ids : Sane(v.msg[i]) /\ v.msg[i].inuse \in BOOLEAN
      BY <2>1, GoodIs
    <2>7. v \in Worlds /\ v.msg \in [Ids -> Message] /\ c \in [Hop -> EntryRec]
      BY <2>1, GoodIs
    <2>2. /\ v \in Worlds /\ Sane(v.msg[Frame]) /\ v.msg[Frame].inuse \in BOOLEAN
          /\ c \in [Hop -> EntryRec] /\ Lines(c)
          /\ (v.msg[Frame].inuse = TRUE) <=> Frame \in Queued(c)
          /\ v.msg \in [Ids -> Message]
      BY <2>1, <2>4, <2>5, <2>6, <2>7 DEF Good
    <2>3. Frame \notin Queued(c)
      BY <2>2, QueuedIs, IdsType
    <2> QED BY <2>2, <2>3
  <1>3. /\ m.ptr = 0 /\ m.len = 0 /\ m.body = <<>> /\ m.size = 0 /\ m.offset = 0
        /\ m.inuse = FALSE /\ m.ok = TRUE /\ m \in Message
    <2> DEFINE o == v.msg[Frame]
    <2>1. o.inuse = FALSE /\ o.ok = TRUE
      BY <1>2 DEF Sane
    <2> HIDE DEF o
    <2>2. m = [ptr |-> 0, len |-> 0, body |-> <<>>, size |-> 0, offset |-> 0,
               inuse |-> FALSE, ok |-> TRUE]
      BY <2>1, ReturnedIs DEF o
    <2> HIDE DEF m
    <2>3. m \in Message
      BY <2>2, EmptyType DEF Message
    <2> QED BY <2>2, <2>3
  <1> HIDE DEF m
  <1>4. Framing(v, m, c, {}, {})
    BY <1>3, EmptyType DEF Framing, Sane
  <1>5. Good(u, c, {}, p, d) /\ u.msg = msg' /\ Stays(v, u) /\ u.out = v.out
    <2>1. u.msg = msg'
      BY <1>1, <1>2 DEF Keep, Worlds
    <2> HIDE DEF u, c
    <2> QED BY <1>4, <2>1, FrameGood DEF u, c
  <1> HIDE DEF u, c, d
  <1>6. World' = W
    BY DEF World
  <1>7. W \in Worlds /\ W.msg = msg' /\ W.out = {} /\ W.sock = sock' /\ W.cache = cache'
    <2>1. u \in Worlds
      BY <1>5 DEF Good
    <2>2. msg' \in [Ids -> Message] /\ cache' \in [Hop -> EntryRec] /\ sock' \in [Sock -> SocketRec]
      BY <1>1, <1>2, <1>5, <2>1 DEF Worlds, c
    <2> QED BY <2>2, EmptyType DEF Worlds
  <1> HIDE DEF W
  <1>8. Good(W, c, {}, NULL, c)
    <2>1. Held(W.msg, c, NULL, c)
      BY <1>5, <1>7 DEF Good, Held
    <2> QED BY <1>1, <1>5, <1>7, <2>1 DEF Good, Stays
  <1>9. \A f \in out' : f \in Datagrams(p) /\ SentWell(f)
    BY <1>1 DEF Good, Datagrams
  <1>10. StackInv'
    BY <1>1, <1>6, <1>8, <1>9 DEF StackInv, c
  <1>11. ASSUME NEW h \in Hop, NEW i \in Waiting(h)' \ Waiting(h)
         PROVE  msg'[i].body \in Fields /\ Ready(msg'[i], h, p)
    <2>1. i \in Queue(c, h) /\ i \notin Queue(d, h)
      BY <1>1 DEF Waiting, Queue, c, d
    <2>2. Held(u.msg, c, p, d)
      BY <1>5 DEF Good
    <2>3. i \in Ids
      BY <1>2, <2>1, QueuedIs, IdsType
    <2>4. u.msg[i] \in Message
      BY <1>5, <2>3, GoodIs
    <2>5. u.msg[i].body \in Fields
      BY <2>4 DEF Message
    <2> QED BY <1>5, <2>1, <2>2, <2>5 DEF Held
  <1>12. sock' \in [Sock -> SocketRec]
    BY <1>7 DEF Worlds
  <1> QED BY <1>1, <1>9, <1>10, <1>11, <1>12 DEF Ended

-------------------------------------------------------------------------------
LEMMA NewMsgSane ==
  ASSUME NEW size \in Nat, NEW offset \in 0..size
  PROVE  LET m == NewMsg(size, offset)
         IN  Sane(m) /\ m.inuse = FALSE /\ m.size = size /\ m.offset = offset
  <1> DEFINE m == NewMsg(size, offset)
  <1>1. m = [ptr |-> offset, len |-> 0, body |-> <<>>, size |-> size, offset |-> offset,
             inuse |-> FALSE, ok |-> TRUE]
    BY DEF NewMsg
  <1> HIDE DEF m
  <1>2. m \in Message
    BY <1>1, EmptyType DEF Message
  <1>3. Sane(m)
    BY <1>1, <1>2, EmptyType DEF Sane
  <1> QED BY <1>1, <1>3 DEF m

LEMMA InitInv == Init => StackInv
  <1> SUFFICES ASSUME Init PROVE StackInv
    OBVIOUS
  <1> DEFINE a == NewMsg(60, 14)
             b == NewMsg(0, 0)
             e == NewMsg(PoolLen, PoolOffset)
             w == World
  <1>1. /\ msg = [i \in Ids |-> IF i = Request THEN a ELSE IF i = Frame THEN b ELSE e]
        /\ cache = [h \in Hop |-> [state |-> "IDLE", mq |-> <<>>]]
        /\ sock = [s \in Sock |-> Closed]
        /\ out = {} /\ up = <<>>
    BY DEF Init, Ids
  <1>2. /\ Sane(a) /\ a.inuse = FALSE /\ a.size = 60 /\ a.offset = 14
        /\ Sane(b) /\ b.inuse = FALSE
        /\ Sane(e) /\ e.inuse = FALSE /\ e.size = PoolLen /\ e.offset = PoolOffset
    <2>1. /\ 60 \in Nat /\ 14 \in 0..60 /\ 0 \in Nat /\ 0 \in 0..0
          /\ PoolLen \in Nat /\ PoolOffset \in 0..PoolLen
      BY StackAssumption
    <2>2. Sane(a) /\ a.inuse = FALSE /\ a.size = 60 /\ a.offset = 14
      BY <2>1, NewMsgSane, ZenonT(30)
    <2>3. Sane(b) /\ b.inuse = FALSE
      BY <2>1, NewMsgSane, ZenonT(30)
    <2>4. Sane(e) /\ e.inuse = FALSE /\ e.size = PoolLen /\ e.offset = PoolOffset
      BY <2>1, NewMsgSane, ZenonT(30)
    <2> QED BY <2>2, <2>3, <2>4
  <1>3. w.msg = msg /\ w.cache = cache /\ w.sock = sock /\ w.out = {} /\ w.up = <<>>
        /\ w = [msg |-> msg, cache |-> cache, sock |-> sock, out |-> {}, up |-> <<>>]
    BY DEF World
  <1> HIDE DEF a, b, e, w
  <1>4. /\ msg \in [Ids -> Message]
        /\ \A i \in Ids : Sane(msg[i]) /\ msg[i].inuse = FALSE
        /\ \A i \in Pool : msg[i].size = PoolLen /\ msg[i].offset = PoolOffset
        /\ msg[Request].size = 60 /\ msg[Request].offset = 14
    <2>1. a \in Message /\ b \in Message /\ e \in Message
      BY <1>2 DEF Sane
    <2> QED BY <1>1, <1>2, <2>1, IdsType
  <1>5. /\ cache \in [Hop -> EntryRec]
        /\ \A h \in Hop : Len(cache[h].mq) = 0 /\ DOMAIN cache[h].mq = {} /\ Queue(cache, h) = {}
    <2>1. <<>> \in Seq(Pool) /\ Len(<<>>) = 0 /\ DOMAIN <<>> = {}
      BY LenProperties
    <2>2. \A h \in Hop : cache[h] = [state |-> "IDLE", mq |-> <<>>]
      BY <1>1
    <2>3. [state |-> "IDLE", mq |-> <<>>] \in EntryRec
      BY <2>1 DEF EntryRec
    <2> QED BY <1>1, <2>1, <2>2, <2>3 DEF Queue
  <1>6. Queued(cache) = {}
    BY <1>5 DEF Queued
  <1>7. sock \in [Sock -> SocketRec] /\ \A s \in Sock : sock[s].loc = 0
    <2>1. Closed \in SocketRec /\ Closed.loc = 0
      BY DEF Closed, SocketRec, State
    <2> QED BY <1>1, <2>1
  <1>8. w \in Worlds
    BY <1>3, <1>4, <1>5, <1>7, EmptyType DEF Worlds
  <1>9. Lines(cache)
    BY <1>5, StackAssumption DEF Lines
  <1>10. Memory(w.msg, cache, {})
    BY <1>3, <1>4, <1>6 DEF Memory
  <1>11. Held(w.msg, cache, NULL, cache)
    BY <1>5 DEF Held
  <1>12. Good(w, cache, {}, NULL, cache)
    BY <1>3, <1>7, <1>8, <1>9, <1>10, <1>11 DEF Good
  <1> QED BY <1>1, <1>12 DEF StackInv, w

(* What is known of a step that is about p, or about nothing.                  *)
Peers(p) == \A s \in Sock : Connected(sock[s]) /\ Connected(sock'[s]) =>
               /\ sock'[s].loc = sock[s].loc /\ sock'[s].rem = sock[s].rem
               /\ sock'[s].ip = sock[s].ip
Taken(p) == \/ up' = <<>>
            \/ /\ up' = << <<p.n, "data">> >>
               /\ \E s \in Sock : Connected(sock[s]) /\ sock[s].loc = p.loc /\ sock[s].ip = p.ip
Step(p) == /\ StackInv' /\ sock' \in [Sock -> SocketRec]
           /\ \A f \in out' : f \in Datagrams(p)
           /\ \A h \in Hop : \A i \in Waiting(h)' \ Waiting(h) :
                 msg'[i].body \in Fields /\ Ready(msg'[i], h, p)
           /\ Peers(p) /\ Taken(p)
           /\ heard' # NULL => heard' = p
           /\ up' # <<>> => heard' = p

(* Steps that leave the connections alone.                                     *)
LEMMA QuietStep ==
  ASSUME NEW v, Good(v, v.cache, {}, NULL, cache), Becomes(v), heard' = NULL,
         v.up = <<>>, v.sock = sock
  PROVE  Step(NULL)
  <1> DEFINE p == NULL
  <1>1. Ended(v, p)
    BY EndGood
  <1>2. heard' = p
    OBVIOUS
  <1> HIDE DEF p
  <1>3. up' = <<>> /\ sock' = sock
    BY <1>1 DEF Ended
  <1>4. Peers(p) /\ Taken(p)
    BY <1>3 DEF Peers, Taken
  <1>5. Step(p)
    BY <1>1, <1>2, <1>3, <1>4 DEF Step, Ended
  <1> QED BY <1>5 DEF p

LEMMA HearStep ==
  ASSUME StackInv, NEW f, IpFrame(f[2], f[1]), Hear(f)
  PROVE  Step(f[1])
  <1> DEFINE p == f[1]
             g == f[2]
             w == Arrived(g)
             v == EtherUp(w)
             type == "IP"
             hd == << <<2, "IP">> >>
  <1>1. IpFrame(g, p)
    OBVIOUS
  <1>2. Becomes(v) /\ heard' = IF out' = {} /\ up' = <<>> /\ msg' = msg THEN NULL ELSE p
    BY DEF Hear
  <1> HIDE DEF p, g
  <1>3. PICK rest : /\ g = << <<2, "IP">> >> \o rest /\ rest \in Fields
                    /\ \E nine, opts, payload, pad : DatagramFrom(p, rest, nine, opts, payload, pad)
    BY <1>1 DEF IpFrame
  <1>4. PICK nine, opts, payload, pad : DatagramFrom(p, rest, nine, opts, payload, pad)
    BY <1>3
  <1>5. Framed(w, p, cache, "IP", hd, rest) /\ w.sock = sock /\ w.up = <<>>
    <2>1. "IP" \in Value
      BY DEF Value, Word
    <2> QED BY <1>3, <2>1, ArrivedIs
  <1> HIDE DEF w, hd
  <1>6. Good(v, v.cache, {}, p, cache) /\ Upward(w, v, p)
    BY <1>4, <1>5, EtherUpIp
  <1> HIDE DEF v
  <1>7. Ended(v, p)
    BY <1>2, <1>6, EndGood
  <1>8. sock' = v.sock /\ up' = v.up
    BY <1>7 DEF Ended
  <1>9. Peers(p)
    BY <1>5, <1>6, <1>8 DEF Peers, Upward
  <1>10. Taken(p)
    BY <1>5, <1>6, <1>8 DEF Taken, Upward
  <1>11. (heard' # NULL => heard' = p) /\ (up' # <<>> => heard' = p)
    BY <1>2
  <1>12. Step(p)
    BY <1>7, <1>9, <1>10, <1>11 DEF Step, Ended
  <1> QED BY <1>12 DEF p

LEMMA HearArpStep ==
  ASSUME StackInv, HearArp
  PROVE  Step(NULL)
  <1>1. PICK g \in ArpFrames : Becomes(EtherUp(Arrived(g))) /\ heard' = NULL
    BY DEF HearArp
  <1> DEFINE w == Arrived(g)
             v == EtherUp(w)
             hd == << <<2, "ARP">> >>
  <1>2. PICK rest : /\ g = << <<2, "ARP">> >> \o rest /\ rest \in Fields
                    /\ Size(rest) >= 28 /\ Len(rest) >= 7 /\ rest[7][2] \in Hop
    BY ArpFramesAre DEF ArpFrame
  <1>3. Framed(w, NULL, cache, "ARP", hd, rest) /\ w.sock = sock /\ w.up = <<>>
    <2>1. "ARP" \in Value
      BY DEF Value, Word
    <2> QED BY <1>2, <2>1, ArrivedIs
  <1>4. Becomes(v) /\ heard' = NULL
    BY <1>1
  <1> HIDE DEF w, hd
  <1>5. Good(v, v.cache, {}, NULL, cache) /\ v.sock = w.sock /\ v.up = w.up
    BY <1>2, <1>3, EtherUpArp
  <1> HIDE DEF v
  <1> QED BY <1>3, <1>4, <1>5, QuietStep

LEMMA OpenPassiveStep ==
  ASSUME StackInv, NEW s \in Sock, OpenPassive(s)
  PROVE  Step(NULL)
  <1> DEFINE w == World
             p == NULL
             y == [sock[s] EXCEPT !.state = "LISTEN", !.loc = ListPort(s)]
             v == [w EXCEPT !.sock[s] = y]
             c == cache
  <1>1. /\ Good(w, c, {}, p, c) /\ w.cache = cache /\ w.msg = msg
        /\ w.sock = sock /\ w.up = <<>>
    BY WorldGood
  <1>2. sock \in [Sock -> SocketRec]
    BY <1>1, GoodIs
  <1>3. y \in SocketRec /\ y.state = "LISTEN"
    <2>1. sock[s] \in SocketRec
      BY <1>2
    <2>2. ListPort(s) \in Port /\ "LISTEN" \in State
      BY DEF Port, State
    <2> QED BY <2>1, <2>2 DEF SocketRec
  <1>4. Becomes(v) /\ heard' = NULL
    <2>1. NextState("CLOSED", "OPEN_PASSIVE") = "LISTEN"
      <3> DEFINE S == EdgeOf("CLOSED", "OPEN_PASSIVE")
                 e == CHOOSE x \in S : TRUE
      <3>1. <<"CLOSED", "OPEN_PASSIVE", "NULL", "LISTEN">> \in S
        BY DEF EdgeOf, Edges
      <3>2. e \in S
        BY <3>1
      <3>3. e \in Edges /\ e[1] = "CLOSED" /\ e[2] = "OPEN_PASSIVE"
        BY <3>2 DEF EdgeOf
      <3>4. NextState("CLOSED", "OPEN_PASSIVE") = e[4]
        BY <3>1 DEF NextState
      <3> HIDE DEF e
      <3>5. e[4] = "LISTEN"
        BY <3>3 DEF Edges
      <3> QED BY <3>4, <3>5
    <2>2. [World EXCEPT !.sock[s].state = "LISTEN", !.sock[s].loc = ListPort(s)] = v
      BY <1>2 DEF World
    <2> QED BY <2>1, <2>2 DEF OpenPassive
  <1> HIDE DEF w, p, y, c
  <1>5. /\ Good(v, c, {}, p, c) /\ v.cache = w.cache /\ v.up = w.up /\ v.sock[s] = y
        /\ \A t \in Sock : t # s => v.sock[t] = w.sock[t]
    BY <1>1, <1>3, SocketGood
  <1> HIDE DEF v
  <1>6. Ended(v, p)
    <2>1. Good(v, v.cache, {}, p, cache)
      BY <1>1, <1>5 DEF c
    <2> QED BY <1>4, <2>1, EndGood
  <1>7. up' = <<>> /\ sock' = v.sock
    BY <1>1, <1>5, <1>6 DEF Ended
  <1>8. Peers(p) /\ Taken(p)
    BY <1>1, <1>3, <1>5, <1>7 DEF Peers, Taken, Connected
  <1>9. Step(p)
    BY <1>4, <1>6, <1>7, <1>8 DEF Step, Ended, p
  <1> QED BY <1>9 DEF p

LEMMA SockSendStep ==
  ASSUME StackInv, NEW s \in Sock, SockSend(s)
  PROVE  Step(NULL)
  <1> DEFINE w == World
             p == NULL
             n == IF sock[s].state = "ESTABLISHED" THEN PoolLen - PoolOffset ELSE 0
             v == TxProcess(w, s, n)
  <1>1. /\ Good(w, cache, {}, p, cache) /\ w.cache = cache /\ w.sock = sock /\ w.up = <<>>
    BY WorldGood
  <1>2. n \in Nat /\ n <= PoolLen - PoolOffset
    BY StackAssumption
  <1>3. Becomes(v) /\ heard' = NULL
    BY DEF SockSend
  <1>4. Replying(w, s, p)
    BY DEF Replying
  <1> HIDE DEF w, n, p
  <1>5. Good(v, v.cache, {}, p, cache) /\ v.sock = w.sock /\ v.up = w.up
    <2> DEFINE H == {}
               d == cache
    <2>1. Good(w, w.cache, H, p, d) /\ Request \notin H
      BY <1>1
    <2> HIDE DEF H, d
    <2>2. Good(v, v.cache, H, p, d) /\ v.sock = w.sock /\ v.up = w.up
      BY <1>2, <1>4, <2>1, TxProcessGood, SMTT(30)
    <2> QED BY <2>2 DEF H, d
  <1> HIDE DEF v
  <1> QED BY <1>1, <1>3, <1>5, QuietStep DEF p

LEMMA RetryStep ==
  ASSUME StackInv, NEW h \in Hop, Retry(h)
  PROVE  Step(NULL)
  <1> DEFINE w == World
             v == ArpSend(w, "broadcast", "REQUEST", h)
             p == NULL
  <1>1. /\ Good(w, cache, {}, p, cache) /\ w.cache = cache /\ w.sock = sock /\ w.up = <<>>
    BY WorldGood
  <1>2. Becomes(v) /\ heard' = NULL
    BY DEF Retry
  <1>3. "broadcast" \in Value /\ "REQUEST" \in Value /\ h \in Value
    BY DEF Value, Word
  <1> HIDE DEF w, p
  <1>4. Good(v, cache, {}, p, cache) /\ Stays(w, v)
    <2> DEFINE H == {}
    <2>1. Good(w, cache, H, p, cache) /\ Request \notin H
      BY <1>1
    <2> HIDE DEF H
    <2>2. Good(v, cache, H, p, cache) /\ Stays(w, v)
      BY <1>3, <2>1, ArpSendGood
    <2> QED BY <2>2 DEF H
  <1> HIDE DEF v
  <1> QED BY <1>1, <1>2, <1>4, QuietStep DEF p, Stays

LEMMA GiveUpStep ==
  ASSUME StackInv, NEW h \in Hop, GiveUp(h)
  PROVE  Step(NULL)
  <1> DEFINE w == World
             p == NULL
             H == {}
             q == cache[h].mq
             c == cache
             e == [state |-> "IDLE", mq |-> <<>>]
             b == [c EXCEPT ![h] = e]
             u == FreeAll(w, q)
             v == [u EXCEPT !.cache = b]
             G == H \cup Queue(c, h)
  <1>1. /\ Good(w, c, H, p, c) /\ w.cache = c /\ w.sock = sock /\ w.up = <<>>
    BY WorldGood
  <1>2. Becomes([u EXCEPT !.cache[h] = e]) /\ heard' = NULL
    BY DEF GiveUp
  <1> HIDE DEF w, p, H, c
  <1>3. b \in [Hop -> EntryRec] /\ Good(w, b, G, p, c)
    <2>1. Good(w, w.cache, H, p, c)
      BY <1>1
    <2>2. "IDLE" \in {"IDLE", "WAITING", "BOUND"}
      OBVIOUS
    <2>3. LET x == [w.cache EXCEPT ![h] = [state |-> "IDLE", mq |-> <<>>]]
          IN  x \in [Hop -> EntryRec] /\ Good(w, x, H \cup Queue(w.cache, h), p, c)
      BY <2>1, <2>2, EmptyGood
    <2> QED BY <1>1, <2>3
  <1>4. Emptied(w, c, H, h)
    BY <1>1, EmptiedIs
  <1>5. /\ q \in Seq(Pool) /\ Apart(q) /\ \A k \in 1..Len(q) : q[k] \in G
        /\ G \ Elements(q, Len(q)) = H
    BY <1>4 DEF Emptied, Sendable, c
  <1> HIDE DEF q, b, G, u
  <1>6. Good(u, b, H, p, c) /\ Stays(w, u)
    <2>1. Good(u, b, G \ Elements(q, Len(q)), p, c) /\ Stays(w, u)
      BY <1>3, <1>5, FreeAllGood DEF u
    <2> QED BY <1>5, <2>1
  <1>7. /\ Good(v, b, H, p, c) /\ v.cache = b /\ v.sock = u.sock /\ v.up = u.up
    BY <1>3, <1>6, RecacheGood
  <1>8. [u EXCEPT !.cache[h] = e] = v
    <2>1. u \in Worlds /\ u.cache = c
      BY <1>1, <1>6 DEF Good, Stays
    <2> QED BY <2>1 DEF Worlds, b
  <1>9. Becomes(v)
    BY <1>2, <1>8
  <1> HIDE DEF v
  <1>10. Good(v, v.cache, {}, NULL, cache) /\ v.up = <<>> /\ v.sock = sock
    BY <1>1, <1>6, <1>7 DEF Stays, H, p, c
  <1> QED BY <1>2, <1>9, <1>10, QuietStep

LEMMA FlushStep ==
  ASSUME StackInv, NEW h \in Hop, Flush(h)
  PROVE  Step(NULL)
  <1> DEFINE w == World
             v == [w EXCEPT !.cache[h].state = "IDLE"]
             p == NULL
  <1>1. /\ Good(w, cache, {}, p, cache) /\ w.cache = cache /\ w.sock = sock /\ w.up = <<>>
    BY WorldGood
  <1>2. Becomes(v) /\ heard' = NULL
    BY DEF Flush
  <1> HIDE DEF w, p
  <1>3. Good(v, v.cache, {}, p, cache) /\ v.sock = w.sock /\ v.up = w.up
    <2> DEFINE H == {}
               d == cache
               st == "IDLE"
    <2>1. Good(w, w.cache, H, p, d) /\ st \in States
      BY <1>1 DEF States
    <2>2. v = Restated(w, h, st)
      BY DEF Restated
    <2> HIDE DEF H, d, st, v
    <2>3. Good(v, v.cache, H, p, d) /\ v.sock = w.sock /\ v.up = w.up
      BY <2>1, <2>2, RestateGood
    <2> QED BY <2>3 DEF H, d
  <1> HIDE DEF v
  <1> QED BY <1>1, <1>2, <1>3, QuietStep DEF p

(* An ICMP message of fewer than two bytes: nothing changes but that the       *)
(* program panics.                                                             *)
Halts(w, v) == /\ v.msg \in [Ids -> Message] /\ v.msg[Frame].ok = FALSE /\ Others(w, v, Frame)
               /\ Stays(w, v) /\ v.out = w.out

LEMMA IcmpUpShort ==
  ASSUME NEW w, NEW p, NEW d, NEW hd, NEW payload, Good(w, w.cache, {Frame}, p, d),
         Begins(w.msg[Frame], hd, payload), Len(hd) = 1, hd[1][1] = 4, Size(payload) < 2
  PROVE  Halts(w, IcmpUp(w))
  <1> DEFINE H == {Frame}
             c == w.cache
             o == w.msg[Frame]
             four == <<4>>
             r == Pop(o, four)
             m == Read(r, 2)
             v == Keep(w, Frame, m)
  <1>0. m.len < 2 => IcmpUp(w) = v
    BY DEF IcmpUp
  <1>1. Good(w, c, H, p, d) /\ Frame \in H /\ Begins(o, hd, payload) /\ hd \in Fields
    BY DEF Begins
  <1>2. Live(o) /\ Frame \in Ids
    <2> HIDE DEF c, H
    <2> QED BY <1>1, InHand
  <1>3. Len(four) = 1 /\ four[1] = 4
    OBVIOUS
  <1>w. w \in Worlds /\ w.msg \in [Ids -> Message]
    <2> HIDE DEF c, H
    <2> QED BY <1>1, GoodIs
  <1> HIDE DEF H, c, o, four, v
  <1>4. Left(o, r, hd, payload)
    <2>1. \A j \in 1..Len(hd) : hd[j][1] = four[j]
      BY <1>3
    <2> QED BY <1>1, <1>2, <1>3, <2>1, PopLive
  <1> HIDE DEF r
  <1>5. r \in Message /\ r.len < 2 /\ r.len \in Nat
    <2>1. Live(r) /\ r.len = Size(payload)
      BY <1>4 DEF Left
    <2>2. r \in Message /\ r.len \in Nat
      BY <2>1, LiveType
    <2> QED BY <2>1, <2>2
  <1>6. m.len = r.len /\ m.ok = FALSE /\ m \in Message
    <2> DEFINE ok == r.ok /\ r.inuse /\ r.len >= 2
    <2>1. ok = FALSE
      BY <1>5
    <2>2. m = [r EXCEPT !.ok = ok]
      BY DEF Read
    <2> HIDE DEF ok, m
    <2> QED BY <1>5, <2>1, <2>2 DEF Message
  <1>7. IcmpUp(w) = v
    BY <1>0, <1>5, <1>6
  <1> HIDE DEF m
  <1>8. /\ v.msg = [w.msg EXCEPT ![Frame] = m] /\ v.cache = w.cache /\ v.sock = w.sock
        /\ v.up = w.up /\ v.out = w.out
    BY <1>w DEF v, Keep, Worlds
  <1>9. Halts(w, v)
    BY <1>2, <1>6, <1>8, <1>w DEF Halts, Others, Stays
  <1> QED BY <1>7, <1>9

ShortIp(body, nine, opts, payload, pad) ==
    /\ Parted(body, nine, opts, payload, pad) /\ Measured(nine, opts, payload)
    /\ nine[4][2] = FALSE /\ nine[6][2] = "ICMP" /\ nine[7][2] = TRUE /\ Size(payload) < 2

LEMMA IpUpShort ==
  ASSUME NEW w, NEW p, NEW d, NEW nine, NEW opts, NEW payload, NEW pad,
         Good(w, w.cache, {Frame}, p, d), ShortIp(w.msg[Frame].body, nine, opts, payload, pad)
  PROVE  Halts(w, IpUp(w))
  <1> DEFINE H == {Frame}
             c == w.cache
             m == w.msg[Frame]
             r == Payload(m)
             src == Val(m, 8)
             hd == << <<4, src>> >>
             q == Push(r, hd)
             t == Keep(w, Frame, q)
             icmp == IpOk(m) /\ Val(m, 6) = "ICMP"
  <1>0. icmp => IpUp(w) = IcmpUp(t)
    BY DEF IpUp
  <1>1. /\ Good(w, c, H, p, d) /\ Frame \in H
        /\ Parted(m.body, nine, opts, payload, pad) /\ Measured(nine, opts, payload)
    BY DEF ShortIp
  <1>2. Live(m) /\ Frame \in Ids
    <2> HIDE DEF c, H
    <2> QED BY <1>1, InHand
  <1> HIDE DEF c, H, t, q, r
  <1>3. \A k \in 1..9 : Val(m, k) = nine[k][2]
    BY <1>1, HeaderVals
  <1>4. src = nine[8][2] /\ src \in Value
    BY <1>1, <1>3 DEF Measured, Value
  <1>5. m.len = 20 + Size(opts) + Size(payload) + Size(pad)
        /\ Size(opts) \in Nat /\ Size(payload) \in Nat /\ Size(pad) \in Nat
    <2> DEFINE rest == opts \o payload
               fs == nine \o rest
    <2>1. /\ nine \in Fields /\ Size(nine) = 20 /\ opts \in Fields /\ payload \in Fields
          /\ pad \in Fields /\ m.body = fs \o pad
      BY <1>1 DEF Parted, HeaderIs
    <2>2. rest \in Fields /\ Size(rest) = Size(opts) + Size(payload)
      BY <2>1, SumConcat
    <2> HIDE DEF rest
    <2>3. fs \in Fields /\ Size(fs) = Size(nine) + Size(rest)
      BY <2>1, <2>2, SumConcat
    <2> HIDE DEF fs
    <2>4. Size(m.body) = Size(fs) + Size(pad)
      BY <2>1, <2>3, SumConcat
    <2>5. Size(opts) \in Nat /\ Size(payload) \in Nat /\ Size(pad) \in Nat
      BY <2>1, SumType
    <2>6. m.len = Size(m.body)
      BY <1>2, LiveType
    <2> QED BY <2>1, <2>2, <2>3, <2>4, <2>5, <2>6
  <1>6. icmp
    <2>1. /\ Val(m, 1) = 20 + Size(opts) /\ Val(m, 2) = 20 + Size(opts) + Size(payload)
          /\ Val(m, 4) = FALSE /\ Val(m, 6) = "ICMP" /\ Val(m, 7) = TRUE
      BY <1>1, <1>3 DEF Measured, ShortIp
    <2> HIDE DEF m
    <2> QED BY <1>5, <2>1 DEF IpOk
  <1> HIDE DEF m
  <1>7. Live(r) /\ Alike(m, r) /\ r.body = payload /\ r.ptr >= 20 /\ r.ptr \in Nat
    <2>1. LET y == Payload(m)
          IN  Live(y) /\ Alike(m, y) /\ y.body = payload /\ y.ptr >= 20
      BY <1>1, <1>2, PayloadIs
    <2>2. Live(r) /\ Alike(m, r) /\ r.body = payload /\ r.ptr >= 20
      BY <2>1 DEF r
    <2> QED BY <2>2, LiveType
  <1> HIDE DEF src
  <1>8. hd \in Fields /\ Len(hd) = 1 /\ Size(hd) = 4 /\ hd[1][1] = 4
    BY <1>4, OneField
  <1> HIDE DEF hd
  <1>9. Live(q) /\ Alike(r, q) /\ q.body = hd \o payload
    <2>1. Size(hd) <= r.ptr
      BY <1>7, <1>8
    <2>2. Live(q) /\ Alike(r, q) /\ q.body = hd \o r.body /\ q.ptr = r.ptr - Size(hd)
      BY <1>7, <1>8, <2>1, PushLive DEF q
    <2> QED BY <1>7, <2>2
  <1>10. /\ Good(t, c, H, p, d) /\ t.msg[Frame] = q /\ Others(w, t, Frame)
         /\ Stays(w, t) /\ t.out = w.out
    <2>1. Alike(w.msg[Frame], q)
      BY <1>7, <1>9 DEF Alike, m
    <2> QED BY <1>1, <1>9, <2>1, KeepGood DEF t
  <1>11. Good(t, t.cache, {Frame}, p, d)
    BY <1>10 DEF Stays, c, H
  <1>12. Begins(t.msg[Frame], hd, payload) /\ Size(payload) < 2
    BY <1>1, <1>8, <1>9, <1>10 DEF Begins, Parted, ShortIp
  <1>13. Halts(t, IcmpUp(t))
    BY <1>8, <1>11, <1>12, IcmpUpShort
  <1> QED BY <1>0, <1>6, <1>10, <1>13 DEF Halts, Others, Stays

ShortFrame(f) == \E nine, opts, payload, pad, rest :
                    f = << <<2, "IP">> >> \o rest /\ rest \in Fields
                    /\ ShortIp(rest, nine, opts, payload, pad)

LEMMA ShortFramesAre ==
  ASSUME NEW x \in ShortFrames
  PROVE  x[1] = NULL /\ ShortFrame(x[2])
  <1> DEFINE Carried(ip, hlen, payload) == Datagram(ip, hlen, FALSE, TRUE, "ICMP", payload)
             one == << <<1, "request">> >>
  <1>0. ShortFrames = {<<NULL, Carried(ip, hlen, payload)>> :
                          ip \in Host, hlen \in {20, 24}, payload \in {<<>>, one}}
    BY DEF ShortFrames
  <1> HIDE DEF Carried, one
  <1>1. PICK ip \in Host, hlen \in {20, 24}, payload \in {<<>>, one} :
            x = <<NULL, Carried(ip, hlen, payload)>>
    BY <1>0
  <1>2. one \in Fields /\ Size(one) = 1
    <2>1. "request" \in Value /\ 1 \in Nat \ {0}
      BY DEF Value, Word
    <2> QED BY <2>1, OneField DEF one
  <1>3. payload \in Fields /\ Size(payload) < 2
    BY <1>2, EmptyType
  <1> DEFINE f == Carried(ip, hlen, payload)
             frag == FALSE
             good == TRUE
             protocol == "ICMP"
  <1>4. /\ frag \in Value /\ good \in Value /\ protocol \in {"TCP", "ICMP", "UDP"}
        /\ hlen \in Nat /\ hlen >= 20
        /\ f = Datagram(ip, hlen, frag, good, protocol, payload)
    BY DEF Value, Carried
  <1>e. frag = FALSE /\ good = TRUE /\ protocol = "ICMP"
    OBVIOUS
  <1> HIDE DEF f, frag, good, protocol
  <1>5. PICK rest, nine, opts, pad :
            Parts(f, rest, nine, opts, pad, ip, hlen, frag, good, protocol, payload)
    BY <1>3, <1>4, DatagramParts
  <1>6. nine[4][2] = frag /\ nine[6][2] = protocol /\ nine[7][2] = good
    BY <1>5 DEF Parts, NineParts
  <1>7. ShortIp(rest, nine, opts, payload, pad)
    BY <1>3, <1>4, <1>5, <1>6, <1>e DEF Parts, ShortIp
  <1>8. ShortFrame(f)
    BY <1>5, <1>7 DEF ShortFrame, Parts
  <1> QED BY <1>1, <1>8 DEF f

LEMMA EtherUpShort ==
  ASSUME NEW w, NEW p, NEW d, NEW hd, NEW rest, Framed(w, p, d, "IP", hd, rest),
         NEW nine, NEW opts, NEW payload, NEW pad, ShortIp(rest, nine, opts, payload, pad)
  PROVE  Halts(w, EtherUp(w))
  <1> DEFINE o == w.msg[Frame]
             u == Keep(w, Frame, Pop(o, <<2>>))
             v == EtherUp(w)
             type == "IP"
  <1>1. Framed(w, p, d, type, hd, rest) /\ type = "IP"
    OBVIOUS
  <1> HIDE DEF type
  <1>2. /\ Good(u, u.cache, {Frame}, p, d) /\ u.msg[Frame].body = rest
        /\ Val(w.msg[Frame], 1) = type
    <2>1. Typed(w, u, p, d, type, rest)
      BY <1>1, TypeOff
    <2> HIDE DEF u
    <2> QED BY <2>1 DEF Typed
  <1>3. v = IpUp(u)
    BY <1>1, <1>2 DEF EtherUp
  <1>4. Others(w, u, Frame) /\ Stays(w, u) /\ u.out = w.out
    <2> DEFINE m == Pop(o, <<2>>)
    <2>1. w \in Worlds
      BY <1>1 DEF Framed, Good
    <2> HIDE DEF m
    <2>2. u = Keep(w, Frame, m)
      BY DEF m
    <2> QED BY <2>1, <2>2 DEF Keep, Worlds, Others, Stays
  <1> HIDE DEF u, v
  <1>5. Halts(u, v)
    BY <1>2, <1>3, IpUpShort
  <1> QED BY <1>4, <1>5 DEF Halts, Others, Stays, v

(* What holds in every state, and between steps while the program runs.        *)
Sound == TypeOK /\ PoolAccount /\ WellFormed

LEMMA HearShortHalts ==
  ASSUME StackInv, HearShort
  PROVE  /\ msg' \in [Ids -> Message] /\ \A i \in Pool \cup {Request} : msg'[i] = msg[i]
         /\ msg'[Frame].ptr = 0 /\ MsgRoom(msg'[Frame]) = 0 /\ msg'[Frame].ok = FALSE
         /\ cache' = cache /\ sock' = sock /\ out' = {} /\ up' = <<>> /\ heard' = NULL
  <1>1. PICK f \in ShortFrames : Hear(f)
    BY DEF HearShort
  <1> DEFINE g == f[2]
             w == Arrived(g)
             v == EtherUp(w)
             p == NULL
             hd == << <<2, "IP">> >>
  <1>2. f[1] = NULL /\ ShortFrame(g)
    BY ShortFramesAre
  <1>3. Becomes(v) /\ heard' = NULL
    BY <1>1, <1>2 DEF Hear
  <1> HIDE DEF g, p
  <1>4. PICK nine, opts, payload, pad, rest :
            /\ g = << <<2, "IP">> >> \o rest /\ rest \in Fields
            /\ ShortIp(rest, nine, opts, payload, pad)
    BY <1>2 DEF ShortFrame
  <1>5. Framed(w, p, cache, "IP", hd, rest) /\ w.sock = sock /\ w.up = <<>>
    <2>1. "IP" \in Value
      BY DEF Value, Word
    <2> QED BY <1>4, <2>1, ArrivedIs
  <1>6. w.cache = cache /\ w.out = {} /\ \A i \in Pool \cup {Request} : w.msg[i] = msg[i]
    <2> DEFINE m == [ptr |-> 0, len |-> Size(g), body |-> g, size |-> Size(g), offset |-> 2,
                     inuse |-> TRUE, ok |-> msg[Frame].ok]
    <2>1. w = [World EXCEPT !.msg[Frame] = m] /\ World.msg = msg
          /\ World.cache = cache /\ World.out = {}
      BY DEF Arrived, World
    <2>2. World \in Worlds
      BY DEF StackInv, Good
    <2> DEFINE x == World
    <2>3. w = [x EXCEPT !.msg[Frame] = m] /\ x \in Worlds /\ x.msg = msg
          /\ x.cache = cache /\ x.out = {}
      BY <2>1, <2>2
    <2> HIDE DEF m, x, w
    <2> QED BY <2>3, IdsType DEF Worlds
  <1> HIDE DEF w, hd
  <1>7. Halts(w, v)
    BY <1>4, <1>5, EtherUpShort
  <1> HIDE DEF v
  <1> DEFINE o == v.msg[Frame]
             n == Returned(o)
  <1>8. n.ptr = 0 /\ n.len = 0 /\ n.size = 0 /\ n.ok = FALSE /\ n \in Message
    <2>1. o.ok = FALSE /\ o.inuse \in BOOLEAN
      BY <1>7, IdsType DEF Halts, Message
    <2>2. n = [NewMsg(0, 0) EXCEPT !.inuse = o.inuse, !.ok = o.ok]
      BY DEF Returned
    <2> DEFINE a == o.inuse
               b == o.ok
               y == NewMsg(0, 0)
    <2>3. n = [y EXCEPT !.inuse = a, !.ok = b] /\ a \in BOOLEAN /\ b = FALSE
      BY <2>1, <2>2
    <2>4. y = [ptr |-> 0, len |-> 0, body |-> <<>>, size |-> 0, offset |-> 0,
               inuse |-> FALSE, ok |-> TRUE]
      BY DEF NewMsg
    <2> HIDE DEF a, b, y, n
    <2>5. n = [ptr |-> 0, len |-> 0, body |-> <<>>, size |-> 0, offset |-> 0,
               inuse |-> a, ok |-> FALSE]
      BY <2>3, <2>4
    <2>6. a \in BOOLEAN /\ 0 \in Int /\ <<>> \in Fields
      BY <2>3, EmptyType
    <2> QED BY <2>5, <2>6 DEF Message
  <1>9. msg' = [v.msg EXCEPT ![Frame] = n] /\ cache' = v.cache /\ sock' = v.sock
        /\ out' = v.out /\ up' = v.up
    BY <1>3 DEF Becomes
  <1> HIDE DEF n
  <1>10. msg' \in [Ids -> Message] /\ msg'[Frame] = n
         /\ \A i \in Pool \cup {Request} : msg'[i] = msg[i]
    <2>1. \A i \in Pool \cup {Request} : i \in Ids \ {Frame}
      BY IdsType
    <2> QED BY <1>6, <1>7, <1>8, <1>9, <2>1, IdsType DEF Halts, Others
  <1>11. MsgRoom(msg'[Frame]) = 0
    BY <1>8, <1>10 DEF MsgRoom
  <1> QED BY <1>3, <1>5, <1>6, <1>7, <1>8, <1>9, <1>10, <1>11 DEF Halts, Stays

LEMMA NextStep ==
  ASSUME StackInv, Runs, ~HearShort
  PROVE  \E p : Step(p)
  <1>1. CASE HearArp
    BY <1>1, HearArpStep
  <1>2. CASE HearSegment
    <2>1. PICK f \in SegmentFrames : Hear(f)
      BY <1>2 DEF HearSegment
    <2> QED BY <2>1, SegmentFramesAre, HearStep
  <1>3. CASE HearEcho
    <2>1. PICK f \in EchoFrames : Hear(f)
      BY <1>3 DEF HearEcho
    <2> QED BY <2>1, EchoFramesAre, HearStep
  <1>4. CASE HearBad
    <2>1. PICK f \in BadFrames : Hear(f)
      BY <1>4 DEF HearBad
    <2>2. IpFrame(f[2], f[1])
      BY BadFramesAre
    <2> QED BY <2>1, <2>2, HearStep
  <1>5. ASSUME NEW s \in Sock, OpenPassive(s) \/ SockSend(s)
        PROVE  \E p : Step(p)
    BY <1>5, OpenPassiveStep, SockSendStep
  <1>6. ASSUME NEW h \in Hop, Retry(h) \/ GiveUp(h) \/ Flush(h)
        PROVE  \E p : Step(p)
    BY <1>6, RetryStep, GiveUpStep, FlushStep
  <1> QED BY <1>1, <1>2, <1>3, <1>4, <1>5, <1>6 DEF Runs

LEMMA SameInv ==
  ASSUME StackInv, UNCHANGED vars
  PROVE  StackInv'
  BY DEF StackInv, World, vars

LEMMA InvIs ==
  ASSUME StackInv
  PROVE  /\ \A i \in Ids : Sane(msg[i]) /\ msg[i].inuse \in BOOLEAN
         /\ \A i \in Ids : (msg[i].inuse = TRUE) <=> i \in Queued(cache)
         /\ msg \in [Ids -> Message] /\ Lines(cache) /\ cache \in [Hop -> EntryRec]
         /\ sock \in [Sock -> SocketRec]
  <1> DEFINE w == World
  <1>1. /\ Good(w, cache, {}, NULL, cache) /\ w.msg = msg /\ w.sock = sock
    BY WorldGood
  <1> HIDE DEF w
  <1>2. /\ w.msg \in [Ids -> Message] /\ cache \in [Hop -> EntryRec]
        /\ w.sock \in [Sock -> SocketRec]
        /\ \A i \in Ids : Sane(w.msg[i]) /\ w.msg[i].inuse \in BOOLEAN
    BY <1>1, GoodIs
  <1>3. Lines(cache) /\ \A i \in Ids : (w.msg[i].inuse = TRUE) <=> i \in Queued(cache)
    BY <1>1 DEF Good, Memory
  <1> QED BY <1>1, <1>2, <1>3

LEMMA SaneTypes ==
  ASSUME StackInv
  PROVE  TypeOK
  <1>1. DOMAIN msg = Ids
    BY InvIs
  <1>2. ASSUME NEW i \in Ids
        PROVE  msg[i].ptr >= 0 /\ MsgRoom(msg[i]) >= 0
    <2> DEFINE m == msg[i]
    <2>1. Sane(m)
      BY InvIs
    <2> HIDE DEF m
    <2>2. m.ptr \in Int /\ m.len \in Int /\ m.size \in Int
      BY <2>1 DEF Sane, Message
    <2>3. m.ptr >= 0 /\ MsgRoom(m) >= 0
      BY <2>1, <2>2 DEF Sane, MsgRoom
    <2> QED BY <2>3 DEF m
  <1>3. ASSUME NEW h \in Hop
        PROVE  /\ cache[h].state \in {"IDLE", "WAITING", "BOUND"}
               /\ cache[h].mq \in Seq(Pool) /\ Len(cache[h].mq) < Depth
    <2>1. cache[h] \in EntryRec /\ Lines(cache)
      BY InvIs
    <2> QED BY <2>1 DEF EntryRec, Lines
  <1>4. sock \in [Sock -> SocketRec]
    BY InvIs
  <1> QED BY <1>1, <1>2, <1>3, <1>4 DEF TypeOK, SocketRec

LEMMA SanePool ==
  ASSUME StackInv
  PROVE  PoolAccount
  <1>1. ASSUME NEW i \in Pool
        PROVE  msg[i].inuse <=> \E h \in Hop : i \in Waiting(h)
    <2>1. i \in Ids
      BY IdsType
    <2>2. /\ msg[i].inuse \in BOOLEAN /\ (msg[i].inuse = TRUE) <=> i \in Queued(cache)
      BY <2>1, InvIs
    <2>3. i \in Queued(cache) <=> \E h \in Hop : i \in Queue(cache, h)
      BY InvIs, QueuedIs
    <2> QED BY <2>2, <2>3 DEF Waiting, Queue
  <1>2. Lines(cache)
    BY InvIs
  <1> QED BY <1>1, <1>2 DEF PoolAccount, Lines

LEMMA Running ==
  ASSUME StackInv
  PROVE  ~Panicked /\ Sound /\ ~msg[Frame].inuse
  <1>1. ~Panicked
    <2> SUFFICES ASSUME NEW i \in DOMAIN msg PROVE msg[i].ok
      BY DEF Panicked
    <2>1. i \in Ids
      BY InvIs
    <2>2. Sane(msg[i])
      BY <2>1, InvIs
    <2> QED BY <2>2 DEF Sane
  <1>2. Sound
    BY SaneTypes, SanePool DEF Sound, StackInv, WellFormed
  <1>3. ~msg[Frame].inuse
    <2>1. Frame \notin Queued(cache) /\ Frame \in Ids
      BY InvIs, QueuedIs, IdsType
    <2>2. ~(msg[Frame].inuse = TRUE) /\ msg[Frame].inuse \in BOOLEAN
      BY <2>1, InvIs
    <2> QED BY <2>2
  <1> QED BY <1>1, <1>2, <1>3

LEMMA StopSound ==
  ASSUME StackInv, HearShort
  PROVE  Panicked' /\ Sound'
  <1>1. /\ msg' \in [Ids -> Message] /\ \A i \in Pool \cup {Request} : msg'[i] = msg[i]
        /\ msg'[Frame].ptr = 0 /\ MsgRoom(msg'[Frame]) = 0 /\ msg'[Frame].ok = FALSE
        /\ cache' = cache /\ sock' = sock /\ out' = {}
    BY HearShortHalts
  <1>2. TypeOK /\ PoolAccount /\ DOMAIN msg = Ids /\ DOMAIN msg' = Ids
    BY <1>1, Running, InvIs DEF Sound
  <1>3. Panicked'
    BY <1>1, <1>2, IdsType DEF Panicked
  <1>4. TypeOK'
    <2>1. ASSUME NEW i \in Ids PROVE msg'[i].ptr >= 0 /\ MsgRoom(msg'[i]) >= 0
      <3>1. CASE i = Frame
        BY <1>1, <3>1
      <3>2. CASE i # Frame
        <4>1. msg'[i] = msg[i]
          BY <1>1, <3>2 DEF Ids
        <4> QED BY <1>2, <4>1 DEF TypeOK
      <3> QED BY <3>1, <3>2
    <2>2. \A i \in DOMAIN msg' : msg'[i].ptr >= 0 /\ MsgRoom(msg'[i]) >= 0
      BY <1>2, <2>1
    <2> QED BY <1>1, <1>2, <2>2 DEF TypeOK
  <1>5. PoolAccount'
    BY <1>1, <1>2 DEF PoolAccount, Waiting
  <1>6. WellFormed'
    BY <1>1 DEF WellFormed
  <1> QED BY <1>3, <1>4, <1>5, <1>6 DEF Sound

(* While the program runs every message is sane between steps, those in use    *)
(* are the ones that wait for a hop, each once, and what waits is a datagram   *)
(* fit to be sent; when it has panicked it stands still.                       *)
Whole == StackInv \/ (Panicked /\ Sound)

LEMMA NextWhole ==
  ASSUME Whole, [Next]_vars
  PROVE  /\ Whole'
         /\ \/ UNCHANGED vars
            \/ StackInv /\ HearShort
            \/ StackInv /\ \E p : Step(p)
  <1>1. CASE UNCHANGED vars
    BY <1>1 DEF Whole, vars, StackInv, World, Panicked, Sound, TypeOK, PoolAccount, Waiting, WellFormed
  <1>2. CASE ~Panicked /\ Runs
    <2>1. StackInv
      BY <1>2 DEF Whole
    <2>2. CASE HearShort
      BY <2>1, <2>2, StopSound DEF Whole
    <2>3. CASE ~HearShort
      <3>1. PICK p : Step(p)
        BY <1>2, <2>1, <2>3, NextStep
      <3> QED BY <2>1, <3>1 DEF Step, Whole
    <2> QED BY <2>2, <2>3
  <1> QED BY <1>1, <1>2 DEF Next, Halted

THEOREM Invariance == Spec => []Whole
  <1>1. Init => Whole
    BY InitInv DEF Whole
  <1>2. Whole /\ [Next]_vars => Whole'
    BY NextWhole
  <1> QED BY <1>1, <1>2, PTL DEF Spec

LEMMA WholeSound ==
  ASSUME Whole
  PROVE  Sound /\ FrameFreed
  BY Running DEF Whole, FrameFreed

(* No message loses the room in front of its data or behind it, an entry's     *)
(* queue keeps within its depth, and a socket's record holds what it may.      *)
THEOREM Types == Spec => []TypeOK
  <1>1. Whole => TypeOK
    BY WholeSound DEF Sound
  <1> QED BY <1>1, Invariance, PTL

(* No handler panics in msg.c, takes off what its caller did not push, or      *)
(* touches a message it or another has freed, but icmp_up on a message of      *)
(* fewer than two bytes.                                                       *)
THEOREM PanicsOnShortIcmpOnly == Spec => NoPanic
  <1>1. Whole /\ [Next]_vars => [Panicked' => Panicked \/ HearShort \/ StackInv']_vars
    BY NextWhole DEF Step
  <1>2. StackInv => ~Panicked
    BY Running
  <1> QED BY <1>1, <1>2, Invariance, PTL DEF Spec, NoPanic

(* And there it does: nothing else changes, and the program stands still.      *)
THEOREM ShortIcmpHalts == Spec => [][HearShort => Panicked' /\ UNCHANGED <<cache, sock>>]_vars
  <1>1. Whole /\ [Next]_vars => [HearShort => Panicked' /\ UNCHANGED <<cache, sock>>]_vars
    <2> SUFFICES ASSUME Whole, Next, HearShort, ~UNCHANGED vars
                 PROVE  Panicked' /\ UNCHANGED <<cache, sock>>
      OBVIOUS
    <2>1. StackInv
      BY DEF Whole, Next, Halted
    <2> QED BY <2>1, StopSound, HearShortHalts
  <1> QED BY <1>1, Invariance, PTL DEF Spec

(* Every frame is free again when ether_idle is done with it.                  *)
THEOREM FrameIsFreed == Spec => []FrameFreed
  <1>1. Whole => FrameFreed
    BY WholeSound
  <1> QED BY <1>1, Invariance, PTL

(* A message of the pool is in use only while it waits for a hop, in one place *)
(* of one queue: no way through the stack loses one or frees it twice.         *)
THEOREM PoolAccounted == Spec => []PoolAccount
  <1>1. Whole => PoolAccount
    BY WholeSound DEF Sound
  <1> QED BY <1>1, Invariance, PTL

(* Every IP datagram that is sent has the length of its header, is sent to the *)
(* hop its destination is routed to, and has nothing left of the parameters.   *)
THEOREM SentWellFormed == Spec => []WellFormed
  <1>1. Whole => WellFormed
    BY WholeSound DEF Sound
  <1> QED BY <1>1, Invariance, PTL

LEMMA AnswerIs ==
  ASSUME NEW m, NEW h, NEW p, p # NULL, m.body \in Fields, Ready(m, h, p)
  PROVE  Answers(m.body, 9, p)
  <1> DEFINE e == EthHeader(h, "IP")
             b == m.body
             f == e \o b
  <1>1. f \in Datagrams(p) /\ b \in Seq(Field) /\ Len(b) \in Nat
    <2>1. b \in Fields
      OBVIOUS
    <2> HIDE DEF b
    <2>2. Len(b) \in Nat /\ b \in Seq(Field)
      BY <2>1, FieldsType DEF Fields
    <2> QED BY <2>2 DEF Ready, b
  <1>2. e = << e[1], e[2], e[3] >>
    BY DEF EthHeader
  <1> HIDE DEF e, b
  <1>3. Len(f) >= 13 /\ Answers(f, 12, p)
    BY <1>1 DEF Datagrams
  <1>4. Len(f) = 3 + Len(b) /\ f[12] = b[9] /\ f[13] = b[10]
    <2>1. Len(e) = 3
      BY <1>2
    <2> DEFINE x == <<e[1], e[2], e[3]>>
    <2>2. Len(x \o b) = 3 + Len(b) /\ \A k \in 4..(3 + Len(b)) : (x \o b)[k] = b[k - 3]
      BY <1>1
    <2>3. f = x \o b
      BY <1>2
    <2> HIDE DEF x, f
    <2>4. Len(f) = 3 + Len(b) /\ 12 \in 4..(3 + Len(b)) /\ 13 \in 4..(3 + Len(b))
      BY <1>1, <1>3, <2>2, <2>3
    <2> QED BY <2>2, <2>3, <2>4
  <1> QED BY <1>3, <1>4 DEF Answers, b

(* Whatever a step sends, or leaves waiting for ARP, because of a segment or   *)
(* an echo is for its sender, from the port it was sent to.                    *)
THEOREM AnswersTheSender == Spec => AnswersSender
  <1>1. Whole /\ [Next]_vars =>
          [heard' # NULL =>
             /\ \A f \in out' : Answers(f, 12, heard')
             /\ \A h \in Hop : \A i \in Waiting(h)' \ Waiting(h) :
                   Answers(msg'[i].body, 9, heard')]_vars
    <2> SUFFICES ASSUME Whole, [Next]_vars, ~UNCHANGED vars, heard' # NULL
                 PROVE  /\ \A f \in out' : Answers(f, 12, heard')
                        /\ \A h \in Hop : \A i \in Waiting(h)' \ Waiting(h) :
                              Answers(msg'[i].body, 9, heard')
      OBVIOUS
    <2>0. StackInv /\ \E p : Step(p)
      BY NextWhole, HearShortHalts
    <2>1. PICK p : Step(p)
      BY <2>0
    <2>2. heard' = p /\ p # NULL
      BY <2>1 DEF Step
    <2>3. \A f \in out' : Answers(f, 12, p)
      BY <2>1, <2>2 DEF Step, Datagrams
    <2>4. ASSUME NEW h \in Hop, NEW i \in Waiting(h)' \ Waiting(h)
          PROVE  Answers(msg'[i].body, 9, p)
      BY <2>1, <2>2, AnswerIs DEF Step
    <2> QED BY <2>2, <2>3, <2>4
  <1> QED BY <1>1, Invariance, PTL DEF Spec, AnswersSender

(* A terminal server is given the data of the segment and nothing else, and    *)
(* only from the peer of a connection.                                         *)
THEOREM PayloadTaken == Spec => PayloadOnly
  <1>1. Whole /\ [Next]_vars =>
          [up' # <<>> =>
             /\ up' = << <<heard'.n, "data">> >>
             /\ \E s \in Sock : /\ Connected(sock[s])
                                /\ <<sock[s].loc, sock[s].ip>> = <<heard'.loc, heard'.ip>>]_vars
    <2> SUFFICES ASSUME Whole, [Next]_vars, ~UNCHANGED vars, up' # <<>>
                 PROVE  /\ up' = << <<heard'.n, "data">> >>
                        /\ \E s \in Sock : /\ Connected(sock[s])
                                           /\ <<sock[s].loc, sock[s].ip>> = <<heard'.loc, heard'.ip>>
      OBVIOUS
    <2>0. StackInv /\ \E p : Step(p)
      BY NextWhole, HearShortHalts
    <2>1. PICK p : Step(p)
      BY <2>0
    <2>2. heard' = p /\ Taken(p)
      BY <2>1 DEF Step
    <2> QED BY <2>2 DEF Taken
  <1> QED BY <1>1, Invariance, PTL DEF Spec, PayloadOnly

(* A connection keeps its peer and its port from the first segment to the last. *)
THEOREM PeersKept == Spec => PeerKept
  <1>1. Whole /\ [Next]_vars =>
          [\A s \in Sock : Connected(sock[s]) /\ Connected(sock'[s]) =>
             [sock'[s] EXCEPT !.state = "-"] = [sock[s] EXCEPT !.state = "-"]]_vars
    <2> SUFFICES ASSUME Whole, [Next]_vars, ~UNCHANGED vars,
                        NEW s \in Sock, Connected(sock[s]), Connected(sock'[s])
                 PROVE  [sock'[s] EXCEPT !.state = "-"] = [sock[s] EXCEPT !.state = "-"]
      OBVIOUS
    <2>1. StackInv /\ (sock' = sock \/ \E p : Step(p))
      BY NextWhole, HearShortHalts
    <2>2. sock[s] \in SocketRec
      BY <2>1, InvIs
    <2>3. /\ sock'[s].loc = sock[s].loc /\ sock'[s].rem = sock[s].rem
          /\ sock'[s].ip = sock[s].ip /\ sock'[s] \in SocketRec
      <3>1. CASE sock' = sock
        BY <2>2, <3>1
      <3>2. CASE \E p : Step(p)
        BY <3>2 DEF Step, Peers
      <3> QED BY <2>1, <3>1, <3>2
    <2> DEFINE y == sock[s]
               z == sock'[s]
    <2>5. y \in SocketRec /\ z \in SocketRec /\ z.loc = y.loc /\ z.rem = y.rem /\ z.ip = y.ip
      BY <2>2, <2>3
    <2> HIDE DEF y, z
    <2>6. [z EXCEPT !.state = "-"] = [y EXCEPT !.state = "-"]
      BY <2>5 DEF SocketRec
    <2> QED BY <2>6 DEF y, z
  <1> QED BY <1>1, Invariance, PTL DEF Spec, PeerKept
===============================================================================
