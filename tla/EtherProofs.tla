------------------------------ MODULE EtherProofs ------------------------------
(* Proofs about Ether, for rings and frames of any size: types, and that       *)
(* transmission implements a channel, although the chip looks at the           *)
(* descriptors while the program writes them.                                  *)
EXTENDS Ether, SequenceTheorems, WellFoundedInduction, TLAPS

(* Who may touch what of the transmit ring.  The descriptor that comes next is *)
(* the program's (what ether_down asserts before it copies a message), and the *)
(* chip stands there or at the descriptor before, which it is given last.      *)
Owners == /\ tpc \notin {"flags"} => flags[twp] = "host"
          /\ tpc \in {"none", "wait"} => TRP \in {desc, twp}
          /\ tpc = "fill" => TRP = twp
          /\ tpc \in {"flags", "last"} => desc # twp /\ TRP = desc /\ flags[desc] = "host"

IInv == TypeOK /\ Owners

-------------------------------------------------------------------------------
(* Steps in a ring.                                                            *)
LEMMA Modulo ==
  ASSUME NEW n \in Nat, NEW b \in 0..n-1, NEW k \in 1..n-1
  PROVE  (b + k) % n \in 0..n-1 /\ (b + k) % n # b
  <1>1. CASE b + k < n
    <2>1. (b + k) % n = b + k
      BY <1>1
    <2> QED BY <1>1, <2>1
  <1>2. CASE b + k >= n
    <2>1. (b + k) % n = b + k - n
      BY <1>2
    <2> QED BY <1>2, <2>1
  <1> QED BY <1>1, <1>2

LEMMA InRing ==
  ASSUME NEW x \in Nat, NEW n \in Nat, n > 0
  PROVE  x % n \in 0..n-1
  OBVIOUS

LEMMA Blocks ==
  /\ RxBlocks \in Nat /\ RxBlocks > 0 /\ TxBlocks \in Nat /\ TxBlocks > 0
  /\ 0 \in RxBlock /\ 0 \in TxBlock
  /\ NONE \notin RxBlock
  /\ \A b \in RxBlock : \A k \in Nat : After(b, k) \in RxBlock
  /\ \A b, e \in RxBlock : Span(b, e) \in RxBlock
  /\ \A k \in 1..TxMax : \A b \in TxBlock : (b + k) % TxBlocks \in TxBlock \ {b}
  <1>1. /\ RxBlocks \in Nat /\ RxBlocks > 0 /\ TxBlocks \in Nat /\ TxBlocks > 0
        /\ 0 \in RxBlock /\ 0 \in TxBlock
        /\ NONE \notin RxBlock
    BY EtherAssumption DEF RxBlock, TxBlock
  <1>2. ASSUME NEW b \in RxBlock, NEW k \in Nat PROVE After(b, k) \in RxBlock
    <2>1. b + k \in Nat
      BY DEF RxBlock
    <2> QED BY <1>1, <2>1, InRing DEF After, RxBlock
  <1>3. ASSUME NEW b \in RxBlock, NEW e \in RxBlock PROVE Span(b, e) \in RxBlock
    <2>1. e + RxBlocks - b \in Nat
      BY <1>1 DEF RxBlock
    <2> QED BY <1>1, <2>1, InRing DEF Span, RxBlock
  <1>4. ASSUME NEW k \in 1..TxMax, NEW b \in TxBlock
        PROVE  (b + k) % TxBlocks \in TxBlock \ {b}
    <2>1. k \in 1..TxBlocks-1
      BY EtherAssumption
    <2> QED BY <1>1, <2>1, Modulo DEF TxBlock
  <1> QED BY <1>1, <1>2, <1>3, <1>4

-------------------------------------------------------------------------------
(* Types, one part of the state at a time.                                     *)
RxType == /\ mem \in [RxBlock -> [kind : Kind, np : RxBlock, inuse : BOOLEAN, load : Contents]]
          /\ RWP \in RxBlock /\ RRP \in RxBlock /\ rrp \in RxBlock /\ rwp \in RxBlock
          /\ pc \in PC
          /\ frame \in RxBlock \cup {NONE}
          /\ frame # NONE <=> pc \in {"up", "bump"}
          /\ wrap \in Contents
TxType == /\ flags \in [TxBlock -> {"host", "emac", "junk"}]
          /\ TRP \in TxBlock /\ twp \in TxBlock /\ desc \in TxBlock
          /\ tpc \in TPC
          /\ sent \in Contents
LinkType == link \in BOOLEAN /\ timer \in BOOLEAN

LEMMA TypeSplit == TypeOK <=> RxType /\ TxType /\ LinkType
  BY DEF TypeOK, RxType, TxType, LinkType

LEMMA InitInv == Init => IInv
  <1> SUFFICES ASSUME Init PROVE IInv
    OBVIOUS
  <1>1. RxType
    BY Blocks DEF Init, RxType, Data, Kind, Contents, PC
  <1>2. TxType /\ LinkType
    BY Blocks DEF Init, TxType, LinkType, Contents, TPC
  <1>3. Owners
    BY Blocks DEF Init, Owners
  <1> QED BY <1>1, <1>2, <1>3, TypeSplit DEF IInv

LEMMA WritesType ==
  ASSUME RxType, NEW k \in Nat, NEW kind \in Kind, NEW l \in Contents, Writes(k, kind, l)
  PROVE  RxType'
  <1> DEFINE Block == [kind : Kind, np : RxBlock, inuse : BOOLEAN, load : Contents]
  <1>1. [kind |-> kind, np |-> After(RWP, k), inuse |-> TRUE, load |-> l] \in Block
    BY Blocks DEF RxType
  <1>2. Data(l) \in Block
    BY Blocks DEF Data, Kind
  <1>3. mem' \in [RxBlock -> Block]
    <2> HIDE DEF Block
    <2> QED BY <1>1, <1>2 DEF Writes, RxType, Block
  <1>4. RWP' \in RxBlock
    BY Blocks DEF Writes, RxType
  <1> QED BY <1>3, <1>4 DEF Writes, RxType

LEMMA GiveBackType ==
  ASSUME RxType, NEW to \in RxBlock, GiveBack(to)
  PROVE  /\ mem' \in [RxBlock -> [kind : Kind, np : RxBlock, inuse : BOOLEAN, load : Contents]]
         /\ RRP' \in RxBlock
  <1>1. Data(NONE) \in [kind : Kind, np : RxBlock, inuse : BOOLEAN, load : Contents]
    BY Blocks DEF Data, Kind, Contents
  <1> QED BY <1>1 DEF GiveBack, RxType

LEMMA TypeStep == TypeOK /\ [Next]_vars => TypeOK'
  <1> SUFFICES ASSUME RxType, TxType, LinkType, [Next]_vars PROVE RxType' /\ TxType' /\ LinkType'
    BY DEF TypeOK, RxType, TxType, LinkType
  <1>0. \A b \in RxBlock : mem[b].np \in RxBlock /\ mem[b].load \in Contents
    BY DEF RxType
  <1>1. ASSUME NEW k \in 1..RxMax, Damaged(k) PROVE RxType' /\ TxType' /\ LinkType'
    <2>1. RxType'
      BY <1>1, WritesType, EtherAssumption DEF Damaged, Kind, Contents
    <2> QED BY <1>1, <2>1 DEF Damaged, Writes, TxType, LinkType, tx
  <1>2. ASSUME NEW k \in 1..RxMax, NEW l \in Load, Receive(k, l)
        PROVE  RxType' /\ TxType' /\ LinkType'
    <2>1. RxType'
      BY <1>2, WritesType, EtherAssumption DEF Receive, Kind, Contents
    <2> QED BY <1>2, <2>1 DEF Receive, Writes, TxType, LinkType, tx
  <1>3. CASE Overrun
    <2>1. Free \in Nat
      BY <1>3 DEF Overrun
    <2>2. RxType'
      BY <1>3, <2>1, WritesType DEF Overrun, Kind, Contents
    <2> QED BY <1>3, <2>2 DEF Overrun, Writes, TxType, LinkType, tx
  <1>4. CASE Transmit
    BY <1>4 DEF Transmit, RxType, TxType, LinkType, rx, tx
  <1>5. CASE ReadRWP
    BY <1>5, Blocks DEF ReadRWP, InIdle, RxType, TxType, LinkType, PC, tx
  <1>6. CASE Look
    <2>1. TxType' /\ LinkType' /\ rwp' \in RxBlock /\ RWP' \in RxBlock
      BY <1>6, Blocks DEF Look, InIdle, RxType, TxType, LinkType, tx
    <2>2. CASE LookOverrun
      <3>1. /\ mem' \in [RxBlock -> [kind : Kind, np : RxBlock, inuse : BOOLEAN, load : Contents]]
            /\ RRP' \in RxBlock
        BY <2>2, GiveBackType DEF LookOverrun, RxType
      <3> QED BY <1>6, <2>1, <2>2, <3>1 DEF Look, LookOverrun, RxType, PC
    <2>3. CASE LookBad
      BY <1>0, <1>6, <2>1, <2>3 DEF Look, LookBad, RxType, PC
    <2>4. CASE LookOkay
      <3>1. wrap' \in Contents
        BY <1>0, <2>4 DEF LookOkay, RxType, Contents
      <3> QED BY <1>0, <1>6, <2>1, <2>4, <3>1, Blocks DEF LookOkay, RxType, PC
    <2> QED BY <1>6, <2>2, <2>3, <2>4 DEF Look
  <1>7. CASE UserMsgFree
    <2>1. frame \in RxBlock
      BY <1>7 DEF UserMsgFree, RxType
    <2>2. mem' \in [RxBlock -> [kind : Kind, np : RxBlock, inuse : BOOLEAN, load : Contents]]
      <3> DEFINE Block == [kind : Kind, np : RxBlock, inuse : BOOLEAN, load : Contents]
      <3>0. \A m \in Block : [m EXCEPT !.inuse = FALSE] \in Block
        OBVIOUS
      <3>1. mem[frame] \in Block /\ [mem[frame] EXCEPT !.inuse = FALSE] \in Block
        <4>1. mem[frame] \in Block
          BY <2>1 DEF RxType
        <4> HIDE DEF Block
        <4> QED BY <3>0, <4>1
      <3>2. mem' = [mem EXCEPT ![frame] = [mem[frame] EXCEPT !.inuse = FALSE]]
        BY <1>7 DEF UserMsgFree
      <3> HIDE DEF Block
      <3>3. mem \in [RxBlock -> Block]
        BY DEF RxType, Block
      <3>4. mem' \in [RxBlock -> Block]
        BY <2>1, <3>1, <3>2, <3>3
      <3> QED BY <3>4 DEF Block
    <2> QED BY <1>7, <2>1, <2>2, Blocks
            DEF UserMsgFree, InIdle, RxType, TxType, LinkType, PC, Contents, tx
  <1>8. CASE Bump
    <2>1. frame \in RxBlock
      BY <1>8 DEF Bump, RxType
    <2>2. /\ mem' \in [RxBlock -> [kind : Kind, np : RxBlock, inuse : BOOLEAN, load : Contents]]
          /\ RRP' \in RxBlock
      BY <1>0, <1>8, <2>1, GiveBackType DEF Bump
    <2> QED BY <1>8, <2>2, Blocks DEF Bump, InIdle, RxType, TxType, LinkType, PC, tx
  <1>9. CASE Return
    BY <1>9 DEF Return, InIdle, RxType, TxType, LinkType, PC, tx
  <1>10. CASE Down \/ Wait
    BY <1>10 DEF Down, Wait, InDown, RxType, TxType, LinkType, TPC, rx
  <1>11. ASSUME NEW k \in 1..TxMax, Fill(k) PROVE RxType' /\ TxType' /\ LinkType'
    <2>1. twp' \in TxBlock
      BY <1>11, Blocks DEF Fill, NextFree, TxType
    <2> QED BY <1>11, <2>1 DEF Fill, InDown, RxType, TxType, LinkType, TPC, Contents, rx
  <1>12. CASE HandOver
    BY <1>12 DEF HandOver, Marks, InDown, RxType, TxType, LinkType, TPC, rx
  <1>13. CASE ether_timeout
    BY <1>13 DEF ether_timeout, RxType, TxType, LinkType, rx, tx
  <1>14. CASE UNCHANGED vars
    BY <1>14 DEF RxType, TxType, LinkType, vars, rx, tx
  <1> QED BY <1>1, <1>2, <1>3, <1>4, <1>5, <1>6, <1>7, <1>8, <1>9, <1>10, <1>11, <1>12,
             <1>13, <1>14 DEF Next, Chip, Idle, Send

-------------------------------------------------------------------------------
(* A step keeps the owners of the descriptors, and is a step of the channel:   *)
(* Fill puts a message in, and Transmit takes it out, if the chip finds it.    *)
LEMMA OwnersStep ==
  IInv /\ [Next]_vars => Owners' /\ [Sending!Next]_(Sending!vars)
  <1> SUFFICES ASSUME TypeOK, Owners, [Next]_vars
               PROVE  Owners' /\ [Sending!Next]_(Sending!vars)
    BY DEF IInv
  <1> USE DEF Owners, Sending!Next, Sending!vars, Sending!Put, Sending!Get
  <1>1. CASE Transmit
    <2>1. TRP = desc /\ desc # twp /\ TRP' = twp /\ tpc \in {"none", "wait"}
      BY <1>1 DEF Transmit, TypeOK, TPC
    <2>2. OnItsWay = <<sent>> /\ OnItsWay' = <<>>
      BY <1>1, <2>1 DEF Transmit, OnItsWay, tx
    <2>3. OnItsWay # <<>> /\ OnItsWay' = Tail(OnItsWay)
      BY <2>2
    <2> QED BY <1>1, <2>1, <2>3 DEF Transmit, tx
  <1>2. ASSUME NEW k \in 1..TxMax, Fill(k) PROVE Owners' /\ [Sending!Next]_(Sending!vars)
    <2>1. twp \in TxBlock /\ twp' \in TxBlock /\ twp' # twp /\ desc' = twp /\ TRP' = TRP /\ TRP = twp
      BY <1>2, Blocks DEF Fill, NextFree, InDown, TypeOK
    <2>2. twp \notin Within(k)
      <3>1. ASSUME NEW j \in 1..k-1 PROVE (twp + j) % TxBlocks # twp
        <4>1. j \in 1..TxMax
          BY EtherAssumption
        <4> QED BY <2>1, <4>1, Blocks
      <3> QED BY <3>1 DEF Within
    <2>3. flags'[desc'] = "host"
      BY <1>2, <2>1, <2>2 DEF Fill
    <2>4. OnItsWay = <<>> /\ OnItsWay' = <<sent'>> /\ sent' \in Load
      BY <1>2, <2>1 DEF Fill, OnItsWay
    <2>5. OnItsWay' = Append(OnItsWay, sent')
      BY <2>4
    <2> QED BY <1>2, <2>1, <2>3, <2>4, <2>5 DEF Fill
  <1>3. CASE HandOver
    <2>1. UNCHANGED OnItsWay
      BY <1>3 DEF HandOver, InDown, OnItsWay
    <2>2. Owners'
      BY <1>3 DEF HandOver, Marks, InDown, TypeOK
    <2> QED BY <2>1, <2>2
  <1>4. CASE Down \/ Wait
    <2>1. UNCHANGED OnItsWay
      BY <1>4 DEF Down, Wait, InDown, OnItsWay
    <2>2. Owners'
      BY <1>4 DEF Down, Wait, InDown
    <2> QED BY <2>1, <2>2
  <1>5. CASE \/ \E k \in 1..RxMax : Damaged(k) \/ \E l \in Load : Receive(k, l)
             \/ Overrun \/ Idle \/ ether_timeout \/ UNCHANGED vars
    <2>1. UNCHANGED <<tx, TRP>>
      BY <1>5 DEF Damaged, Receive, Overrun, Writes, Idle, ReadRWP, Look, UserMsgFree, Bump,
                  Return, InIdle, ether_timeout, vars
    <2>2. UNCHANGED OnItsWay
      BY <2>1 DEF OnItsWay, tx
    <2> QED BY <2>1, <2>2 DEF tx
  <1> QED BY <1>1, <1>2, <1>3, <1>4, <1>5 DEF Next, Chip, Send

(* Types, and who owns which descriptor.                                       *)
THEOREM Invariance == Spec => []IInv
  <1>1. IInv /\ [Next]_vars => IInv'
    BY TypeStep, OwnersStep DEF IInv
  <1> QED BY InitInv, <1>1, PTL DEF Spec

(* The pointers of driver and chip stay in their rings, and a frame is held    *)
(* just while handlers run.                                                    *)
THEOREM TypeCorrect == Spec => []TypeOK
  <1>1. IInv => TypeOK
    BY DEF IInv
  <1> QED BY Invariance, <1>1, PTL

(* Each message is transmitted once, whole and in order, and nothing else is.  *)
THEOREM TransmissionRefines == Spec => TransmitsInOrder
  <1>1. Init => Sending!Init
    BY DEF Init, Sending!Init, OnItsWay
  <1> QED BY Invariance, <1>1, OwnersStep, PTL DEF Spec, TransmitsInOrder

-------------------------------------------------------------------------------
(* The receive ring.  From RRP to RWP the frames are linked by the pointers in *)
(* their descriptors: Chain says that S are the blocks where one starts, and   *)
(* where the next one will.  Nothing is written into a frame between them.     *)
Whole(ms, R, b) ==
    \A x \in RxBlock : Span(R, b) <= Span(R, x) /\ Span(R, x) < Span(R, ms[b].np)
                          => ms[x].load = ms[b].load
Linked(ms, R, S, b) ==
    /\ ms[b].np \in S /\ Span(R, b) < Span(R, ms[b].np)
    /\ \A x \in S : Span(R, b) < Span(R, x) => Span(R, ms[b].np) <= Span(R, x)
    /\ ms[b].kind \in {"okay", "bad", "ovr"}
    /\ ms[b].kind = "okay" => ms[b].load \in Load /\ Whole(ms, R, b)
Chain(ms, R, W, S) ==
    /\ S \subseteq RxBlock /\ R \in S /\ W \in S
    /\ \A b \in S : Span(R, b) <= Span(R, W) /\ (b # W => Linked(ms, R, S, b))

(* Where the driver is in the chain, and what it has in its hands.             *)
Places(S) ==
    /\ rrp \in S
    /\ pc = "look" => rwp \in S /\ Span(RRP, rrp) < Span(RRP, rwp)
    /\ pc = "up" => /\ frame \in S /\ Span(RRP, frame) < Span(RRP, rrp)
                    /\ mem[frame].kind = "okay"
                    /\ wrap # NONE => wrap = mem[frame].load
    /\ pc = "bump" => frame = RRP /\ rrp # RRP
Ring == \E S \in SUBSET RxBlock : Chain(mem, RRP, RWP, S) /\ Places(S)

RingInv == IInv /\ Ring

-------------------------------------------------------------------------------
(* Distances in the ring.                                                      *)
LEMMA SpanIs ==
  ASSUME NEW a \in RxBlock, NEW b \in RxBlock
  PROVE  Span(a, b) = IF a <= b THEN b - a ELSE b - a + RxBlocks
  <1>1. RxBlocks \in Nat /\ a \in 0..RxBlocks-1 /\ b \in 0..RxBlocks-1
    BY Blocks DEF RxBlock
  <1>2. CASE a <= b
    <2>1. b + RxBlocks - a = (b - a) + RxBlocks /\ b - a \in 0..RxBlocks-1
      BY <1>1, <1>2
    <2>2. ((b - a) + RxBlocks) % RxBlocks = b - a
      BY <1>1, <2>1
    <2> QED BY <1>2, <2>1, <2>2 DEF Span
  <1>3. CASE ~(a <= b)
    <2>1. b + RxBlocks - a \in 0..RxBlocks-1
      BY <1>1, <1>3
    <2>2. (b + RxBlocks - a) % RxBlocks = b + RxBlocks - a
      BY <1>1, <2>1
    <2> QED BY <1>1, <1>3, <2>2 DEF Span
  <1> QED BY <1>2, <1>3

LEMMA AfterIs ==
  ASSUME NEW b \in RxBlock, NEW k \in 0..RxBlocks-1
  PROVE  After(b, k) = IF b + k < RxBlocks THEN b + k ELSE b + k - RxBlocks
  <1>1. RxBlocks \in Nat /\ b \in 0..RxBlocks-1
    BY Blocks DEF RxBlock
  <1>2. CASE b + k < RxBlocks
    BY <1>1, <1>2 DEF After
  <1>3. CASE ~(b + k < RxBlocks)
    <2>1. b + k - RxBlocks \in 0..RxBlocks-1 /\ b + k = (b + k - RxBlocks) + RxBlocks
      BY <1>1, <1>3
    <2>2. (b + k) % RxBlocks = b + k - RxBlocks
      BY <1>1, <2>1
    <2> QED BY <1>3, <2>2 DEF After
  <1> QED BY <1>2, <1>3

(* Seen from another block the ring is turned.                                 *)
LEMMA Turned ==
  ASSUME NEW R \in RxBlock, NEW a \in RxBlock, NEW b \in RxBlock
  PROVE  /\ Span(R, b) \in 0..RxBlocks-1 /\ Span(R, R) = 0
         /\ Span(R, a) = Span(R, b) => a = b
         /\ Span(a, b) = IF Span(R, a) <= Span(R, b) THEN Span(R, b) - Span(R, a)
                         ELSE Span(R, b) - Span(R, a) + RxBlocks
  <1>1. RxBlocks \in Nat /\ R \in 0..RxBlocks-1 /\ a \in 0..RxBlocks-1 /\ b \in 0..RxBlocks-1
    BY Blocks DEF RxBlock
  <1>2. /\ Span(R, a) = IF R <= a THEN a - R ELSE a - R + RxBlocks
        /\ Span(R, b) = IF R <= b THEN b - R ELSE b - R + RxBlocks
        /\ Span(a, b) = IF a <= b THEN b - a ELSE b - a + RxBlocks
    BY SpanIs
  <1>3. Span(R, R) = 0
    BY <1>1, SpanIs
  <1> QED BY <1>1, <1>2, <1>3

(* Where the chip stands after it has written k blocks, if there was room.     *)
LEMMA Onward ==
  ASSUME NEW R \in RxBlock, NEW W \in RxBlock, NEW k \in 1..(RxBlocks - 1 - Span(R, W))
  PROVE  After(W, k) \in RxBlock /\ Span(R, After(W, k)) = Span(R, W) + k
  <1>1. RxBlocks \in Nat /\ R \in 0..RxBlocks-1 /\ W \in 0..RxBlocks-1
    BY Blocks DEF RxBlock
  <1>2. Span(R, W) = IF R <= W THEN W - R ELSE W - R + RxBlocks
    BY SpanIs
  <1>3. k \in 0..RxBlocks-1 /\ k \in Nat
    BY <1>1, <1>2
  <1> DEFINE V == After(W, k)
  <1>4. V \in RxBlock /\ V = IF W + k < RxBlocks THEN W + k ELSE W + k - RxBlocks
    BY <1>3, AfterIs, Blocks
  <1> HIDE DEF V
  <1>5. Span(R, V) = IF R <= V THEN V - R ELSE V - R + RxBlocks
    BY <1>4, SpanIs
  <1>6. Span(R, V) = Span(R, W) + k
    BY <1>1, <1>2, <1>3, <1>4, <1>5
  <1> QED BY <1>4, <1>6 DEF V

-------------------------------------------------------------------------------
(* What holds at RWP, and at a frame if it does at the next one, holds of all. *)
LEMMA Least ==
  ASSUME NEW T \in SUBSET Nat, T # {}
  PROVE  \E x \in T : \A y \in T : x <= y
  <1> DEFINE Less == OpToRel(<, Nat)
  <1>1. IsWellFoundedOn(Less, Nat) /\ T \subseteq Nat
    BY NatLessThanWellFounded
  <1>2. \A x, y \in Nat : x < y => <<x, y>> \in Less
    BY DEF OpToRel
  <1> HIDE DEF Less
  <1>3. PICK x \in T : \A y \in T : <<y, x>> \notin Less
    BY <1>1, WFMin
  <1>4. \A y \in T : ~(y < x)
    BY <1>2, <1>3
  <1> QED BY <1>4

LEMMA ChainParts ==
  ASSUME NEW ms, NEW R, NEW W, NEW S, Chain(ms, R, W, S)
  PROVE  /\ S \subseteq RxBlock /\ R \in RxBlock /\ W \in RxBlock /\ W \in S /\ RxBlocks \in Nat
         /\ Span(R, W) \in 0..RxBlocks-1
         /\ \A b \in S : Span(R, b) \in 0..Span(R, W)
         /\ \A b \in S : b # W => /\ Linked(ms, R, S, b) /\ ms[b].np \in S
                                  /\ Span(R, b) < Span(R, ms[b].np)
  <1>1. S \subseteq RxBlock /\ R \in RxBlock /\ W \in RxBlock /\ W \in S /\ RxBlocks \in Nat
    BY Blocks DEF Chain
  <1>2. \A b \in S : Span(R, b) \in 0..RxBlocks-1
    BY <1>1, Turned
  <1>3. \A b \in S : Span(R, b) <= Span(R, W) /\ (b # W => Linked(ms, R, S, b))
    BY DEF Chain
  <1> QED BY <1>1, <1>2, <1>3 DEF Linked

LEMMA AllAlong ==
  ASSUME NEW ms, NEW R, NEW W, NEW S, Chain(ms, R, W, S),
         NEW T, W \in T, \A b \in S : b # W /\ ms[b].np \in T => b \in T
  PROVE  S \subseteq T
  <1> DEFINE Left(b) == Span(R, W) - Span(R, b)
             D == {n \in Nat : \E b \in S : b \notin T /\ Left(b) = n}
  <1>1. \A b \in S : Left(b) \in Nat
    BY ChainParts
  <1>2. D = {}
    <2> SUFFICES ASSUME D # {} PROVE FALSE
      OBVIOUS
    <2>1. PICK n \in D : \A k \in D : n <= k
      <3>1. D \in SUBSET Nat
        OBVIOUS
      <3> HIDE DEF D
      <3> QED BY <3>1, Least
    <2>2. PICK b \in S : b \notin T /\ Left(b) = n
      BY <2>1
    <2>3. ms[b].np \in S /\ Span(R, b) < Span(R, ms[b].np)
      BY <2>2, ChainParts
    <2>4. Left(ms[b].np) \in Nat /\ Left(ms[b].np) < n
      BY <1>1, <2>2, <2>3, ChainParts
    <2> HIDE DEF Left
    <2>5. ms[b].np \in T
      BY <2>1, <2>3, <2>4
    <2> QED BY <2>2, <2>5
  <1> QED BY <1>1, <1>2

-------------------------------------------------------------------------------
(* The frames from a block on, as Waiting has them for z.rrp.                  *)
Items == Load \cup {"bad", "overrun"}
ItemOf(ms, b) == CASE ms[b].kind = "okay" -> ms[b].load
                   [] ms[b].kind = "bad"  -> "bad"
                   [] OTHER               -> "overrun"
Follow(ms, W) == LET f[n \in 0..RxBlocks] ==
                       [b \in RxBlock |-> IF b = W \/ n = 0 THEN <<>>
                                          ELSE <<ItemOf(ms, b)>> \o f[n-1][ms[b].np]]
                 IN  f
Along(ms, W, b) == Follow(ms, W)[RxBlocks][b]

LEMMA WaitingIs ==
  Waiting = Along(mem, RWP, rrp) /\ Waiting' = Along(mem', RWP', rrp')
  BY DEF Waiting, Along, Follow, Item, ItemOf

LEMMA FollowIs ==
  ASSUME NEW ms, NEW W
  PROVE  \A n \in 0..RxBlocks : \A b \in RxBlock :
            Follow(ms, W)[n][b] = IF b = W \/ n = 0 THEN <<>>
                                  ELSE <<ItemOf(ms, b)>> \o Follow(ms, W)[n-1][ms[b].np]
  <1> DEFINE Row(b, n, r) == IF b = W \/ n = 0 THEN <<>> ELSE <<ItemOf(ms, b)>> \o r[ms[b].np]
             Right(f, m) == f = [n \in 0..m |-> [b \in RxBlock |-> Row(b, n, f[n-1])]]
             T == {m \in 0..RxBlocks : \A f : ~Right(f, m)}
  <1>1. RxBlocks \in Nat
    BY Blocks
  <1>2. T = {}
    <2> SUFFICES ASSUME T # {} PROVE FALSE
      OBVIOUS
    <2>1. PICK m \in T : \A k \in T : m <= k
      <3>1. T \in SUBSET Nat
        BY <1>1
      <3> HIDE DEF T
      <3> QED BY <3>1, Least
    <2>2. m \in 0..RxBlocks /\ m \in Nat
      BY <1>1, <2>1
    <2>3. m # 0
      <3> DEFINE f == [n \in 0..0 |-> [b \in RxBlock |-> <<>>]]
      <3>1. Right(f, 0)
        OBVIOUS
      <3> QED BY <2>1, <3>1
    <2>4. m - 1 \in 0..RxBlocks /\ m - 1 \notin T
      <3> HIDE DEF Right
      <3> QED BY <1>1, <2>1, <2>2, <2>3
    <2>5. PICK f : Right(f, m - 1)
      BY <2>4
    <2> DEFINE last == [b \in RxBlock |-> Row(b, m, f[m - 1])]
               g == [n \in 0..m |-> IF n = m THEN last ELSE f[n]]
    <2>6. \A n \in 0..m-1 : f[n] = [b \in RxBlock |-> Row(b, n, f[n - 1])]
      BY <2>5
    <2> HIDE DEF Row, last
    <2>7. g \in [0..m -> {g[n] : n \in 0..m}] /\ \A n \in 0..m-1 : g[n] = f[n]
      BY <2>2
    <2>8. g[m] = last /\ g[m - 1] = f[m - 1]
      BY <2>2, <2>3
    <2> HIDE DEF g
    <2>9. ASSUME NEW n \in 0..m PROVE g[n] = [b \in RxBlock |-> Row(b, n, g[n - 1])]
      <3>1. CASE n = m
        BY <2>8, <3>1 DEF last
      <3>2. CASE n = 0
        <4>1. g[0] = f[0] /\ f[0] = [b \in RxBlock |-> Row(b, 0, f[0 - 1])]
          <5>1. 0 \in 0..m-1
            BY <2>2, <2>3
          <5> QED BY <2>6, <2>7, <5>1
        <4>2. \A b \in RxBlock : Row(b, 0, f[0 - 1]) = <<>> /\ Row(b, 0, g[0 - 1]) = <<>>
          BY DEF Row
        <4>3. g[0] = [b \in RxBlock |-> Row(b, 0, g[0 - 1])]
          BY <4>1, <4>2
        <4> QED BY <3>2, <4>3
      <3>3. CASE n # m /\ n # 0
        <4>1. n \in 0..m-1 /\ n - 1 \in 0..m-1
          BY <2>2, <3>3
        <4> QED BY <2>6, <2>7, <4>1
      <3> QED BY <3>1, <3>2, <3>3
    <2>10. Right(g, m)
      BY <2>7, <2>9
    <2> QED BY <2>1, <2>10
  <1>3. \E f : Right(f, RxBlocks)
    <2>1. RxBlocks \in 0..RxBlocks
      BY <1>1
    <2> HIDE DEF Right
    <2> QED BY <1>2, <2>1
  <1>4. Follow(ms, W) = CHOOSE f : Right(f, RxBlocks)
    BY DEF Follow
  <1> DEFINE F == Follow(ms, W)
             G(n) == [b \in RxBlock |-> Row(b, n, F[n - 1])]
  <1>5. Right(F, RxBlocks)
    <2> HIDE DEF Right
    <2> QED BY <1>3, <1>4
  <1> HIDE DEF F, Row
  <1>6. F = [n \in 0..RxBlocks |-> G(n)]
    BY <1>5
  <1> HIDE DEF G
  <1>7. ASSUME NEW n \in 0..RxBlocks, NEW b \in RxBlock PROVE F[n][b] = Row(b, n, F[n - 1])
    <2>1. F[n] = G(n)
      BY <1>6
    <2>2. G(n)[b] = Row(b, n, F[n - 1])
      BY DEF G
    <2> QED BY <2>1, <2>2
  <1> QED BY <1>7 DEF F, Row

(* It takes no more rows than there are blocks to RWP.                         *)
LEMMA Rows ==
  ASSUME NEW ms, NEW R, NEW W, NEW S, Chain(ms, R, W, S)
  PROVE  \A b \in S : \A n \in (Span(R, W) - Span(R, b))..RxBlocks :
           Follow(ms, W)[n][b] = Along(ms, W, b)
  <1> DEFINE F == Follow(ms, W)
             T == {b \in S : \A n \in (Span(R, W) - Span(R, b))..RxBlocks : F[n][b] = F[RxBlocks][b]}
  <1>1. /\ S \subseteq RxBlock /\ RxBlocks \in Nat /\ W \in S /\ Span(R, W) \in 0..RxBlocks-1
        /\ \A b \in S : Span(R, b) \in 0..Span(R, W)
    BY ChainParts
  <1>2. \A n \in 0..RxBlocks : \A b \in RxBlock :
           F[n][b] = IF b = W \/ n = 0 THEN <<>> ELSE <<ItemOf(ms, b)>> \o F[n-1][ms[b].np]
    BY FollowIs
  <1> HIDE DEF F
  <1>3. W \in T
    <2>1. \A n \in 0..RxBlocks : F[n][W] = <<>>
      BY <1>1, <1>2
    <2>2. Span(R, W) - Span(R, W) = 0 /\ RxBlocks \in 0..RxBlocks
      BY <1>1
    <2> QED BY <1>1, <2>1, <2>2
  <1>4. ASSUME NEW b \in S, b # W, ms[b].np \in T PROVE b \in T
    <2> DEFINE c == ms[b].np
    <2>1. c \in S /\ Span(R, b) < Span(R, c) /\ Span(R, c) <= Span(R, W)
      BY <1>1, <1>4, ChainParts
    <2>2. \A n \in (Span(R, W) - Span(R, c))..RxBlocks : F[n][c] = F[RxBlocks][c]
      BY <1>4
    <2> HIDE DEF c
    <2>3. ASSUME NEW n \in (Span(R, W) - Span(R, b))..RxBlocks PROVE F[n][b] = F[RxBlocks][b]
      <3>1. Span(R, b) \in Nat /\ Span(R, c) \in Nat /\ Span(R, W) \in 0..RxBlocks-1
        BY <1>1, <2>1
      <3>2. /\ n \in 0..RxBlocks /\ n # 0 /\ RxBlocks \in 0..RxBlocks /\ RxBlocks # 0
            /\ n - 1 \in (Span(R, W) - Span(R, c))..RxBlocks
            /\ RxBlocks - 1 \in (Span(R, W) - Span(R, c))..RxBlocks
        BY <1>1, <2>1, <3>1
      <3>3. F[n-1][c] = F[RxBlocks-1][c]
        BY <2>2, <3>2
      <3>4. /\ F[n][b] = <<ItemOf(ms, b)>> \o F[n-1][c]
            /\ F[RxBlocks][b] = <<ItemOf(ms, b)>> \o F[RxBlocks-1][c]
        BY <1>1, <1>2, <1>4, <3>2 DEF c
      <3> QED BY <3>3, <3>4
    <2> QED BY <2>3
  <1>5. S \subseteq T
    <2> HIDE DEF T
    <2> QED BY <1>3, <1>4, AllAlong
  <1> QED BY <1>5 DEF F, Along

LEMMA AlongIs ==
  ASSUME NEW ms, NEW R, NEW W, NEW S, Chain(ms, R, W, S)
  PROVE  /\ Along(ms, W, W) = <<>>
         /\ \A b \in S : b # W => Along(ms, W, b) = <<ItemOf(ms, b)>> \o Along(ms, W, ms[b].np)
         /\ \A b \in S : Along(ms, W, b) \in Seq(Items)
  <1> DEFINE F == Follow(ms, W)
  <1>1. /\ S \subseteq RxBlock /\ RxBlocks \in Nat /\ W \in S /\ Span(R, W) \in 0..RxBlocks-1
        /\ \A b \in S : Span(R, b) \in 0..Span(R, W)
    BY ChainParts
  <1>2. \A b \in RxBlock : F[RxBlocks][b] = IF b = W \/ RxBlocks = 0 THEN <<>>
                              ELSE <<ItemOf(ms, b)>> \o F[RxBlocks-1][ms[b].np]
    <2>1. RxBlocks \in 0..RxBlocks
      BY <1>1
    <2>2. \A n \in 0..RxBlocks : \A b \in RxBlock :
             F[n][b] = IF b = W \/ n = 0 THEN <<>>
                       ELSE <<ItemOf(ms, b)>> \o F[n-1][ms[b].np]
      BY FollowIs
    <2> HIDE DEF F
    <2> QED BY <2>1, <2>2, Zenon
  <1> HIDE DEF F
  <1>3. Along(ms, W, W) = <<>>
    BY <1>1, <1>2 DEF Along, F
  <1>4. ASSUME NEW b \in S, b # W
        PROVE  Along(ms, W, b) = <<ItemOf(ms, b)>> \o Along(ms, W, ms[b].np)
    <2> DEFINE c == ms[b].np
    <2>1. c \in S /\ Span(R, b) < Span(R, c)
      BY <1>4, ChainParts
    <2> HIDE DEF c
    <2>2. RxBlocks - 1 \in (Span(R, W) - Span(R, c))..RxBlocks /\ RxBlocks # 0
      BY <1>1, <2>1
    <2>3. F[RxBlocks-1][c] = Along(ms, W, c)
      BY <2>1, <2>2, Rows DEF F
    <2>4. F[RxBlocks][b] = <<ItemOf(ms, b)>> \o F[RxBlocks-1][c]
      BY <1>1, <1>2, <1>4, <2>2 DEF c
    <2>5. Along(ms, W, b) = F[RxBlocks][b]
      BY DEF Along, F
    <2> QED BY <2>3, <2>4, <2>5 DEF c
  <1> DEFINE T == {b \in S : Along(ms, W, b) \in Seq(Items)}
  <1>5. W \in T
    BY <1>1, <1>3
  <1>6. ASSUME NEW b \in S, b # W, ms[b].np \in T PROVE b \in T
    <2> DEFINE rest == Along(ms, W, ms[b].np)
               one == <<ItemOf(ms, b)>>
    <2>1. rest \in Seq(Items)
      BY <1>6
    <2>2. ItemOf(ms, b) \in Items
      BY <1>6, ChainParts DEF Linked, ItemOf, Items
    <2>3. one \in Seq(Items)
      BY <2>2
    <2> HIDE DEF rest, one
    <2>4. one \o rest \in Seq(Items)
      BY <2>1, <2>3, ConcatProperties
    <2> QED BY <1>4, <1>6, <2>4 DEF rest, one
  <1>7. S \subseteq T
    <2> HIDE DEF T
    <2> QED BY <1>5, <1>6, AllAlong
  <1> QED BY <1>3, <1>4, <1>7

-------------------------------------------------------------------------------
(* What becomes of the frames that are waiting.  They stay what they are if    *)
(* the memory they are in does; one more comes after them; and those from a    *)
(* later block on are what is left when some are taken off the front.          *)
Alike(ms, ns, W, P) ==
    \A b \in P : b # W => ns[b].np = ms[b].np /\ ItemOf(ns, b) = ItemOf(ms, b)

LEMMA SameAlong ==
  ASSUME NEW ms, NEW R, NEW W, NEW S, Chain(ms, R, W, S),
         NEW ns, NEW Q, NEW P, Chain(ns, Q, W, P), P \subseteq S,
         Alike(ms, ns, W, P)
  PROVE  \A b \in P : Along(ns, W, b) = Along(ms, W, b)
  <1> DEFINE T == {b \in P : Along(ns, W, b) = Along(ms, W, b)}
  <1>1. W \in T
    <2>1. W \in P /\ W \in S
      BY ChainParts
    <2>2. Along(ms, W, W) = <<>>
      BY AlongIs
    <2>3. Along(ns, W, W) = <<>>
      BY AlongIs
    <2> QED BY <2>1, <2>2, <2>3
  <1>2. ASSUME NEW b \in P, b # W, ns[b].np \in T PROVE b \in T
    <2>1. Along(ns, W, b) = <<ItemOf(ns, b)>> \o Along(ns, W, ns[b].np)
      BY <1>2, AlongIs
    <2>2. Along(ms, W, b) = <<ItemOf(ms, b)>> \o Along(ms, W, ms[b].np)
      BY <1>2, AlongIs
    <2> QED BY <1>2, <2>1, <2>2 DEF Alike
  <1>3. P \subseteq T
    <2> HIDE DEF T
    <2> QED BY <1>1, <1>2, AllAlong
  <1> QED BY <1>3

LEMMA Longer ==
  ASSUME NEW s \in Seq(Items), NEW i \in Items, NEW j \in Items
  PROVE  /\ <<i>> \o Append(s, j) = Append(<<i>> \o s, j)
         /\ <<j>> \o <<>> = Append(<<>>, j)
  OBVIOUS

Gains(ms, ns, W, S, V) ==
    V \notin S /\ Alike(ms, ns, W, S) /\ ns[W].np = V /\ ItemOf(ns, W) \in Items

LEMMA MoreAlong ==
  ASSUME NEW ms, NEW R, NEW W, NEW S, Chain(ms, R, W, S),
         NEW ns, NEW V, Chain(ns, R, V, S \cup {V}), Gains(ms, ns, W, S, V)
  PROVE  \A b \in S : Along(ns, V, b) = Append(Along(ms, W, b), ItemOf(ns, W))
  <1> DEFINE x == ItemOf(ns, W)
             T == {b \in S : Along(ns, V, b) = Append(Along(ms, W, b), x)}
  <1>0. V \notin S /\ Alike(ms, ns, W, S) /\ ns[W].np = V /\ x \in Items
    BY DEF Gains
  <1>1. W \in S /\ \A b \in S : b # V
    BY <1>0, ChainParts
  <1>2. W \in T
    <2>1. Along(ms, W, W) = <<>>
      BY AlongIs
    <2>2. Along(ns, V, V) = <<>> /\ Along(ns, V, W) = <<x>> \o Along(ns, V, V)
      BY <1>0, <1>1, AlongIs
    <2> QED BY <1>0, <1>1, <2>1, <2>2, Longer, EmptySeq
  <1>3. ASSUME NEW b \in S, b # W, ms[b].np \in T PROVE b \in T
    <2> DEFINE s == Along(ms, W, ms[b].np)
               i == ItemOf(ms, b)
    <2>1. ms[b].np \in S /\ Along(ms, W, b) = <<i>> \o s /\ s \in Seq(Items)
      BY <1>3, AlongIs
    <2>2. Along(ns, V, b) = <<i>> \o Along(ns, V, ms[b].np)
      <3>1. \A e \in S \cup {V} : e # V =>
                Along(ns, V, e) = <<ItemOf(ns, e)>> \o Along(ns, V, ns[e].np)
        BY AlongIs
      <3> QED BY <1>0, <1>1, <1>3, <3>1 DEF Alike
    <2>3. i \in Items
      BY <1>3, ChainParts DEF Linked, ItemOf, Items
    <2>4. Along(ns, V, ms[b].np) = Append(s, x)
      BY <1>3
    <2> HIDE DEF s, i, x
    <2>5. <<i>> \o Append(s, x) = Append(<<i>> \o s, x)
      BY <1>0, <2>1, <2>3, Longer DEF x
    <2> QED BY <2>1, <2>2, <2>4, <2>5
  <1>4. S \subseteq T
    <2> HIDE DEF T
    <2> QED BY <1>2, <1>3, AllAlong
  <1> QED BY <1>4

LEMMA Rest ==
  ASSUME NEW t \in Seq(Items), NEW m \in 0..Len(t)
  PROVE  LET c == SubSeq(t, m + 1, Len(t))
         IN  c \in Seq(Items) /\ Len(c) = Len(t) - m /\ \A k \in 1..Len(t)-m : c[k] = t[m + k]
  <1> DEFINE c == SubSeq(t, m + 1, Len(t))
             l == Len(t)
  <1>1. l \in Nat /\ m \in 0..l /\ m + 1 \in Int /\ l \in Int
    BY LenProperties
  <1>2. \A k \in (m + 1)..l : t[k] \in Items
    BY <1>1, ElementOfSeq
  <1>3. /\ c \in Seq(Items) /\ Len(c) = IF m + 1 <= l THEN l - (m + 1) + 1 ELSE 0
        /\ \A k \in 1..(l - (m + 1) + 1) : c[k] = t[m + 1 + k - 1]
    BY <1>1, <1>2, SubSeqProperties
  <1> HIDE DEF c, l
  <1>4. l - (m + 1) + 1 = l - m /\ (~(m + 1 <= l) => l - m = 0)
    BY <1>1
  <1>5. \A k \in 1..l-m : m + 1 + k - 1 = m + k
    BY <1>1
  <1>6. \A k \in 1..l-m : c[k] = t[m + k]
    BY <1>3, <1>4, <1>5
  <1> QED BY <1>3, <1>4, <1>6 DEF c, l

LEMMA Shorter ==
  ASSUME NEW s \in Seq(Items), NEW i \in Items, NEW n \in 0..Len(s)
  PROVE  LET t == <<i>> \o s
         IN  /\ n + 1 \in 1..Len(t) /\ Len(t) = Len(s) + 1
             /\ SubSeq(t, n + 2, Len(t)) = SubSeq(s, n + 1, Len(s))
  <1> DEFINE t == <<i>> \o s
  <1>1. Len(s) \in Nat /\ <<i>> \in Seq(Items) /\ Len(<<i>>) = 1
    BY LenProperties
  <1>2. Len(t) = Len(s) + 1 /\ t \in Seq(Items) /\ \A k \in 1..Len(s)+1 : k > 1 => t[k] = s[k - 1]
    <2> DEFINE one == <<i>>
    <2> HIDE DEF one
    <2>1. /\ one \o s \in Seq(Items) /\ Len(one \o s) = Len(one) + Len(s)
          /\ \A k \in 1..Len(one)+Len(s) :
                (one \o s)[k] = IF k <= Len(one) THEN one[k] ELSE s[k - Len(one)]
      BY <1>1, ConcatProperties DEF one
    <2>2. Len(one) = 1
      BY <1>1 DEF one
    <2> QED BY <1>1, <2>1, <2>2 DEF one
  <1> HIDE DEF t
  <1> DEFINE a == SubSeq(t, n + 2, Len(t))
             b == SubSeq(s, n + 1, Len(s))
  <1>3. /\ a \in Seq(Items) /\ Len(a) = Len(s) - n
        /\ \A k \in 1..Len(s)-n : a[k] = t[n + 1 + k]
    <2> DEFINE m == n + 1
    <2>1. m \in 0..Len(t) /\ m + 1 = n + 2 /\ Len(t) - m = Len(s) - n
      BY <1>1, <1>2
    <2> HIDE DEF m
    <2>2. LET c == SubSeq(t, m + 1, Len(t))
          IN  c \in Seq(Items) /\ Len(c) = Len(t) - m /\ \A k \in 1..Len(t)-m : c[k] = t[m + k]
      BY <1>2, <2>1, Rest
    <2> QED BY <2>1, <2>2 DEF m
  <1>4. /\ b \in Seq(Items) /\ Len(b) = Len(s) - n
        /\ \A k \in 1..Len(s)-n : b[k] = s[n + k]
    BY Rest
  <1> HIDE DEF a, b
  <1>5. \A k \in 1..Len(a) : a[k] = b[k]
    BY <1>1, <1>2, <1>3, <1>4, SMTT(30)
  <1>6. a = b
    BY <1>3, <1>4, <1>5, SeqEqual
  <1> QED BY <1>1, <1>2, <1>6 DEF a, b, t

LEMMA FewerAlong ==
  ASSUME NEW ms, NEW R, NEW W, NEW S, Chain(ms, R, W, S), NEW c \in S
  PROVE  \A b \in S : Span(R, b) <= Span(R, c) =>
           LET q == Along(ms, W, b)
           IN  \E n \in 0..Len(q) : /\ Along(ms, W, c) = SubSeq(q, n + 1, Len(q))
                                    /\ b # c => n >= 1
  <1> DEFINE Taken(b) == LET q == Along(ms, W, b)
                         IN  \E n \in 0..Len(q) : /\ Along(ms, W, c) = SubSeq(q, n + 1, Len(q))
                                                  /\ b # c => n >= 1
             T == {b \in S : Span(R, b) <= Span(R, c) => Taken(b)}
  <1>1. /\ \A b \in S : Along(ms, W, b) \in Seq(Items) /\ Span(R, b) \in 0..Span(R, W)
        /\ W \in S /\ S \subseteq RxBlock /\ R \in RxBlock /\ Span(R, W) \in Nat
    BY AlongIs, ChainParts
  <1>2. Taken(c)
    <2> DEFINE q == Along(ms, W, c)
    <2>1. q \in Seq(Items) /\ Len(q) \in Nat
      BY <1>1, LenProperties
    <2> HIDE DEF q
    <2>2. SubSeq(q, 0 + 1, Len(q)) = q
      BY <2>1, SubSeqFull
    <2>3. 0 \in 0..Len(q)
      BY <2>1
    <2> QED BY <2>2, <2>3 DEF q
  <1>3. W \in T
    <2>1. ASSUME Span(R, W) <= Span(R, c) PROVE W = c
      <3>1. Span(R, W) = Span(R, c)
        BY <1>1, <2>1
      <3> QED BY <1>1, <3>1, Turned
    <2> HIDE DEF Taken
    <2> QED BY <1>1, <1>2, <2>1
  <1>4. ASSUME NEW b \in S, b # W, ms[b].np \in T PROVE b \in T
    <2> SUFFICES ASSUME Span(R, b) <= Span(R, c), b # c PROVE Taken(b)
      <3> HIDE DEF Taken
      <3> QED BY <1>2
    <2> DEFINE s == Along(ms, W, ms[b].np)
               i == ItemOf(ms, b)
    <2>1. /\ ms[b].np \in S /\ Along(ms, W, b) = <<i>> \o s /\ s \in Seq(Items) /\ i \in Items
      <3>1. Linked(ms, R, S, b)
        BY <1>4, ChainParts
      <3>2. ms[b].np \in S /\ i \in Items
        BY <3>1 DEF Linked, ItemOf, Items
      <3> HIDE DEF i
      <3>3. \A e \in S : Along(ms, W, e) \in Seq(Items)
        BY AlongIs
      <3>4. Along(ms, W, b) = <<i>> \o s
        BY <1>4, AlongIs DEF i
      <3> QED BY <3>2, <3>3, <3>4
    <2>2. Span(R, b) # Span(R, c)
      BY <1>1, Turned
    <2>3. Span(R, ms[b].np) <= Span(R, c)
      <3>1. Span(R, b) < Span(R, c)
        BY <1>1, <2>2
      <3> QED BY <1>4, <3>1, ChainParts DEF Linked
    <2>4. PICK n \in 0..Len(s) : Along(ms, W, c) = SubSeq(s, n + 1, Len(s))
      BY <1>4, <2>1, <2>3
    <2> HIDE DEF s, i
    <2> DEFINE t == <<i>> \o s
    <2>5. /\ n + 1 \in 1..Len(t) /\ Len(t) = Len(s) + 1
          /\ SubSeq(t, n + 2, Len(t)) = SubSeq(s, n + 1, Len(s))
      BY <2>1, <2>4, Shorter
    <2> HIDE DEF t
    <2>6. n + 1 \in 0..Len(t) /\ n + 1 >= 1 /\ (n + 1) + 1 = n + 2
      BY <2>1, <2>4, <2>5, LenProperties
    <2>7. Along(ms, W, c) = SubSeq(t, (n + 1) + 1, Len(t))
      BY <2>4, <2>5, <2>6
    <2>8. Along(ms, W, b) = t
      BY <2>1 DEF t
    <2> QED BY <2>6, <2>7, <2>8
  <1>5. S \subseteq T
    <2> HIDE DEF T
    <2> QED BY <1>3, <1>4, AllAlong
  <1> QED BY <1>5

-------------------------------------------------------------------------------
(* The chain grows where the chip writes, and shrinks where memory is given    *)
(* back to it; in between it stays.                                            *)
LEMMA Grows ==
  ASSUME NEW ms, NEW R, NEW W, NEW S, Chain(ms, R, W, S),
         NEW k \in 1..(RxBlocks - 1 - Span(R, W)), NEW ns,
         \A x \in RxBlock : ~(Span(W, x) < k) => ns[x] = ms[x],
         ns[W].np = After(W, k), ns[W].kind \in {"okay", "bad", "ovr"},
         ns[W].kind = "okay" => ns[W].load \in Load,
         \A x \in RxBlock : Span(W, x) < k => ns[x].load = ns[W].load
  PROVE  /\ After(W, k) \in RxBlock \ S
         /\ Chain(ns, R, After(W, k), S \cup {After(W, k)})
         /\ \A x \in RxBlock : Span(R, x) < Span(R, W) => ns[x] = ms[x]
  <1> DEFINE V == After(W, k)
             P == S \cup {V}
  <1>1. /\ S \subseteq RxBlock /\ R \in RxBlock /\ W \in RxBlock /\ W \in S /\ R \in S
        /\ RxBlocks \in Nat /\ Span(R, W) \in 0..RxBlocks-1
        /\ \A b \in S : Span(R, b) \in 0..Span(R, W)
    BY ChainParts DEF Chain
  <1>2. V \in RxBlock /\ Span(R, V) = Span(R, W) + k
    BY <1>1, Onward
  <1> HIDE DEF V
  <1>3. V \notin S
    BY <1>1, <1>2
  <1>4. \A x \in RxBlock : Span(R, x) \in 0..RxBlocks-1
    BY <1>1, Turned
  <1>5. ASSUME NEW x \in RxBlock
        PROVE  Span(W, x) < k <=> Span(R, W) <= Span(R, x) /\ Span(R, x) < Span(R, V)
    <2>1. Span(W, x) = IF Span(R, W) <= Span(R, x) THEN Span(R, x) - Span(R, W)
                       ELSE Span(R, x) - Span(R, W) + RxBlocks
      BY <1>1, Turned
    <2> QED BY <1>1, <1>2, <1>4, <2>1
  <1>6. \A x \in RxBlock : Span(R, x) < Span(R, W) => ns[x] = ms[x]
    BY <1>1, <1>4, <1>5
  <1>7. ASSUME NEW b \in S, b # W PROVE Linked(ns, R, P, b)
    <2>1. Linked(ms, R, S, b) /\ ms[b].np \in S /\ Span(R, b) < Span(R, ms[b].np)
      BY <1>7, ChainParts
    <2>2. Span(R, ms[b].np) <= Span(R, W)
      BY <1>1, <2>1
    <2>3. ns[b] = ms[b]
      BY <1>1, <1>6, <2>1, <2>2
    <2>4. ASSUME Whole(ms, R, b) PROVE Whole(ns, R, b)
      <3>1. ASSUME NEW x \in RxBlock, Span(R, b) <= Span(R, x), Span(R, x) < Span(R, ms[b].np)
            PROVE  ns[x].load = ns[b].load
        <4>1. ns[x] = ms[x]
          BY <1>1, <1>4, <1>6, <2>1, <2>2, <3>1
        <4> QED BY <2>3, <2>4, <3>1, <4>1 DEF Whole
      <3> QED BY <2>3, <3>1 DEF Whole
    <2>5. \A x \in P : Span(R, b) < Span(R, x) => Span(R, ms[b].np) <= Span(R, x)
      BY <1>1, <1>2, <2>1, <2>2 DEF Linked
    <2> QED BY <2>1, <2>3, <2>4, <2>5 DEF Linked
  <1>8. Linked(ns, R, P, W)
    <2>1. Whole(ns, R, W)
      BY <1>5 DEF Whole, V
    <2>2. \A x \in P : Span(R, W) < Span(R, x) => Span(R, V) <= Span(R, x)
      BY <1>1, <1>2
    <2> QED BY <1>1, <1>2, <2>1, <2>2 DEF Linked, V
  <1>9. \A b \in P : Span(R, b) <= Span(R, V)
    BY <1>1, <1>2
  <1> HIDE DEF P
  <1>10. Chain(ns, R, V, P)
    BY <1>1, <1>2, <1>7, <1>8, <1>9 DEF Chain, P
  <1> QED BY <1>2, <1>3, <1>6, <1>10 DEF V, P

LEMMA Shrinks ==
  ASSUME NEW ms, NEW R, NEW W, NEW S, Chain(ms, R, W, S), NEW to \in S,
         NEW ns, \A x \in RxBlock : ~(Span(R, x) < Span(R, to)) => ns[x] = ms[x]
  PROVE  LET P == {b \in S : Span(R, to) <= Span(R, b)}
         IN  /\ Chain(ns, to, W, P) /\ \A b \in P : ns[b] = ms[b]
             /\ \A b \in P : Span(to, b) = Span(R, b) - Span(R, to)
  <1> DEFINE P == {b \in S : Span(R, to) <= Span(R, b)}
  <1>1. /\ S \subseteq RxBlock /\ R \in RxBlock /\ W \in RxBlock /\ W \in S /\ to \in RxBlock
        /\ RxBlocks \in Nat /\ Span(R, W) \in 0..RxBlocks-1
        /\ \A b \in S : Span(R, b) \in 0..Span(R, W)
    BY ChainParts
  <1>2. \A x \in RxBlock : Span(R, x) \in 0..RxBlocks-1
    BY <1>1, Turned
  <1>3. \A x \in RxBlock :
           Span(to, x) = IF Span(R, to) <= Span(R, x) THEN Span(R, x) - Span(R, to)
                         ELSE Span(R, x) - Span(R, to) + RxBlocks
    BY <1>1, Turned
  <1>4. \A b \in P : ns[b] = ms[b] /\ Span(to, b) = Span(R, b) - Span(R, to)
    BY <1>1, <1>2, <1>3
  <1>5. W \in P /\ to \in P
    BY <1>1
  <1>6. ASSUME NEW b \in P, b # W PROVE Linked(ns, to, P, b)
    <2>1. Linked(ms, R, S, b) /\ ms[b].np \in S /\ Span(R, b) < Span(R, ms[b].np)
      BY <1>6, ChainParts
    <2>2. ns[b] = ms[b] /\ ms[b].np \in P /\ b \in S
      BY <1>1, <1>4, <2>1
    <2>3. Span(to, b) < Span(to, ms[b].np)
      BY <1>1, <1>4, <2>1, <2>2
    <2>4. \A x \in P : Span(to, b) < Span(to, x) => Span(to, ms[b].np) <= Span(to, x)
      <3>1. ASSUME NEW x \in P, Span(to, b) < Span(to, x) PROVE Span(to, ms[b].np) <= Span(to, x)
        <4>1. Span(R, b) < Span(R, x)
          BY <1>1, <1>4, <3>1
        <4>2. Span(R, ms[b].np) <= Span(R, x)
          BY <2>1, <4>1 DEF Linked
        <4> QED BY <1>1, <1>4, <2>2, <4>2
      <3> QED BY <3>1
    <2>5. ASSUME Whole(ms, R, b) PROVE Whole(ns, to, b)
      <3>1. ASSUME NEW x \in RxBlock, Span(to, b) <= Span(to, x), Span(to, x) < Span(to, ms[b].np)
            PROVE  ns[x].load = ns[b].load
        <4>1. Span(R, to) <= Span(R, x)
          <5>1. Span(R, ms[b].np) \in 0..RxBlocks-1
            BY <1>1, <1>2, <2>2
          <5> QED BY <1>1, <1>2, <1>3, <1>4, <2>2, <3>1, <5>1
        <4>2. Span(R, b) <= Span(R, x) /\ Span(R, x) < Span(R, ms[b].np)
          BY <1>1, <1>2, <1>3, <1>4, <2>2, <3>1, <4>1
        <4>3. ms[x].load = ms[b].load
          BY <2>5, <4>2 DEF Whole
        <4>4. ns[x] = ms[x]
          BY <1>1, <1>2, <4>1
        <4> QED BY <2>2, <4>3, <4>4
      <3> QED BY <2>2, <3>1 DEF Whole
    <2> HIDE DEF P
    <2> QED BY <2>1, <2>2, <2>3, <2>4, <2>5 DEF Linked
  <1>7. \A b \in P : Span(to, b) <= Span(to, W)
    BY <1>1, <1>4, <1>5
  <1>8. P \subseteq RxBlock
    BY <1>1
  <1> HIDE DEF P
  <1>9. Chain(ns, to, W, P)
    BY <1>5, <1>6, <1>7, <1>8 DEF Chain
  <1> QED BY <1>4, <1>9 DEF P

-------------------------------------------------------------------------------
(* What a handler holds is the frame the driver took, as it came.              *)
HeldIn(ms, p, f, w) ==
    IF p # "up" THEN NONE
    ELSE IF w # NONE THEN w
    ELSE IF \A b \in RxBlock : Span(f, b) < Span(f, ms[f].np) => ms[b].load = ms[f].load
      THEN ms[f].load ELSE "torn"

LEMMA HeldIs ==
  Held = HeldIn(mem, pc, frame, wrap) /\ Held' = HeldIn(mem', pc', frame', wrap')
  BY DEF Held, HeldIn

LEMMA HeldWhole ==
  ASSUME NEW ms, NEW R, NEW W, NEW S, Chain(ms, R, W, S),
         NEW f \in S, f # W, ms[f].kind = "okay", NEW w, w # NONE => w = ms[f].load
  PROVE  HeldIn(ms, "up", f, w) = ms[f].load /\ ms[f].load \in Load
  <1> DEFINE c == ms[f].np
  <1>1. /\ S \subseteq RxBlock /\ R \in RxBlock /\ RxBlocks \in Nat
        /\ c \in S /\ Span(R, f) < Span(R, c) /\ Linked(ms, R, S, f)
    BY ChainParts
  <1>2. ms[f].load \in Load /\ Whole(ms, R, f)
    BY <1>1 DEF Linked
  <1>3. \A x \in RxBlock : Span(R, x) \in 0..RxBlocks-1
    BY <1>1, Turned
  <1>4. ASSUME NEW b \in RxBlock, Span(f, b) < Span(f, c) PROVE ms[b].load = ms[f].load
    <2>0. c \in RxBlock /\ f \in RxBlock
      BY <1>1
    <2> HIDE DEF c
    <2>1. Span(f, c) = Span(R, c) - Span(R, f)
      BY <1>1, <2>0, Turned
    <2>2. Span(f, b) = IF Span(R, f) <= Span(R, b) THEN Span(R, b) - Span(R, f)
                       ELSE Span(R, b) - Span(R, f) + RxBlocks
      BY <1>1, <2>0, Turned
    <2>3. Span(R, f) <= Span(R, b) /\ Span(R, b) < Span(R, c)
      BY <1>1, <1>3, <1>4, <2>0, <2>1, <2>2
    <2> QED BY <1>2, <2>3 DEF Whole, c
  <1> QED BY <1>2, <1>4 DEF HeldIn

-------------------------------------------------------------------------------
(* A step keeps the ring, and is a step of the queue of frames.                *)
Implements == Ring' /\ [Frames!Next]_(Frames!vars)

LEMMA QueueIs ==
  ASSUME TypeOK, NEW S, Chain(mem, RRP, RWP, S), Places(S)
  PROVE  /\ Waiting = Along(mem, RWP, rrp) /\ Waiting \in Seq(Items)
         /\ rrp # RWP => /\ Waiting = <<ItemOf(mem, rrp)>> \o Along(mem, RWP, mem[rrp].np)
                         /\ Along(mem, RWP, mem[rrp].np) \in Seq(Items)
                         /\ ItemOf(mem, rrp) \in Items
                         /\ Linked(mem, RRP, S, rrp)
  <1>1. Waiting = Along(mem, RWP, rrp) /\ rrp \in S
    BY WaitingIs DEF Places
  <1>2. \A b \in S : Along(mem, RWP, b) \in Seq(Items)
    BY AlongIs
  <1>3. ASSUME rrp # RWP
        PROVE  /\ Along(mem, RWP, rrp) = <<ItemOf(mem, rrp)>> \o Along(mem, RWP, mem[rrp].np)
               /\ mem[rrp].np \in S /\ Linked(mem, RRP, S, rrp)
    BY <1>1, <1>3, AlongIs, ChainParts
  <1>4. ASSUME Linked(mem, RRP, S, rrp) PROVE ItemOf(mem, rrp) \in Items
    BY <1>4 DEF Linked, ItemOf, Items
  <1> QED BY <1>1, <1>2, <1>3, <1>4

LEMMA WritesStep ==
  ASSUME TypeOK, Ring, NEW k \in 1..Free, NEW kind \in {"okay", "bad", "ovr"}, NEW l,
         kind = "okay" => l \in Load, Writes(k, kind, l)
  PROVE  Implements
  <1>1. PICK S : Chain(mem, RRP, RWP, S) /\ Places(S)
    BY DEF Ring
  <1>2. /\ S \subseteq RxBlock /\ RRP \in RxBlock /\ RWP \in RxBlock /\ RWP \in S /\ RxBlocks \in Nat
        /\ Span(RRP, RWP) \in 0..RxBlocks-1
        /\ \A b \in S : Span(RRP, b) \in 0..Span(RRP, RWP)
        /\ \A b \in S : b # RWP => mem[b].np \in S /\ Span(RRP, b) < Span(RRP, mem[b].np)
    BY <1>1, ChainParts
  <1>3. k \in 1..(RxBlocks - 1 - Span(RRP, RWP)) /\ k \in Nat
    BY <1>2 DEF Free
  <1> DEFINE ns == [b \in RxBlock |->
                 IF b = RWP THEN [kind |-> kind, np |-> After(RWP, k), inuse |-> TRUE, load |-> l]
                 ELSE IF Span(RWP, b) < k THEN Data(l) ELSE mem[b]]
             V == After(RWP, k)
  <1>4. mem' = ns /\ RWP' = V /\ UNCHANGED <<RRP, rrp, pc, rwp, frame, wrap>>
    BY DEF Writes
  <1>5. Span(RWP, RWP) = 0
    BY <1>2, Turned
  <1>6. /\ ns[RWP] = [kind |-> kind, np |-> V, inuse |-> TRUE, load |-> l]
        /\ \A x \in RxBlock : ~(Span(RWP, x) < k) => ns[x] = mem[x]
        /\ \A x \in RxBlock : Span(RWP, x) < k => ns[x].load = l
    BY <1>2, <1>3, <1>5 DEF Data
  <1>7. ns[RWP].kind = kind /\ ns[RWP].np = V /\ ns[RWP].load = l
    BY <1>6
  <1> HIDE DEF ns
  <1>8. /\ V \in RxBlock \ S /\ Chain(ns, RRP, V, S \cup {V})
        /\ \A x \in RxBlock : Span(RRP, x) < Span(RRP, RWP) => ns[x] = mem[x]
    BY <1>1, <1>3, <1>6, <1>7, Grows
  <1> HIDE DEF V
  <1>p. PICK P : P = S \cup {V}
    OBVIOUS
  <1>9. \A b \in S : b # RWP => ns[b] = mem[b]
    <2>1. ASSUME NEW b \in S, b # RWP PROVE Span(RRP, b) < Span(RRP, RWP)
      <3>1. mem[b].np \in S /\ Span(RRP, b) < Span(RRP, mem[b].np)
        BY <1>2, <2>1
      <3> QED BY <1>2, <3>1
    <2> QED BY <1>2, <1>8, <2>1
  <1>10. rrp \in S /\ (pc = "up" => frame \in S /\ frame # RWP)
    BY <1>1, <1>2 DEF Places
  <1>11. Ring'
    <2>1. rrp \in P /\ (pc = "look" => rwp \in P /\ Span(RRP, rrp) < Span(RRP, rwp))
      BY <1>1, <1>p DEF Places
    <2>2. pc = "up" => /\ frame \in P /\ Span(RRP, frame) < Span(RRP, rrp)
                       /\ ns[frame].kind = "okay"
                       /\ wrap # NONE => wrap = ns[frame].load
      BY <1>1, <1>9, <1>10, <1>p DEF Places
    <2>3. pc = "bump" => frame = RRP /\ rrp # RRP
      BY <1>1 DEF Places
    <2>4. Chain(mem', RRP', RWP', P) /\ P \in SUBSET RxBlock
      BY <1>2, <1>4, <1>8, <1>p
    <2>5. Places(P)'
      BY <1>4, <2>1, <2>2, <2>3 DEF Places
    <2> QED BY <2>4, <2>5 DEF Ring
  <1> DEFINE x == ItemOf(ns, RWP)
  <1>12. x \in Load \cup {"bad", "overrun"} /\ x \in Items
    BY <1>7 DEF ItemOf, Items
  <1>13. Waiting' = Append(Waiting, x)
    <2>1. Alike(mem, ns, RWP, S)
      BY <1>9 DEF Alike, ItemOf
    <2>2. \A b \in S : Along(ns, V, b) = Append(Along(mem, RWP, b), ItemOf(ns, RWP))
      <3>1. Gains(mem, ns, RWP, S, V)
        BY <1>7, <1>8, <1>12, <2>1 DEF Gains
      <3>2. Chain(mem, RRP, RWP, S) /\ Chain(ns, RRP, V, S \cup {V})
        BY <1>1, <1>8
      <3> QED BY <3>1, <3>2, MoreAlong
    <2>4. Waiting' = Along(ns, V, rrp) /\ Waiting = Along(mem, RWP, rrp)
      BY <1>4, WaitingIs
    <2> QED BY <1>10, <2>2, <2>4
  <1>14. Held' = Held
    <2>1. CASE pc = "up"
      <3>1. /\ frame \in S /\ frame # RWP /\ mem[frame].kind = "okay"
            /\ wrap # NONE => wrap = mem[frame].load
        BY <1>1, <1>10, <2>1 DEF Places
      <3>2. ns[frame] = mem[frame] /\ frame \in P /\ frame # V
        BY <1>8, <1>9, <1>p, <3>1
      <3>3. HeldIn(mem, "up", frame, wrap) = mem[frame].load
        BY <1>1, <3>1, HeldWhole
      <3>4. HeldIn(ns, "up", frame, wrap) = ns[frame].load
        BY <1>8, <1>p, <3>1, <3>2, HeldWhole
      <3> QED BY <1>4, <2>1, <3>2, <3>3, <3>4, HeldIs
    <2>2. CASE pc # "up"
      BY <1>4, <2>2 DEF Held
    <2> QED BY <2>1, <2>2
  <1>15. Frames!Arrive(x)
    BY <1>13, <1>14 DEF Frames!Arrive
  <1> QED BY <1>11, <1>12, <1>15 DEF Implements, Frames!Next

LEMMA Front ==
  ASSUME NEW s \in Seq(Items), NEW i \in Items
  PROVE  LET q == <<i>> \o s IN q # <<>> /\ Head(q) = i /\ Tail(q) = s
  OBVIOUS

LEMMA ReadStep ==
  ASSUME TypeOK, Ring, ReadRWP \/ Return
  PROVE  Implements
  <1>1. PICK S \in SUBSET RxBlock : Chain(mem, RRP, RWP, S) /\ Places(S)
    BY DEF Ring
  <1>2. /\ S \subseteq RxBlock /\ RRP \in RxBlock /\ RWP \in S /\ RxBlocks \in Nat
        /\ Span(RRP, RWP) \in 0..RxBlocks-1 /\ rrp \in S
        /\ \A b \in S : Span(RRP, b) \in 0..Span(RRP, RWP)
    BY <1>1, ChainParts DEF Places
  <1>3. UNCHANGED <<mem, RRP, RWP, rrp>> /\ pc # "up" /\ pc' \in {"look", "idle"}
    BY DEF ReadRWP, Return, InIdle
  <1>4. pc' = "look" => rwp' = RWP /\ RWP # rrp
    BY DEF ReadRWP, Return
  <1>5. RWP # rrp => Span(RRP, rrp) < Span(RRP, RWP)
    <2>1. Span(RRP, rrp) = Span(RRP, RWP) => rrp = RWP
      BY <1>2, Turned
    <2> QED BY <1>2, <2>1
  <1>6. Places(S)'
    BY <1>1, <1>2, <1>3, <1>4, <1>5 DEF Places
  <1>7. Ring'
    BY <1>1, <1>3, <1>6 DEF Ring
  <1>8. UNCHANGED Waiting /\ UNCHANGED Held
    BY <1>3, WaitingIs DEF Held
  <1> QED BY <1>7, <1>8 DEF Implements, Frames!vars

LEMMA LookFacts ==
  ASSUME NEW S \in SUBSET RxBlock, Chain(mem, RRP, RWP, S), Places(S), Look
  PROVE  /\ rwp \in S /\ rrp \in S /\ rrp # RWP /\ rrp # rwp
         /\ Span(RRP, rrp) < Span(RRP, rwp)
         /\ Waiting = <<ItemOf(mem, rrp)>> \o Along(mem, RWP, mem[rrp].np)
         /\ Waiting # <<>> /\ Head(Waiting) = ItemOf(mem, rrp)
         /\ Tail(Waiting) = Along(mem, RWP, mem[rrp].np)
         /\ Held = NONE /\ RWP' = RWP /\ mem[rrp].np \in S
         /\ Linked(mem, RRP, S, rrp) /\ Span(RRP, rrp) < Span(RRP, mem[rrp].np)
  <1>1. pc = "look" /\ RWP' = RWP
    BY DEF Look, InIdle
  <1>2. rwp \in S /\ rrp \in S /\ Span(RRP, rrp) < Span(RRP, rwp) /\ Held = NONE
    BY <1>1 DEF Places, Held
  <1>3. rrp # RWP /\ rrp # rwp
    BY <1>2, ChainParts
  <1>4. Linked(mem, RRP, S, rrp) /\ mem[rrp].np \in S /\ Span(RRP, rrp) < Span(RRP, mem[rrp].np)
    BY <1>2, <1>3, ChainParts
  <1>5. ItemOf(mem, rrp) \in Items
    BY <1>4 DEF Linked, ItemOf, Items
  <1>6. Waiting = <<ItemOf(mem, rrp)>> \o Along(mem, RWP, mem[rrp].np)
    BY <1>2, <1>3, WaitingIs, AlongIs
  <1>7. Along(mem, RWP, mem[rrp].np) \in Seq(Items)
    BY <1>4, AlongIs
  <1> QED BY <1>1, <1>2, <1>3, <1>4, <1>5, <1>6, <1>7, Front

LEMMA LookOverrunStep ==
  ASSUME TypeOK, Ring, Look, LookOverrun
  PROVE  Implements
  <1>1. PICK S \in SUBSET RxBlock : Chain(mem, RRP, RWP, S) /\ Places(S)
    BY DEF Ring
  <1>2. /\ rwp \in S /\ rrp \in S /\ rrp # rwp /\ Span(RRP, rrp) < Span(RRP, rwp)
        /\ Waiting # <<>> /\ Head(Waiting) = ItemOf(mem, rrp) /\ Held = NONE /\ RWP' = RWP
    BY <1>1, LookFacts
  <1>3. /\ mem[rrp].kind = "ovr" /\ rrp' = rwp /\ RRP' = rwp /\ pc' = "idle"
        /\ \A x \in RxBlock : ~(Span(RRP, x) < Span(RRP, rwp)) => mem'[x] = mem[x]
    BY DEF LookOverrun, GiveBack
  <1>4. PICK P : P = {b \in S : Span(RRP, rwp) <= Span(RRP, b)}
    OBVIOUS
  <1>5. Chain(mem', rwp, RWP, P) /\ \A b \in P : mem'[b] = mem[b]
    BY <1>1, <1>2, <1>3, <1>4, Shrinks
  <1>6. rwp \in P /\ P \subseteq S
    BY <1>1, <1>2, <1>4, ChainParts
  <1>7. Ring'
    <2>1. Places(P)'
      BY <1>3, <1>6 DEF Places
    <2>2. P \in SUBSET RxBlock
      BY <1>1, <1>6
    <2> QED BY <1>2, <1>3, <1>5, <2>1, <2>2 DEF Ring
  <1>8. Alike(mem, mem', RWP, P)
    BY <1>5 DEF Alike, ItemOf
  <1>9. Along(mem', RWP, rwp) = Along(mem, RWP, rwp)
    BY <1>1, <1>5, <1>6, <1>8, SameAlong
  <1>10. PICK n \in 0..Len(Waiting) : /\ Along(mem, RWP, rwp) = SubSeq(Waiting, n + 1, Len(Waiting))
                                      /\ n >= 1
    <2>1. Waiting = Along(mem, RWP, rrp)
      BY WaitingIs
    <2>2. Span(RRP, rrp) <= Span(RRP, rwp)
      BY <1>1, <1>2, ChainParts
    <2> QED BY <1>1, <1>2, <2>1, <2>2, FewerAlong
  <1>11. Waiting' = SubSeq(Waiting, n + 1, Len(Waiting)) /\ n \in 1..Len(Waiting)
    BY <1>2, <1>3, <1>9, <1>10, WaitingIs
  <1>12. Held' = Held /\ Head(Waiting) = "overrun"
    BY <1>2, <1>3 DEF Held, ItemOf
  <1>13. Frames!WriteOff
    BY <1>2, <1>11, <1>12 DEF Frames!WriteOff
  <1> QED BY <1>7, <1>13 DEF Implements, Frames!Next

LEMMA LookBadStep ==
  ASSUME TypeOK, Ring, Look, LookBad
  PROVE  Implements
  <1>1. PICK S \in SUBSET RxBlock : Chain(mem, RRP, RWP, S) /\ Places(S)
    BY DEF Ring
  <1>2. /\ Waiting # <<>> /\ Head(Waiting) = ItemOf(mem, rrp)
        /\ Tail(Waiting) = Along(mem, RWP, mem[rrp].np)
        /\ Held = NONE /\ RWP' = RWP /\ mem[rrp].np \in S
    BY <1>1, LookFacts
  <1>3. /\ mem[rrp].kind = "bad" /\ rrp' = mem[rrp].np /\ pc' = "idle"
        /\ UNCHANGED <<mem, RRP>>
    BY DEF LookBad
  <1>4. Ring'
    <2>1. Places(S)'
      BY <1>2, <1>3 DEF Places
    <2> QED BY <1>1, <1>2, <1>3, <2>1 DEF Ring
  <1>5. Waiting' = Tail(Waiting)
    BY <1>2, <1>3, WaitingIs
  <1>6. Held' = Held /\ Head(Waiting) = "bad"
    BY <1>2, <1>3 DEF Held, ItemOf
  <1>7. Frames!PassOver
    BY <1>2, <1>5, <1>6 DEF Frames!PassOver
  <1> QED BY <1>4, <1>7 DEF Implements, Frames!Next

LEMMA LookOkayStep ==
  ASSUME TypeOK, Ring, Look, LookOkay
  PROVE  Implements
  <1>1. PICK S \in SUBSET RxBlock : Chain(mem, RRP, RWP, S) /\ Places(S)
    BY DEF Ring
  <1>2. /\ rrp \in S /\ rrp # RWP
        /\ Waiting # <<>> /\ Head(Waiting) = ItemOf(mem, rrp)
        /\ Tail(Waiting) = Along(mem, RWP, mem[rrp].np)
        /\ Held = NONE /\ RWP' = RWP /\ mem[rrp].np \in S
        /\ Span(RRP, rrp) < Span(RRP, mem[rrp].np)
    BY <1>1, LookFacts
  <1>3. /\ mem[rrp].kind = "okay" /\ frame' = rrp /\ rrp' = mem[rrp].np /\ pc' = "up"
        /\ wrap' # NONE => wrap' = mem[rrp].load
        /\ UNCHANGED <<mem, RRP>>
    BY DEF LookOkay
  <1>4. Ring'
    <2>1. Places(S)'
      BY <1>2, <1>3 DEF Places
    <2> QED BY <1>1, <1>2, <1>3, <2>1 DEF Ring
  <1>5. Waiting' = Tail(Waiting)
    BY <1>2, <1>3, WaitingIs
  <1>6. HeldIn(mem, "up", rrp, wrap') = mem[rrp].load /\ mem[rrp].load \in Load
    BY <1>1, <1>2, <1>3, HeldWhole
  <1>7. Head(Waiting) = mem[rrp].load
    BY <1>2, <1>3 DEF ItemOf
  <1>8. Held' = Head(Waiting) /\ Head(Waiting) \in Load
    BY <1>3, <1>6, <1>7, HeldIs
  <1>9. Frames!Take
    BY <1>2, <1>5, <1>8 DEF Frames!Take
  <1> QED BY <1>4, <1>9 DEF Implements, Frames!Next

LEMMA UserMsgFreeStep ==
  ASSUME TypeOK, Ring, UserMsgFree
  PROVE  Implements
  <1>1. PICK S \in SUBSET RxBlock : Chain(mem, RRP, RWP, S) /\ Places(S)
    BY DEF Ring
  <1>2. /\ pc = "up" /\ frame \in S /\ S \subseteq RxBlock /\ RRP \in RxBlock /\ RxBlocks \in Nat
        /\ Span(RRP, frame) < Span(RRP, rrp) /\ rrp \in S /\ mem[frame].kind = "okay"
        /\ wrap # NONE => wrap = mem[frame].load
    BY <1>1, ChainParts DEF UserMsgFree, Places
  <1>3. frame # RWP /\ rrp # frame
    BY <1>1, <1>2, ChainParts
  <1>4. /\ UNCHANGED <<RWP, RRP, rrp>>
        /\ pc' = "late" \/ (pc' = "bump" /\ frame' = frame /\ frame = RRP)
    BY DEF UserMsgFree, InIdle
  <1>5. \A b \in RxBlock : /\ mem'[b].np = mem[b].np /\ mem'[b].kind = mem[b].kind
                           /\ mem'[b].load = mem[b].load
    <2>1. mem \in [RxBlock -> [kind : Kind, np : RxBlock, inuse : BOOLEAN, load : Contents]]
      BY DEF TypeOK
    <2>2. mem' = [mem EXCEPT ![frame].inuse = FALSE]
      BY DEF UserMsgFree
    <2> QED BY <1>2, <2>1, <2>2
  <1>6. Chain(mem', RRP, RWP, S)
    <2>1. ASSUME NEW b \in S, Linked(mem, RRP, S, b) PROVE Linked(mem', RRP, S, b)
      <3>1. mem'[b].np = mem[b].np /\ mem'[b].kind = mem[b].kind /\ mem'[b].load = mem[b].load
        BY <1>2, <1>5
      <3>2. Whole(mem, RRP, b) => Whole(mem', RRP, b)
        BY <1>5, <3>1 DEF Whole
      <3> QED BY <2>1, <3>1, <3>2 DEF Linked
    <2> QED BY <1>1, <2>1 DEF Chain
  <1>7. Ring'
    <2>1. Places(S)'
      BY <1>2, <1>3, <1>4 DEF Places
    <2> QED BY <1>4, <1>6, <2>1 DEF Ring
  <1>8. Waiting' = Waiting
    <2>1. Alike(mem, mem', RWP, S)
      BY <1>2, <1>5 DEF Alike, ItemOf
    <2>2. Along(mem', RWP, rrp) = Along(mem, RWP, rrp)
      BY <1>1, <1>2, <1>6, <2>1, SameAlong
    <2> QED BY <1>4, <2>2, WaitingIs
  <1>9. Held # NONE /\ Held' = NONE
    <2>1. HeldIn(mem, "up", frame, wrap) \in Load
      BY <1>1, <1>2, <1>3, HeldWhole
    <2>2. Held \in Load
      BY <1>2, <2>1, HeldIs
    <2> QED BY <1>4, <2>2, EtherAssumption DEF Held
  <1>10. Frames!Release
    BY <1>8, <1>9 DEF Frames!Release
  <1> QED BY <1>7, <1>10 DEF Implements, Frames!Next

LEMMA BumpStep ==
  ASSUME TypeOK, Ring, Bump
  PROVE  Implements
  <1>1. PICK S \in SUBSET RxBlock : Chain(mem, RRP, RWP, S) /\ Places(S)
    BY DEF Ring
  <1>2. /\ pc = "bump" /\ frame = RRP /\ rrp # RRP /\ rrp \in S /\ S \subseteq RxBlock
        /\ RRP \in S /\ RRP \in RxBlock /\ RxBlocks \in Nat
        /\ \A b \in S : Span(RRP, b) \in 0..Span(RRP, RWP)
    BY <1>1, ChainParts DEF Bump, Places, Chain
  <1>3. Span(RRP, RRP) = 0 /\ Span(RRP, rrp) # 0
    BY <1>2, Turned
  <1>4. RRP # RWP
    BY <1>2, <1>3
  <1> DEFINE to == mem[frame].np
  <1>5. to \in S /\ Span(RRP, to) <= Span(RRP, rrp)
    <2>1. Linked(mem, RRP, S, RRP)
      BY <1>1, <1>2, <1>4, ChainParts
    <2>2. Span(RRP, RRP) < Span(RRP, rrp)
      BY <1>2, <1>3
    <2> QED BY <1>2, <2>1, <2>2 DEF Linked
  <1>6. /\ RRP' = to /\ UNCHANGED <<RWP, rrp>>
        /\ pc' = "late" \/ (pc' = "bump" /\ frame' = to /\ to # rrp)
        /\ \A x \in RxBlock : ~(Span(RRP, x) < Span(RRP, to)) => mem'[x] = mem[x]
    BY <1>2 DEF Bump, GiveBack, InIdle, StopsAt
  <1>7. PICK t : t = to
    OBVIOUS
  <1> HIDE DEF to
  <1>8. PICK P : P = {b \in S : Span(RRP, t) <= Span(RRP, b)}
    OBVIOUS
  <1>9. Chain(mem', t, RWP, P) /\ \A b \in P : mem'[b] = mem[b]
    BY <1>1, <1>5, <1>6, <1>7, <1>8, Shrinks
  <1>10. rrp \in P /\ P \subseteq S
    BY <1>2, <1>5, <1>7, <1>8
  <1>11. Ring'
    <2>1. Places(P)'
      BY <1>6, <1>7, <1>10 DEF Places
    <2>2. P \in SUBSET RxBlock
      BY <1>2, <1>10
    <2> QED BY <1>6, <1>7, <1>9, <2>1, <2>2 DEF Ring
  <1>12. Waiting' = Waiting
    <2>1. Alike(mem, mem', RWP, P)
      BY <1>9 DEF Alike, ItemOf
    <2>2. Along(mem', RWP, rrp) = Along(mem, RWP, rrp)
      BY <1>1, <1>9, <1>10, <2>1, SameAlong
    <2> QED BY <1>6, <2>2, WaitingIs
  <1>13. Held' = Held
    BY <1>2, <1>6 DEF Held
  <1> QED BY <1>11, <1>12, <1>13 DEF Implements, Frames!vars

LEMMA FreeType ==
  ASSUME TypeOK
  PROVE  Free \in Nat
  <1>1. RWP \in RxBlock /\ RRP \in RxBlock /\ RxBlocks \in Nat
    BY Blocks DEF TypeOK
  <1>2. Span(RRP, RWP) \in 0..RxBlocks-1
    BY <1>1, Turned
  <1> QED BY <1>1, <1>2 DEF Free

LEMMA RingStep ==
  RingInv /\ [Next]_vars => Ring' /\ [Frames!Next]_(Frames!vars)
  <1> SUFFICES ASSUME TypeOK, Ring, [Next]_vars PROVE Implements
    BY DEF RingInv, IInv, Implements
  <1>1. ASSUME NEW k \in 1..RxMax, Damaged(k) PROVE Implements
    <2>1. k \in 1..Free /\ Writes(k, "bad", NONE)
      BY <1>1, EtherAssumption, FreeType DEF Damaged
    <2> QED BY <2>1, WritesStep
  <1>2. ASSUME NEW k \in 1..RxMax, NEW l \in Load, Receive(k, l) PROVE Implements
    <2>1. k \in 1..Free /\ Writes(k, "okay", l)
      BY <1>2, EtherAssumption, FreeType DEF Receive
    <2> QED BY <2>1, WritesStep
  <1>3. CASE Overrun
    <2>1. Free \in 1..Free /\ Writes(Free, "ovr", NONE)
      BY <1>3, FreeType DEF Overrun
    <2> QED BY <2>1, WritesStep
  <1>4. CASE ReadRWP \/ Return
    BY <1>4, ReadStep
  <1>5. CASE Look
    BY <1>5, LookOverrunStep, LookBadStep, LookOkayStep DEF Look
  <1>6. CASE UserMsgFree
    BY <1>6, UserMsgFreeStep
  <1>7. CASE Bump
    BY <1>7, BumpStep
  <1>8. CASE Transmit \/ Down \/ Send \/ ether_timeout \/ UNCHANGED vars
    <2>1. UNCHANGED <<rx, RWP>>
      BY <1>8 DEF Transmit, Down, Send, Wait, Fill, HandOver, InDown, ether_timeout, vars
    <2>2. UNCHANGED <<mem, RRP, RWP, rrp, pc, rwp, frame, wrap>>
      BY <2>1 DEF rx
    <2>3. Ring'
      <3>1. PICK S \in SUBSET RxBlock : Chain(mem, RRP, RWP, S) /\ Places(S)
        BY DEF Ring
      <3>2. Chain(mem', RRP', RWP', S) /\ Places(S)'
        BY <2>2, <3>1 DEF Places
      <3> QED BY <3>2 DEF Ring
    <2>4. UNCHANGED Waiting /\ UNCHANGED Held
      BY <2>2, WaitingIs, HeldIs
    <2> QED BY <2>3, <2>4 DEF Implements, Frames!vars
  <1> QED BY <1>1, <1>2, <1>3, <1>4, <1>5, <1>6, <1>7, <1>8 DEF Next, Chip, Idle

LEMMA RingInit == Init => Ring /\ Frames!Init
  <1> SUFFICES ASSUME Init PROVE Ring /\ Frames!Init
    OBVIOUS
  <1>1. RWP = 0 /\ RRP = 0 /\ rrp = 0 /\ pc = "idle" /\ 0 \in RxBlock
    BY Blocks DEF Init
  <1>2. Chain(mem, 0, 0, {0}) /\ Places({0})
    <2>1. Span(0, 0) = 0
      BY <1>1, Turned
    <2> QED BY <1>1, <2>1 DEF Chain, Places
  <1>3. Waiting = <<>>
    <2>1. Along(mem, 0, 0) = <<>>
      BY <1>2, AlongIs
    <2> QED BY <1>1, <2>1, WaitingIs
  <1>4. Held = NONE
    BY <1>1 DEF Held
  <1> QED BY <1>1, <1>2, <1>3, <1>4 DEF Ring, Frames!Init

(* The frames in the receive ring are linked from RRP to RWP, whatever chip    *)
(* and driver do in between, and nothing is written into them.                 *)
THEOREM RingIntact == Spec => []RingInv
  <1>1. Init => RingInv
    BY InitInv, RingInit DEF RingInv
  <1>2. RingInv /\ [Next]_vars => RingInv'
    BY TypeStep, OwnersStep, RingStep DEF RingInv, IInv
  <1> QED BY <1>1, <1>2, PTL DEF Spec

(* Frames reach their handlers in the order they came, each once and intact;   *)
(* only damaged frames and those behind an overrun are passed over.            *)
THEOREM ReceptionRefines == Spec => ReceivesInOrder
  BY RingInit, RingIntact, RingStep, PTL DEF Spec, ReceivesInOrder
===============================================================================
