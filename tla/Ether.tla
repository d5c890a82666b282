--------------------------------- MODULE Ether ---------------------------------
(* The Ethernet driver of BMZ (ether.c) and the chip it shares memory with.    *)
(*                                                                             *)
(* Memory is counted in blocks (of 32 bytes, to which frames are aligned): a   *)
(* ring for reception from bp to rhbp, a ring for transmission from tlbp to bp,*)
(* and room for the copy of one frame.  A frame starts with its descriptor.    *)
(* The chip writes at RWP and may go on up to RRP, and transmits at TRP; it    *)
(* runs beside the program, between any two steps of it.  A register's two     *)
(* bytes are read and written as one here.                                     *)
EXTENDS Naturals, Sequences

CONSTANTS RxBlocks, TxBlocks,   \* blocks in each ring (175 and 21)
          RxMax,                \* blocks of the largest frame received (48)
          TxMax,                \* and sent (19)
          Load,                 \* contents of frames
          NONE

ASSUME EtherAssumption == /\ RxMax \in Nat \ {0} /\ RxBlocks \in Nat /\ RxMax < RxBlocks
                          /\ TxMax \in Nat \ {0} /\ TxBlocks \in Nat /\ TxMax < TxBlocks
                          /\ NONE \notin Load \cup 0..RxBlocks-1

RxBlock == 0..RxBlocks-1
TxBlock == 0..TxBlocks-1

VARIABLES
  mem,      \* the receive ring: of each block what its first bytes say
  RWP, RRP, \* where the chip writes, and where it has to stop
  rrp,      \* z.rrp, the first frame not looked at
  pc,       \* where ether_idle is: it also stands for the handlers it calls
  rwp,      \* its copy of RWP (0 when it has none)
  frame,    \* the frame that is made into a MSG, or NONE
  wrap,     \* the copy of the frame if it is wrapped, else NONE
  flags,    \* the transmit ring: of each block whom its first bytes make owner
  TRP,      \* where the chip transmits
  twp,      \* z.twp, where the next frame goes
  tpc,      \* where ether_down is
  desc,     \* the last descriptor it has filled in; np is z.twp since then
  sent,     \* what that descriptor is the beginning of
  link,     \* z.link_operational
  timer     \* whether z.timer runs
rx   == <<mem, RRP, rrp, pc, rwp, frame, wrap>>
tx   == <<flags, twp, tpc, desc, sent>>
vars == <<rx, RWP, tx, TRP, link, timer>>

PC  == {"idle", "look", "up", "bump", "late"}
TPC == {"none", "wait", "fill", "flags", "last"}

(* A block that is in the middle of a frame, or has never been written.        *)
Data(l)     == [kind |-> "data", np |-> 0, inuse |-> TRUE, load |-> l]

(* ether_init.                                                                 *)
Init == /\ mem = [b \in RxBlock |-> Data(NONE)]
        /\ RWP = 0 /\ RRP = 0 /\ rrp = 0
        /\ pc = "idle" /\ rwp = 0 /\ frame = NONE /\ wrap = NONE
        /\ flags = [b \in TxBlock |-> "host"]
        /\ TRP = 0 /\ twp = 0
        /\ tpc = "none" /\ desc = 0 /\ sent = NONE
        /\ link \in BOOLEAN
        /\ timer = ~link

-------------------------------------------------------------------------------
(* The chip.  It keeps one block free, to tell a full ring from an empty one.  *)
After(b, k)  == (b + k) % RxBlocks
Span(b, e)   == (e + RxBlocks - b) % RxBlocks
Free         == RxBlocks - 1 - Span(RRP, RWP)

Writes(k, kind, l) ==
    /\ mem' = [b \in RxBlock |->
                 IF b = RWP THEN [kind |-> kind, np |-> After(RWP, k), inuse |-> TRUE, load |-> l]
                 ELSE IF Span(RWP, b) < k THEN Data(l) ELSE mem[b]]
    /\ RWP' = After(RWP, k)
    /\ UNCHANGED <<RRP, rrp, pc, rwp, frame, wrap, tx, TRP, link, timer>>

Receive(k, l) == k <= Free /\ Writes(k, "okay", l)
Damaged(k)    == k <= Free /\ Writes(k, "bad", NONE)

(* A frame for which there is no room is cut short and marked.                 *)
Overrun == Free \in 1..RxMax-1 /\ Writes(Free, "ovr", NONE)

(* It transmits the frame at TRP if the descriptor there says that it owns it, *)
(* and goes on where that says.  What is left of older frames may say so too.  *)
Transmit == /\ flags[TRP] \in {"emac", "junk"}
            /\ IF TRP = desc THEN TRP' = twp ELSE TRP' \in TxBlock
            /\ UNCHANGED <<rx, RWP, tx, link, timer>>

-------------------------------------------------------------------------------
(* ether_idle, a turn of the driver: has the chip written a frame?             *)
InIdle == tpc = "none" /\ UNCHANGED <<RWP, tx, TRP, link, timer>>

ReadRWP == /\ pc = "idle"
           /\ RWP # rrp
           /\ rwp' = RWP
           /\ pc' = "look"
           /\ InIdle
           /\ UNCHANGED <<mem, RRP, rrp, frame, wrap>>

(* Whether the frame at z.rrp does not end before the end of the ring.         *)
Wraps(b) == mem[b].np < b /\ mem[b].np # 0

(* RRP moves: from here on the chip may write up to there at any moment, and   *)
(* what was in that memory is as good as gone.                                 *)
GiveBack(to) == /\ RRP' = to
                /\ mem' = [b \in RxBlock |->
                              IF Span(RRP, b) < Span(RRP, to) THEN Data(NONE) ELSE mem[b]]

LookOverrunLate == /\ mem[rrp].kind = "ovr"
                   /\ rrp' = rwp
                   /\ GiveBack(RWP)
                   /\ pc' = "idle"
                   /\ UNCHANGED <<frame, wrap>>
LookOverrun == /\ mem[rrp].kind = "ovr"
               /\ rrp' = rwp
               /\ GiveBack(rwp)
               /\ pc' = "idle"
               /\ UNCHANGED <<frame, wrap>>

LookBadAgain == /\ mem[rrp].kind = "bad"
                /\ pc' = "idle"
                /\ UNCHANGED <<mem, RRP, rrp, frame, wrap>>
LookBad == /\ mem[rrp].kind = "bad"
           /\ rrp' = mem[rrp].np
           /\ pc' = "idle"
           /\ UNCHANGED <<mem, RRP, frame, wrap>>

(* The frame is made into a MSG, copied if it is wrapped, and sent up.         *)
LookOkay == /\ mem[rrp].kind = "okay"
            /\ frame' = rrp
            /\ wrap' = IF Wraps(rrp) THEN mem[rrp].load ELSE NONE
            /\ rrp' = mem[rrp].np
            /\ pc' = "up"
            /\ UNCHANGED <<mem, RRP>>

Look == /\ pc = "look"
        /\ LookOverrun \/ LookBad \/ LookOkay
        /\ rwp' = 0
        /\ InIdle

(* user_msg_free, from a handler.  If the frame is the one at RRP, that moves  *)
(* past it and past the frames that were freed before.                         *)
UserMsgFree == /\ pc = "up"
               /\ InIdle
               /\ mem' = [mem EXCEPT ![frame].inuse = FALSE]
               /\ wrap' = NONE
               /\ IF frame = RRP THEN pc' = "bump" /\ UNCHANGED frame
                                 ELSE pc' = "late" /\ frame' = NONE
               /\ UNCHANGED <<RRP, rrp, rwp>>

StopsAt(b) == b = rrp \/ mem[b].inuse
Bump == /\ pc = "bump"
        /\ InIdle
        /\ GiveBack(mem[frame].np)
        /\ IF StopsAt(RRP') THEN pc' = "late" /\ frame' = NONE
                            ELSE frame' = RRP' /\ UNCHANGED pc
        /\ UNCHANGED <<rrp, rwp, wrap>>

(* The handlers, and ether_idle, return.                                       *)
Return == /\ pc = "late"
          /\ InIdle
          /\ pc' = "idle"
          /\ UNCHANGED <<mem, RRP, rrp, rwp, frame, wrap>>

-------------------------------------------------------------------------------
(* ether_down, from a handler of the frame, before or after it frees it, or    *)
(* from another task.  Without a link the message is freed and that is all.    *)
InDown == UNCHANGED <<rx, RWP, TRP, link, timer>>

Down == /\ tpc = "none"
        /\ pc \in {"idle", "up", "late"}
        /\ link
        /\ tpc' = "wait"
        /\ InDown
        /\ UNCHANGED <<flags, twp, desc, sent>>

(* It waits until the chip has transmitted what went before.                   *)
Wait == /\ tpc = "wait"
        /\ TRP = twp
        /\ tpc' = "fill"
        /\ InDown
        /\ UNCHANGED <<flags, twp, desc, sent>>

(* It copies the message, and says where the next frame will be.               *)
NextFreeNoWrap(k) == twp + k
NextFree(k) == (twp + k) % TxBlocks
Within(k)   == {(twp + j) % TxBlocks : j \in 1..k-1}
Fill(k) == /\ tpc = "fill"
           /\ flags' = [b \in TxBlock |-> IF b \in Within(k) THEN "junk" ELSE flags[b]]
           /\ desc' = twp
           /\ sent' \in Load
           /\ twp' = NextFree(k)
           /\ tpc' = "flags"
           /\ InDown

(* It marks the next descriptor as its own, and only then gives this one away. *)
Marks(b, owner) == flags' = [flags EXCEPT ![b] = owner]
HandOverFirst ==
    /\ \/ tpc = "flags" /\ Marks(desc, "emac") /\ tpc' = "last"
       \/ tpc = "last"  /\ Marks(twp, "host") /\ tpc' = "none"
    /\ InDown
    /\ UNCHANGED <<twp, desc, sent>>
HandOver ==
    /\ \/ tpc = "flags" /\ Marks(twp, "host") /\ tpc' = "last"
       \/ tpc = "last"  /\ Marks(desc, "emac") /\ tpc' = "none"
    /\ InDown
    /\ UNCHANGED <<twp, desc, sent>>

(* ether_timeout: try the link again.                                          *)
ether_timeout == /\ timer
                 /\ pc = "idle" /\ tpc = "none"
                 /\ link' \in BOOLEAN
                 /\ timer' = ~link'
                 /\ UNCHANGED <<rx, RWP, tx, TRP>>

-------------------------------------------------------------------------------
Chip == \/ \E k \in 1..RxMax : Damaged(k) \/ \E l \in Load : Receive(k, l)
        \/ Overrun \/ Transmit
Idle == ReadRWP \/ Look \/ UserMsgFree \/ Bump \/ Return
Send == Wait \/ (\E k \in 1..TxMax : Fill(k)) \/ HandOver

Next == Chip \/ Idle \/ Down \/ Send \/ ether_timeout

(* The chip transmits, ether_down goes on when it can, and ether_idle is       *)
(* called, and its handlers return, however often there is something to send.  *)
Fairness == /\ WF_vars(Transmit) /\ WF_vars(Send)
            /\ SF_vars(ReadRWP) /\ WF_vars(Look) /\ SF_vars(UserMsgFree)
            /\ WF_vars(Bump) /\ SF_vars(Return)
Spec == Init /\ [][Next]_vars /\ Fairness

-------------------------------------------------------------------------------
Kind == {"okay", "bad", "ovr", "data"}
Contents == Load \cup {NONE}

TypeOK == /\ mem \in [RxBlock -> [kind : Kind, np : RxBlock, inuse : BOOLEAN, load : Contents]]
          /\ {RWP, RRP, rrp, rwp} \subseteq RxBlock
          /\ pc \in PC
          /\ frame \in RxBlock \cup {NONE}
          /\ frame # NONE <=> pc \in {"up", "bump"}
          /\ wrap \in Contents
          /\ flags \in [TxBlock -> {"host", "emac", "junk"}]
          /\ {TRP, twp, desc} \subseteq TxBlock
          /\ tpc \in TPC
          /\ sent \in Contents
          /\ link \in BOOLEAN /\ timer \in BOOLEAN

(* The frames from z.rrp to RWP, following the pointers in their descriptors.  *)
Item(b) == CASE mem[b].kind = "okay" -> mem[b].load
             [] mem[b].kind = "bad"  -> "bad"
             [] OTHER                -> "overrun"
Waiting == LET f[n \in 0..RxBlocks] ==
                 [b \in RxBlock |-> IF b = RWP \/ n = 0 THEN <<>>
                                    ELSE <<Item(b)>> \o f[n-1][mem[b].np]]
           IN  f[RxBlocks][rrp]

(* What the holder of the frame reads: the copy, or the frame's own blocks.    *)
Held == IF pc # "up" THEN NONE
        ELSE IF wrap # NONE THEN wrap
        ELSE IF \A b \in RxBlock : Span(frame, b) < Span(frame, mem[frame].np)
                                      => mem[b].load = mem[frame].load
          THEN mem[frame].load ELSE "torn"

Frames == INSTANCE FrameQueue WITH q <- Waiting, held <- Held,
                                   Bad <- "bad", Overrun <- "overrun"

(* Frames reach their handlers in the order they came, each once, whatever the *)
(* chip receives in the meantime, and stay intact until they are freed; only   *)
(* damaged frames and those behind an overrun are passed over.                 *)
ReceivesInOrder == Frames!Init /\ [][Frames!Next]_Frames!vars

(* The chip transmits each message once, in order and whole, and nothing else, *)
(* wherever it looks while the next one is put in memory.                      *)
OnItsWay == IF TRP = twp THEN <<>> ELSE IF TRP = desc THEN <<sent>> ELSE <<NONE>>
Sending  == INSTANCE Channel WITH q <- OnItsWay, Char <- Load, Overrun <- FALSE,
                                  Capacity <- 1
TransmitsInOrder == Sending!Init /\ [][Sending!Next]_Sending!vars

(* While frames are waiting z.rrp keeps moving on, although ether_down waits   *)
(* for the chip and other tasks send as often as they like.                    *)
KeepsReading == <>[](RWP # rrp) => []<><<TRUE>>_rrp

(* ether.c: "release it back to EMAC ownership by bumping RRP to next frame",  *)
(* "if we have sent no more messages stop": when the driver is idle the chip   *)
(* has back the memory of every frame that has been dealt with.                *)
ReleasedWhenIdle == pc = "idle" => RRP = rrp
===============================================================================
