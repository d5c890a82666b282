-------------------------------- MODULE Channel --------------------------------
(* What a ring between a main program and an interrupt routine promises: the   *)
(* characters go through it in order, and none is lost except beyond a         *)
(* capacity.                                                                   *)
EXTENDS Naturals, Sequences

CONSTANTS Char,
          Overrun,    \* whether any may be lost for want of room
          Capacity

VARIABLE q     \* the characters in the channel, oldest first
vars == <<q>>

Init == q = <<>>

Put(c) == q' = Append(q, c)
Get    == q # <<>> /\ q' = Tail(q)
Lose   == /\ Overrun
          /\ Len(q) > Capacity
          /\ q' = SubSeq(q, 1, Capacity) \o SubSeq(q, Capacity + 2, Len(q))

Next == (\E c \in Char : Put(c)) \/ Get \/ Lose
===============================================================================
