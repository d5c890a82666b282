------------------------------ MODULE FrameQueue -------------------------------
(* What the receive side of the Ethernet driver promises: frames come out in   *)
(* the order they came in.  A frame is passed over only if it is damaged, and  *)
(* written off only with an overrun before it; the frame a handler holds stays *)
(* as it is until the handler frees it.                                        *)
EXTENDS Naturals, Sequences

CONSTANTS Load,     \* what is in a frame
          Bad,      \* a damaged frame
          Overrun,  \* the mark of an overrun
          NONE

VARIABLES q,        \* the frames in memory that have not been looked at
          held      \* the frame that is held, or NONE
vars == <<q, held>>

Init == q = <<>> /\ held = NONE

Arrive(f) == q' = Append(q, f) /\ UNCHANGED held
Take      == /\ q # <<>> /\ Head(q) \in Load
             /\ held = NONE
             /\ held' = Head(q)
             /\ q' = Tail(q)
PassOver  == q # <<>> /\ Head(q) = Bad /\ q' = Tail(q) /\ UNCHANGED held
WriteOff  == /\ q # <<>> /\ Head(q) = Overrun
             /\ \E n \in 1..Len(q) : q' = SubSeq(q, n + 1, Len(q))
             /\ UNCHANGED held
Release   == held # NONE /\ held' = NONE /\ UNCHANGED q

Next == (\E f \in Load \cup {Bad, Overrun} : Arrive(f))
        \/ Take \/ PassOver \/ WriteOff \/ Release
===============================================================================
