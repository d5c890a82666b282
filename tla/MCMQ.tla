--------------------------------- MODULE MCMQ ---------------------------------
(* MQUser on a ring of four slots and three messages: every index wraps, and   *)
(* the ring is full with three messages queued.                                *)
EXTENDS MQUser
CONSTANTS m1, m2, m3
===============================================================================
