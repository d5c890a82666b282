-------------------------------- MODULE MCTimer --------------------------------
(* Timer on two timers and one place in expired_timers, so that one of them is *)
(* postponed; durations of one tick, and of more than MaxLag.                  *)
EXTENDS Timer
CONSTANTS t1, t2
===============================================================================
