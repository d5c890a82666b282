-------------------------------- MODULE MCStack --------------------------------
(* Stack with a host on the local network and one behind the gateway, and      *)
(* fewer messages than can be wanted, so that the pool and a queue are full.   *)
EXTENDS Stack
CONSTANTS h, r, g, me
===============================================================================
