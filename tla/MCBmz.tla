--------------------------------- MODULE MCBmz ---------------------------------
(* Bmz on tx buffers of one byte, so that a second message does not fit; Depths *)
(* gives every queue the same depth.                                           *)
EXTENDS Bmz
CONSTANT AnyDepth
Depths == [s \in Sock |-> AnyDepth]
===============================================================================
