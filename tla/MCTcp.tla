--------------------------------- MODULE MCTcp ---------------------------------
(* TcpLink with one byte to a message.  A tx buffer of two bytes takes at most *)
(* two segments, one of three bytes takes three, as 999 bytes do in 446-byte   *)
(* messages.                                                                   *)
EXTENDS TcpLink
===============================================================================
