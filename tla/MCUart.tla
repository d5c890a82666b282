--------------------------------- MODULE MCUart ---------------------------------
(* Uart with a receive ring of two slots and a transmit ring of three, which   *)
(* wrap and fill, and two characters, so that a swap of two shows.             *)
EXTENDS Uart
===============================================================================
