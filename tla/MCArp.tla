--------------------------------- MODULE MCArp ---------------------------------
(* Arp with fewer entries than addresses, so that every way to select an entry *)
(* is taken, and fewer slots in a queue than messages, so that one is full.    *)
EXTENDS Arp
CONSTANTS i1, i2, i3, m1, m2, m3
===============================================================================
