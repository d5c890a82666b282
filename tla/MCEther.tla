-------------------------------- MODULE MCEther --------------------------------
(* Ether with rings of a few blocks and frames of one or two.                  *)
EXTENDS Ether
CONSTANTS f1, f2
===============================================================================
