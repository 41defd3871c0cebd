------------------------------- MODULE MCABT -------------------------------
(* The alternating-bit protocol on a small instance: enough messages for    *)
(* both bits to be reused and for the buffer to be written and read.        *)
EXTENDS ABT
=============================================================================
