-------------------------------- MODULE MCSR --------------------------------
(* Selective Repeat on a small instance: a window of two, so that a packet  *)
(* can arrive at B ahead of the one it waits for, and be confirmed ahead of *)
(* the one the timer stands for.                                            *)
EXTENDS SR
=============================================================================
