----------------------------- MODULE MCTimedSR -----------------------------
(* Messages in quick succession or far apart, packets fast or slow: both     *)
(* packets of a window can be lost and sent again while others wait.         *)
EXTENDS TimedSR
=============================================================================
