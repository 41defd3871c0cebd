------------------------------- MODULE MCGBN -------------------------------
(* GBN on a small instance.  Four messages let the window of two fill, move *)
(* and fill again while packets of the old window are still under way.      *)
EXTENDS GBN
=============================================================================
