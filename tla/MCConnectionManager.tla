------------------------ MODULE MCConnectionManager ------------------------
(* One router with a neighbour, a second router that only sends it data,    *)
(* and a controller whose connections come and go, so that descriptors are  *)
(* given out again.                                                         *)
EXTENDS ConnectionManager

CONSTANTS n1, n2, c1
=============================================================================
