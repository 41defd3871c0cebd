-------------------------- MODULE MCDistanceVector --------------------------
(* Three routers, in a line or each a neighbour of the others.  The link    *)
(* costs are of the order of INF, so that a route that counts up overflows  *)
(* uint16_t.                                                                *)
EXTENDS DistanceVector

(* A router between two others; four links make exactly 2^16. *)
Line == <<<<0, 16384, INF>>, <<16384, 0, 16384>>, <<INF, 16384, 0>>>>

LineShortest == <<<<0, 16384, 32768>>, <<16384, 0, 16384>>, <<32768, 16384, 0>>>>

(* The direct link 1-3 is dearer than the way through 2. *)
Triangle == <<<<0, 20000, 60000>>, <<20000, 0, 20000>>, <<60000, 20000, 0>>>>

TriangleShortest ==
  <<<<0, 20000, 40000>>, <<20000, 0, 20000>>, <<40000, 20000, 0>>>>

(* The controller makes the link from 1 to 2 dearer. *)
OneUpdate == {<<1, 2, 25000>>}

(* The link from 2 to 1 gets dearer than a way back to 1 through 3 seems,  *)
(* and a later UPDATE takes the cost of that way for the cost of the link. *)
TwoUpdates == {<<2, 1, 60000>>, <<2, 3, 16384>>}

(* 2 may take 1 for crashed. *)
OneMiss == {<<2, 1>>}
=============================================================================
