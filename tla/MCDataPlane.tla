---------------------------- MODULE MCDataPlane ----------------------------
(* Three routers in a line.  Two transfers meet in the buffer of router 3.   *)
(* The third is shorter than a packet, meets them on the way, and has no TTL *)
(* left where it arrives.                                                    *)
EXTENDS DataPlane

Transfer(src, dest, TTL, id, n) ==
  [src |-> src, dest |-> dest, TTL |-> TTL, transfer_id |-> id, packets_n |-> n,
   init_seq_num |-> 65535 - id]

Meeting == {Transfer(1, 3, 0, 1, 2), Transfer(2, 3, 3, 0, 2), Transfer(3, 2, 1, 2, 0)}

(* Router 2's way to 3 may be right, back to 1, or not known. *)
Rows == <<{<<1, 2, 2>>}, {<<1, 2, 3>>, <<1, 2, 1>>, <<1, 2, NoRoute>>}, {<<2, 2, 3>>}>>

Counted == {<<Garbage>>}

(* Two neighbours send each other a file at the same time. *)
Mutual == {Transfer(1, 2, 2, 0, 3), Transfer(2, 1, 2, 1, 3)}
Direct == <<{<<1, 2>>}, {<<1, 2>>}>>
FromZero == {<< >>}
=============================================================================
