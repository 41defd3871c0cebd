------------------------------- MODULE MCChat -------------------------------
(* Three clients for a table of two: one must leave before the third gets    *)
(* its entry and its descriptor, or it is served without one.                *)
EXTENDS ChatServer, TLC
Hosts == Permutations(Clients)
=============================================================================
