-------------------------- MODULE ReliableTransfer --------------------------
(***************************************************************************)
(* What each of the three transport protocols promises to its user: the    *)
(* messages accepted from layer 5 at A are delivered to layer 5 at B in    *)
(* order, without gap, duplicate or damage, and A regards a message as     *)
(* confirmed (it may forget it, and move on) only after B delivered it,    *)
(* and never takes that back.                                              *)
(***************************************************************************)
EXTENDS Naturals

VARIABLES
  accepted,    \* messages A took from layer 5
  delivered,   \* messages B gave to layer 5
  confirmed,   \* messages A knows to be delivered
  failed       \* layer 5 at B saw something else than the next message

rtvars == <<accepted, delivered, confirmed, failed>>

Init ==
  /\ accepted = 0
  /\ delivered = 0
  /\ confirmed = 0
  /\ failed = FALSE

Accept ==
  /\ accepted' = accepted + 1
  /\ UNCHANGED <<delivered, confirmed, failed>>

Deliver ==
  /\ \E n \in delivered + 1 .. accepted : delivered' = n
  /\ UNCHANGED <<accepted, confirmed, failed>>

Confirm ==
  /\ \E n \in confirmed + 1 .. delivered : confirmed' = n
  /\ UNCHANGED <<accepted, delivered, failed>>

Next == Accept \/ Deliver \/ Confirm

Spec == Init /\ [][Next]_rtvars
=============================================================================
