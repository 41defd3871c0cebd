------------------------------ MODULE Packets ------------------------------
(***************************************************************************)
(* The packets of the transport-layer simulator (struct pkt), the checksum *)
(* that ABT, GBN and SR all compute in the same way, and what the medium   *)
(* of simulator.cpp may do to the packets it is handed: lose them or       *)
(* damage one field.  It never reorders them.                              *)
(*                                                                         *)
(* A layer-5 message is 20 copies of one letter.  A payload is therefore   *)
(* two bytes here: the first one, the only byte the medium ever damages,   *)
(* and the value the other nineteen share.                                 *)
(***************************************************************************)
EXTENDS Integers, Sequences

CONSTANT CorruptKinds   \* the fields tolayer3 may damage in this instance

ASSUME CorruptKindsAssumption ==
  CorruptKinds \subseteq {"payload", "seqnum", "acknum"}

CorruptByte   == 90       \* 'Z', written over payload[0]
CorruptNumber == 999999   \* written over seqnum or acknum

Payload == [first : Int, rest : Int]
Pkt == [seqnum : Int, acknum : Int, checksum : Int, payload : Payload]

(* The letter layer 5 puts in its k-th message, k counted from 0. *)
Letter(k) == 97 + (k % 26)

Text(c) == [first |-> c, rest |-> c]
EmptyText == Text(0)   \* memset(payload, '\0', 20)

getChecksum(p) == p.seqnum + p.acknum + p.payload.first + 19 * p.payload.rest

setChecksum(p) == [p EXCEPT !.checksum = getChecksum(p)]

isValidChecksum(p) == p.checksum = getChecksum(p)

(* An acknowledgement as GBN's and SR's B_input build it. *)
AckPkt(n) == setChecksum([seqnum |-> 0, acknum |-> n, checksum |-> 0,
                          payload |-> EmptyText])

-----------------------------------------------------------------------------
(* The medium *)

Damage(p, how) ==
  CASE how = "payload" -> [p EXCEPT !.payload.first = CorruptByte]
    [] how = "seqnum"  -> [p EXCEPT !.seqnum = CorruptNumber]
    [] how = "acknum"  -> [p EXCEPT !.acknum = CorruptNumber]
    [] how = "intact"  -> p

Fates == CorruptKinds \cup {"intact"}

(* Which of n packets survive, in order: the increasing choices of m of n. *)
Survivors(n, m) ==
  {f \in [1 .. m -> 1 .. n] : \A i, j \in 1 .. m : i < j => f[i] < f[j]}

(* Everything the other side may see of the packets s, handed over in one  *)
(* burst: any of them lost, any of the others damaged, the order kept.     *)
Carried(s) ==
  UNION { { [i \in 1 .. m |-> Damage(s[f[i]], d[i])] :
              f \in Survivors(Len(s), m), d \in [1 .. m -> Fates] } :
          m \in 0 .. Len(s) }
=============================================================================
