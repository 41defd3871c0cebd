-------------------------------- MODULE ABT --------------------------------
(***************************************************************************)
(* The alternating-bit protocol of abt.cpp.  A keeps one packet in         *)
(* transit.  A message that arrives meanwhile is appended to a buffer that *)
(* is only looked at when the next message arrives: once a message was     *)
(* buffered, every later one is, and A is always behind by what piled up.  *)
(***************************************************************************)
EXTENDS Simulator

(* What the fields that A_init and B_init leave unset may hold: both       *)
(* packets come from operator new, which does not clear them.              *)
CONSTANT Garbage

ASSUME GarbageAssumption == Garbage \subseteq Int

VARIABLES
  seq_A,          \* A: the bit of the packet in transit, or of the next one
  inTransit,      \* A: is a packet unconfirmed?
  currentpkt_A,   \* A: that packet
  buffer,         \* A: buffer[0 .. hasBuffer - 1]
  buffCount,      \* A: how many of the buffered messages were sent
  ack_B,          \* B: the bit it expects
  currentpkt_B    \* B: its last acknowledgement

vars == <<simvars, seq_A, inTransit, currentpkt_A, buffer, buffCount,
          ack_B, currentpkt_B>>

hasBuffer == Len(buffer)

TypeOK ==
  /\ SimTypeOK
  /\ seq_A \in {0, 1}
  /\ inTransit \in {0, 1}
  /\ currentpkt_A \in Pkt
  /\ buffer \in Seq(Payload)
  /\ buffCount \in Nat
  /\ ack_B \in {0, 1}
  /\ currentpkt_B \in Pkt

Init ==
  /\ SimInit
  /\ seq_A = 0
  /\ inTransit = 0
  /\ \E a \in Garbage :
       currentpkt_A = [seqnum |-> 0, acknum |-> a, checksum |-> 0,
                       payload |-> EmptyText]
  /\ buffer = << >>
  /\ buffCount = 0
  /\ ack_B = 0
  /\ \E s, c, d \in Garbage :
       currentpkt_B = [seqnum |-> s, acknum |-> 0, checksum |-> c,
                       payload |-> Text(d)]

Flip(bit) == IF bit = 0 THEN 1 ELSE 0

(* Mutant: the read index one ahead. *)
BufferedNext(i) == IF i + 1 < hasBuffer THEN buffer[i + 2] ELSE EmptyText

(* buffer[i] before anything was written there holds zeros. *)
Buffered(i) == IF i < hasBuffer THEN buffer[i + 1] ELSE EmptyText

(* Puts the text into A's packet, sends it and starts the timer. *)
Transmit(text) ==
  /\ RoomFor(toB, 1)
  /\ currentpkt_A' = setChecksum([seqnum |-> seq_A,
                                  acknum |-> currentpkt_A.acknum,
                                  checksum |-> 0, payload |-> text])
  /\ toB' \in tolayer3(toB, <<currentpkt_A'>>)
  /\ timer' = TRUE
  /\ inTransit' = 1

(* Mutant: a message that finds the link idle replaces the one it is to be *)
(* queued behind, instead of joining the buffer.                           *)
A_outputUnqueued ==
  /\ FromLayer5
  /\ \/ /\ inTransit = 0 /\ hasBuffer > 0
        /\ Transmit(Buffered(buffCount))
        /\ buffCount' = buffCount + 1
        /\ UNCHANGED buffer
     \/ /\ inTransit = 0 /\ hasBuffer = 0
        /\ Transmit(Text(Letter(nsim)))
        /\ UNCHANGED <<buffer, buffCount>>
     \/ /\ inTransit = 1
        /\ buffer' = Append(buffer, Text(Letter(nsim)))
        /\ UNCHANGED <<toB, timer, currentpkt_A, inTransit, buffCount>>
  /\ UNCHANGED <<cur_msg_recv, exitcode, toA, seq_A, ack_B, currentpkt_B>>

A_output ==
  LET message == Text(Letter(nsim))
  IN  /\ FromLayer5
      /\ \/ /\ inTransit = 0 /\ hasBuffer > 0
            /\ Transmit(Buffered(buffCount))
            /\ buffer' = Append(buffer, message)
            /\ buffCount' = buffCount + 1
         \/ /\ inTransit = 0 /\ hasBuffer = 0
            /\ Transmit(message)
            /\ UNCHANGED <<buffer, buffCount>>
         \/ /\ inTransit = 1
            /\ buffer' = Append(buffer, message)
            /\ UNCHANGED <<toB, timer, currentpkt_A, inTransit, buffCount>>
      /\ UNCHANGED <<cur_msg_recv, exitcode, toA, seq_A, ack_B, currentpkt_B>>

(* Mutant: any undamaged acknowledgement is taken for the one awaited. *)
A_inputAnyBit ==
  /\ FromLayer3A
  /\ IF isValidChecksum(Head(toA)) /\ inTransit = 1
     THEN seq_A' = Flip(seq_A) /\ inTransit' = 0 /\ timer' = FALSE
     ELSE UNCHANGED <<seq_A, inTransit, timer>>
  /\ UNCHANGED <<nsim, cur_msg_recv, exitcode, toB, currentpkt_A, buffer,
                 buffCount, ack_B, currentpkt_B>>

A_input ==
  /\ FromLayer3A
  /\ IF isValidChecksum(Head(toA)) /\ Head(toA).acknum = seq_A /\ inTransit = 1
     THEN /\ seq_A' = Flip(seq_A)
          /\ inTransit' = 0
          /\ timer' = FALSE
     ELSE UNCHANGED <<seq_A, inTransit, timer>>
  /\ UNCHANGED <<nsim, cur_msg_recv, exitcode, toB, currentpkt_A, buffer,
                 buffCount, ack_B, currentpkt_B>>

(* Mutant: the timer is not started again. *)
A_timerinterruptOnce ==
  /\ TimerEvent
  /\ RoomFor(toB, 1)
  /\ toB' \in tolayer3(toB, <<currentpkt_A>>)
  /\ timer' = FALSE
  /\ UNCHANGED <<nsim, cur_msg_recv, exitcode, toA, seq_A, inTransit,
                 currentpkt_A, buffer, buffCount, ack_B, currentpkt_B>>

A_timerinterrupt ==
  /\ TimerEvent
  /\ RoomFor(toB, 1)
  /\ toB' \in tolayer3(toB, <<currentpkt_A>>)
  /\ timer' = TRUE
  /\ UNCHANGED <<nsim, cur_msg_recv, exitcode, toA, seq_A, inTransit,
                 currentpkt_A, buffer, buffCount, ack_B, currentpkt_B>>

(* Mutant: a damaged packet is answered, with the last acknowledgement. *)
B_inputNak ==
  /\ FromLayer3B
  /\ RoomFor(toA, 1)
  /\ IF isValidChecksum(Head(toB)) /\ Head(toB).seqnum = ack_B
     THEN /\ tolayer5(<<Head(toB).payload>>)
          /\ currentpkt_B' = AckPkt(ack_B)
          /\ ack_B' = Flip(ack_B)
     ELSE UNCHANGED <<cur_msg_recv, exitcode, ack_B, currentpkt_B>>
  /\ toA' \in tolayer3(toA, <<currentpkt_B'>>)
  /\ UNCHANGED <<nsim, timer, seq_A, inTransit, currentpkt_A, buffer, buffCount>>

B_input ==
  /\ FromLayer3B
  /\ \/ /\ ~isValidChecksum(Head(toB))
        /\ UNCHANGED <<cur_msg_recv, exitcode, toA, ack_B, currentpkt_B>>
     \/ /\ isValidChecksum(Head(toB))
        /\ RoomFor(toA, 1)
        /\ \/ /\ Head(toB).seqnum = ack_B
              /\ tolayer5(<<Head(toB).payload>>)
              /\ currentpkt_B' = AckPkt(ack_B)
              /\ ack_B' = Flip(ack_B)
           \/ /\ Head(toB).seqnum # ack_B
              /\ UNCHANGED <<cur_msg_recv, exitcode, ack_B, currentpkt_B>>
        /\ toA' \in tolayer3(toA, <<currentpkt_B'>>)
  /\ UNCHANGED <<nsim, timer, seq_A, inTransit, currentpkt_A, buffer, buffCount>>

Next == A_output \/ A_input \/ A_timerinterrupt \/ B_input

Spec == Init /\ [][Next]_vars

-----------------------------------------------------------------------------
(* Safety *)

(* Messages A started to send: the buffered ones it took, and those that   *)
(* arrived before anything was buffered and went out directly.             *)
started == nsim - hasBuffer + buffCount

(* Messages A regards as delivered. *)
confirmed == started - inTransit

(* The timer runs exactly while a packet is unconfirmed: a late timeout    *)
(* never resends a packet that was confirmed, a packet in transit is never *)
(* left without one.                                                       *)
TimerIffInTransit == timer <=> inTransit = 1

(* The alternating bits stay in step: A's bit is the parity of what it     *)
(* regards as delivered, B's the parity of what it did deliver, and B is   *)
(* ahead by at most the packet in transit.                                 *)
BitsInStep ==
  /\ seq_A = confirmed % 2
  /\ ack_B = cur_msg_recv % 2
  /\ confirmed \in 0 .. cur_msg_recv
  /\ cur_msg_recv <= started

(* A message taken from the buffer is there: the read index never catches  *)
(* up with the write index once a message was buffered (abt.cpp:81-99).    *)
BufferAhead == hasBuffer > 0 => buffCount < hasBuffer

(* B's last acknowledgement is only repeated once there is one: the packet *)
(* B_init leaves half unset (abt.cpp:193-198) is never sent.               *)
NoReplyBeforeDelivery == toA # << >> => cur_msg_recv > 0

(* The packets A and B keep for retransmission are the ones the other side *)
(* may still need.                                                         *)
Kept ==
  /\ inTransit = 1 => /\ isValidChecksum(currentpkt_A)
                      /\ currentpkt_A.seqnum = seq_A
                      /\ currentpkt_A.payload = Text(Letter(confirmed))
  /\ cur_msg_recv > 0 => currentpkt_B = AckPkt(Flip(ack_B))

(* The buffer holds the last hasBuffer messages layer 5 gave to A. *)
BufferHolds ==
  /\ hasBuffer <= nsim
  /\ buffCount <= hasBuffer
  /\ \A i \in 0 .. hasBuffer - 1 :
       buffer[i + 1] = Text(Letter(nsim - hasBuffer + i))

(* In either direction the packets of the previous round come first, and   *)
(* those of the current one behind them: an undamaged packet with the bit  *)
(* B expects is the one in transit, an undamaged acknowledgement with A's  *)
(* bit answers it.  One bit tells the rounds apart only because the medium *)
(* keeps the order.                                                        *)
RoundsInOrder ==
  /\ \A i \in 1 .. Len(toB) : isValidChecksum(toB[i]) =>
       /\ toB[i].seqnum \in {0, 1}
       /\ toB[i].seqnum = ack_B => inTransit = 1 /\ toB[i] = currentpkt_A
       /\ toB[i].seqnum # ack_B => cur_msg_recv > 0
       /\ toB[i].seqnum = seq_A =>
            /\ inTransit = 1
            /\ \A j \in i .. Len(toB) :
                 isValidChecksum(toB[j]) => toB[j].seqnum = seq_A
  /\ \A i \in 1 .. Len(toA) : isValidChecksum(toA[i]) =>
       /\ toA[i].acknum \in {0, 1}
       /\ toA[i].acknum = seq_A =>
            /\ ack_B # seq_A
            /\ \A j \in i .. Len(toA) :
                 isValidChecksum(toA[j]) => toA[j].acknum = seq_A

IInv ==
  /\ TypeOK /\ NoPanic /\ TimerIffInTransit /\ BitsInStep
  /\ BufferAhead /\ NoReplyBeforeDelivery /\ Kept /\ BufferHolds /\ RoundsInOrder

RT == INSTANCE ReliableTransfer WITH
        accepted <- nsim, delivered <- cur_msg_recv,
        confirmed <- confirmed, failed <- (exitcode # 0)

ImplementsReliableTransfer == RT!Spec

-----------------------------------------------------------------------------
(* Liveness *)

PacketGetsThrough == A_timerinterrupt /\ toB' = Append(toB, currentpkt_A)
ReplyGetsThrough  == B_input /\ toA' = Append(toA, currentpkt_B')

(* As for GBN: events are handled in the end, and a packet that is sent    *)
(* again and again is not lost or damaged every time.                      *)
Fairness ==
  /\ WF_vars(A_input)
  /\ WF_vars(B_input)
  /\ SF_vars(PacketGetsThrough)
  /\ SF_vars(ReplyGetsThrough)

FairSpec == Spec /\ Fairness

(* The packet in transit is confirmed in the end, unless the simulation    *)
(* ends first.                                                             *)
TransitEnds == inTransit = 1 ~> (inTransit = 0 \/ ~Running)

=============================================================================
