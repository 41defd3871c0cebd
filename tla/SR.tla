--------------------------------- MODULE SR ---------------------------------
(***************************************************************************)
(* The Selective-Repeat protocol of sr.cpp.  A has one hardware timer for  *)
(* the whole window: timers[] remembers when each packet was last sent,    *)
(* unackedPkt which of them the timer stands for.  This module abstracts   *)
(* the times: timers is the set of packets whose entry is not 0.           *)
(***************************************************************************)
EXTENDS Simulator

CONSTANT winsize   \* -w

ASSUME winsizeAssumption == winsize \in Nat

VARIABLES
  winbase,        \* A: first unconfirmed packet
  nextseq,        \* A: first packet never sent
  send_packets,   \* A: the messages of send_packets[0 .. send_counter - 1]
  timers,         \* A: the packets with a send time
  acked,          \* A: the packets confirmed
  unackedPkt,     \* A: the packet a timeout resends
  recv_packets,   \* B: message of each packet with inorder[k] = 1
  recv_counter    \* B: first packet not handed to layer 5

avars == <<winbase, nextseq, send_packets, timers, acked, unackedPkt>>
bvars == <<recv_packets, recv_counter>>
vars  == <<simvars, avars, bvars>>

send_counter == Len(send_packets)
inorder      == DOMAIN recv_packets

TypeOK ==
  /\ SimTypeOK
  /\ winbase \in Nat
  /\ nextseq \in Nat
  /\ send_packets \in Seq(Payload)
  /\ timers \subseteq 0 .. nsimmax - 1
  /\ acked \subseteq 0 .. nsimmax - 1
  /\ unackedPkt \in Nat
  /\ inorder \subseteq 0 .. nsimmax - 1
  /\ recv_packets \in [inorder -> Payload]
  /\ recv_counter \in Nat

Init ==
  /\ SimInit
  /\ winbase = 0
  /\ nextseq = 0
  /\ send_packets = << >>
  /\ timers = {}
  /\ acked = {}
  /\ unackedPkt = 0
  /\ recv_packets = [k \in {} |-> EmptyText]
  /\ recv_counter = 0

(* send_packets[k]: A_output numbers and seals a packet when it first      *)
(* sends it; before that its sequence number is 0 and its checksum unset.  *)
SealedPkt(ps, k) == setChecksum([seqnum |-> k, acknum |-> 0, checksum |-> 0,
                                 payload |-> ps[k + 1]])
StoredPkt(k) ==
  IF k < nextseq
  THEN SealedPkt(send_packets, k)
  ELSE [seqnum |-> 0, acknum |-> 0, checksum |-> 0,
        payload |-> IF k < send_counter THEN send_packets[k + 1] ELSE EmptyText]

(* Where the loops while(S[n] == 1) n++ that start at n end. *)
FirstOutside(S, n, k) == k \notin S /\ \A j \in n .. k - 1 : j \in S

(* u is what checkUnackedPkt leaves in unackedPkt: the first packet of the *)
(* window that was sent and not confirmed, or else the window base.        *)
checkUnackedPkt(u, base, done, sent) ==
  LET open == {i \in base .. base + winsize - 1 : i \notin done /\ i \in sent}
  IN  \/ u \in open /\ \A i \in open : u <= i
      \/ open = {} /\ u = base

(* Mutants: A sends one packet more than the window; A does not note when  *)
(* it sent a packet.                                                       *)
A_sends(inWindow, noted) ==
  /\ FromLayer5
  /\ send_packets' = Append(send_packets, Text(Letter(nsim)))
  /\ IF inWindow
     THEN /\ RoomFor(toB, 1)
          /\ toB' \in tolayer3(toB, <<SealedPkt(send_packets', nextseq)>>)
          /\ timers' = timers \cup noted
          /\ timer' = (timer \/ winbase = nextseq)
          /\ unackedPkt' = IF winbase = nextseq THEN winbase ELSE unackedPkt
          /\ nextseq' = nextseq + 1
     ELSE UNCHANGED <<toB, timers, timer, unackedPkt, nextseq>>
  /\ UNCHANGED <<cur_msg_recv, exitcode, toA, winbase, acked, bvars>>

A_outputWide   == A_sends(nextseq <= winbase + winsize, {nextseq})
A_outputNoTime == A_sends(nextseq < winbase + winsize, {})

A_output ==
  /\ FromLayer5
  /\ send_packets' = Append(send_packets, Text(Letter(nsim)))
  /\ \/ /\ nextseq < winbase + winsize
        /\ RoomFor(toB, 1)
        /\ toB' \in tolayer3(toB, <<SealedPkt(send_packets', nextseq)>>)
        /\ timers' = timers \cup {nextseq}
        /\ IF winbase = nextseq
           THEN timer' = TRUE /\ unackedPkt' = winbase
           ELSE UNCHANGED <<timer, unackedPkt>>
        /\ nextseq' = nextseq + 1
     \/ /\ nextseq >= winbase + winsize
        /\ UNCHANGED <<toB, timers, timer, unackedPkt, nextseq>>
  /\ UNCHANGED <<cur_msg_recv, exitcode, toA, winbase, acked, bvars>>

(* Mutants: the timer is not started for the next unconfirmed packet; an   *)
(* acknowledgement confirms every packet up to its own.                    *)
AcknowledgedNoTimer(n) ==
  /\ acked' = acked \cup {n}
  /\ \E k \in winbase .. nsimmax : FirstOutside(acked', winbase, k) /\ winbase' = k
  /\ IF unackedPkt = n
     THEN /\ \E u \in 0 .. nsimmax :
               checkUnackedPkt(u, winbase', acked', timers) /\ unackedPkt' = u
          /\ timer' = FALSE
     ELSE UNCHANGED <<unackedPkt, timer>>

AcknowledgedAll(n) ==
  /\ acked' = acked \cup 0 .. n
  /\ winbase' = n + 1
  /\ unackedPkt' = n + 1
  /\ timer' = (n + 1 \in timers)

(* An undamaged acknowledgement for packet n. *)
Acknowledged(n) ==
  /\ acked' = acked \cup {n}
  /\ \E k \in winbase .. nsimmax : FirstOutside(acked', winbase, k) /\ winbase' = k
  /\ IF unackedPkt = n
     THEN \E u \in 0 .. nsimmax :
            /\ checkUnackedPkt(u, winbase', acked', timers)
            /\ unackedPkt' = u
            /\ \/ u \in timers /\ timer' = TRUE
               \/ u \notin timers /\ timer' = FALSE
     ELSE UNCHANGED <<unackedPkt, timer>>

A_input ==
  /\ FromLayer3A
  /\ \/ /\ ~isValidChecksum(Head(toA))
        /\ UNCHANGED <<acked, winbase, unackedPkt, timer>>
     \/ /\ isValidChecksum(Head(toA))
        /\ Acknowledged(Head(toA).acknum)
  /\ UNCHANGED <<nsim, cur_msg_recv, exitcode, toB, nextseq, send_packets,
                 timers, bvars>>

(* Mutant: the timer is not started again. *)
A_timerinterruptOnce ==
  /\ TimerEvent
  /\ RoomFor(toB, 1)
  /\ toB' \in tolayer3(toB, <<StoredPkt(unackedPkt)>>)
  /\ timers' = timers \cup {unackedPkt}
  /\ \E u \in 0 .. nsimmax :
       checkUnackedPkt(u, winbase, acked, timers') /\ unackedPkt' = u
  /\ timer' = FALSE
  /\ UNCHANGED <<nsim, cur_msg_recv, exitcode, toA, winbase, nextseq,
                 send_packets, acked, bvars>>

A_timerinterrupt ==
  /\ TimerEvent
  /\ RoomFor(toB, 1)
  /\ toB' \in tolayer3(toB, <<StoredPkt(unackedPkt)>>)
  /\ timers' = timers \cup {unackedPkt}
  /\ \E u \in 0 .. nsimmax :
       checkUnackedPkt(u, winbase, acked, timers') /\ unackedPkt' = u
  /\ timer' = TRUE
  /\ UNCHANGED <<nsim, cur_msg_recv, exitcode, toA, winbase, nextseq,
                 send_packets, acked, bvars>>

(* Packet n with its text arrived: everything from recv_counter up to the  *)
(* first gap goes to layer 5.                                              *)
Received(n, text) ==
  /\ recv_packets' =
       [k \in inorder \cup {n} |-> IF k = n THEN text ELSE recv_packets[k]]
  /\ \E k \in recv_counter .. nsimmax :
       /\ FirstOutside(inorder', recv_counter, k)
       /\ recv_counter' = k
       /\ tolayer5([j \in 1 .. k - recv_counter |->
                      recv_packets'[recv_counter + j - 1]])

(* Mutant: B does not look at the checksum. *)
B_inputUnchecked ==
  /\ FromLayer3B
  /\ RoomFor(toA, 1)
  /\ toA' \in tolayer3(toA, <<AckPkt(Head(toB).seqnum)>>)
  /\ Received(Head(toB).seqnum, Head(toB).payload)
  /\ UNCHANGED <<nsim, timer, avars>>

B_input ==
  /\ FromLayer3B
  /\ \/ /\ ~isValidChecksum(Head(toB))
        /\ UNCHANGED <<cur_msg_recv, exitcode, toA, bvars>>
     \/ /\ isValidChecksum(Head(toB))
        /\ RoomFor(toA, 1)
        /\ toA' \in tolayer3(toA, <<AckPkt(Head(toB).seqnum)>>)
        /\ Received(Head(toB).seqnum, Head(toB).payload)
  /\ UNCHANGED <<nsim, timer, avars>>

Next == A_output \/ A_input \/ A_timerinterrupt \/ B_input

Spec == Init /\ [][Next]_vars

-----------------------------------------------------------------------------
(* Safety *)

(* A's and B's windows overlap as they must: A's never moves past what B   *)
(* delivered, and B never holds more than a window beyond it.              *)
WindowsAgree ==
  /\ winbase <= recv_counter
  /\ recv_counter <= nextseq
  /\ nextseq <= send_counter
  /\ nextseq <= winbase + winsize
  /\ recv_counter = cur_msg_recv
  /\ \A k \in inorder : k < recv_counter + winsize

(* A confirmed packet was received, a received one was sent. *)
ConfirmedWasReceived == acked \subseteq inorder /\ inorder \subseteq timers

(* The one timer stands for the lowest unconfirmed packet, runs whenever   *)
(* there is one, and not otherwise.  sr.cpp sets it in three places and    *)
(* relies on it in a fourth (103-106, 121-129, 137-143).                   *)
TimerStandsForBase ==
  /\ timer <=> winbase < nextseq
  /\ unackedPkt = winbase

(* What is under way: packets that were sent, acknowledgements for packets *)
(* that were received.                                                     *)
InFlight ==
  /\ \A i \in 1 .. Len(toB) : isValidChecksum(toB[i]) =>
       /\ toB[i].seqnum \in 0 .. nextseq - 1
       /\ toB[i].payload = Text(Letter(toB[i].seqnum))
  /\ \A i \in 1 .. Len(toA) : isValidChecksum(toA[i]) =>
       toA[i].acknum \in inorder

(* What A and B keep. *)
Stored ==
  /\ send_counter = nsim
  /\ \A k \in 0 .. send_counter - 1 : send_packets[k + 1] = Text(Letter(k))
  /\ timers = 0 .. nextseq - 1
  /\ FirstOutside(acked, 0, winbase)
  /\ FirstOutside(inorder, 0, recv_counter)
  /\ \A k \in inorder : recv_packets[k] = Text(Letter(k))

IInv ==
  /\ TypeOK /\ NoPanic /\ WindowsAgree /\ ConfirmedWasReceived
  /\ TimerStandsForBase /\ InFlight /\ Stored

(* Selective Repeat implements the promise made to layer 5. *)
RT == INSTANCE ReliableTransfer WITH
        accepted <- nsim, delivered <- cur_msg_recv,
        confirmed <- winbase, failed <- (exitcode # 0)

ImplementsReliableTransfer == RT!Spec

-----------------------------------------------------------------------------
(* Liveness *)

ResendGetsThrough ==
  A_timerinterrupt /\ toB' = Append(toB, StoredPkt(unackedPkt))
ReplyGetsThrough ==
  B_input /\ toA' = Append(toA, AckPkt(Head(toB).seqnum))

(* As for GBN. *)
Fairness ==
  /\ WF_vars(A_input)
  /\ WF_vars(B_input)
  /\ SF_vars(ResendGetsThrough)
  /\ SF_vars(ReplyGetsThrough)

FairSpec == Spec /\ Fairness

(* Every packet sent is confirmed in the end, unless the simulation ends   *)
(* first.                                                                  *)
SentIsConfirmed ==
  \A k \in 1 .. nsimmax : nextseq >= k ~> (winbase >= k \/ ~Running)

=============================================================================
