-------------------------------- MODULE GBN --------------------------------
(***************************************************************************)
(* The Go-Back-N protocol of gbn.cpp.  Sequence numbers never wrap: packet *)
(* number k carries message k.  The acknowledgement number is irregular:   *)
(* for the packet it expected, B acknowledges that packet's own number;    *)
(* for any other, the number of the packet it expects next.  A takes       *)
(* either one as its new window base.                                      *)
(***************************************************************************)
EXTENDS Simulator

CONSTANT winsize   \* -w

ASSUME winsizeAssumption == winsize \in Nat

VARIABLES
  winbase,   \* A: first packet of the window
  nextseq,   \* A: first packet never sent
  packets,   \* A: the messages of packets[0 .. counter - 1]
  ack_B      \* B: the sequence number it expects

vars == <<simvars, winbase, nextseq, packets, ack_B>>

counter == Len(packets)

TypeOK ==
  /\ SimTypeOK
  /\ winbase \in Nat
  /\ nextseq \in Nat
  /\ packets \in Seq(Payload)
  /\ ack_B \in Nat

Init ==
  /\ SimInit
  /\ winbase = 0
  /\ nextseq = 0
  /\ packets = << >>
  /\ ack_B = 0

(* packets[k] once setChecksum was called on it. *)
DataPkt(ps, k) == setChecksum([seqnum |-> k, acknum |-> 0, checksum |-> 0,
                               payload |-> ps[k + 1]])

(* Mutants: A sends one packet more than the window; A drops the message   *)
(* the window has no room for.                                             *)
A_outputWide ==
  /\ FromLayer5
  /\ packets' = Append(packets, Text(Letter(nsim)))
  /\ \/ /\ nextseq <= winbase + winsize
        /\ RoomFor(toB, 1)
        /\ toB' \in tolayer3(toB, <<DataPkt(packets', nextseq)>>)
        /\ timer' = (timer \/ winbase = nextseq)
        /\ nextseq' = nextseq + 1
     \/ /\ nextseq > winbase + winsize
        /\ UNCHANGED <<toB, timer, nextseq>>
  /\ UNCHANGED <<cur_msg_recv, exitcode, toA, winbase, ack_B>>

A_outputDrops ==
  /\ FromLayer5
  /\ \/ /\ nextseq < winbase + winsize
        /\ RoomFor(toB, 1)
        /\ packets' = Append(packets, Text(Letter(nsim)))
        /\ toB' \in tolayer3(toB, <<DataPkt(packets', nextseq)>>)
        /\ timer' = (timer \/ winbase = nextseq)
        /\ nextseq' = nextseq + 1
     \/ /\ nextseq >= winbase + winsize
        /\ UNCHANGED <<packets, toB, timer, nextseq>>
  /\ UNCHANGED <<cur_msg_recv, exitcode, toA, winbase, ack_B>>

A_output ==
  /\ FromLayer5
  /\ packets' = Append(packets, Text(Letter(nsim)))
  /\ \/ /\ nextseq < winbase + winsize
        /\ RoomFor(toB, 1)
        /\ toB' \in tolayer3(toB, <<DataPkt(packets', nextseq)>>)
        /\ timer' = (timer \/ winbase = nextseq)
        /\ nextseq' = nextseq + 1
     \/ /\ nextseq >= winbase + winsize
        /\ UNCHANGED <<toB, timer, nextseq>>
  /\ UNCHANGED <<cur_msg_recv, exitcode, toA, winbase, ack_B>>

A_input ==
  /\ FromLayer3A
  /\ \/ /\ ~isValidChecksum(Head(toA))
        /\ UNCHANGED <<winbase, timer>>
     \/ /\ isValidChecksum(Head(toA))
        /\ winbase' = Head(toA).acknum
        /\ timer' = TRUE
  /\ UNCHANGED <<nsim, cur_msg_recv, exitcode, toB, nextseq, packets, ack_B>>

(* The unconfirmed packets, in the order A_timerinterrupt resends them. *)
Outstanding ==
  [i \in 1 .. nextseq - winbase |-> DataPkt(packets, winbase + i - 1)]

(* Mutant: the timer is not started again. *)
A_timerinterruptOnce ==
  /\ TimerEvent
  /\ RoomFor(toB, Len(Outstanding))
  /\ toB' \in tolayer3(toB, Outstanding)
  /\ timer' = FALSE
  /\ UNCHANGED <<nsim, cur_msg_recv, exitcode, toA,
                 winbase, nextseq, packets, ack_B>>

A_timerinterrupt ==
  /\ TimerEvent
  /\ RoomFor(toB, Len(Outstanding))
  /\ toB' \in tolayer3(toB, Outstanding)
  /\ timer' = TRUE
  /\ UNCHANGED <<nsim, cur_msg_recv, exitcode, toA,
                 winbase, nextseq, packets, ack_B>>

(* Mutants: B acknowledges each packet with its own number; B acknowledges *)
(* the packet after the one it expects; B leaves an unexpected packet      *)
(* unanswered.                                                             *)
B_replies(ack, dup) ==
  /\ FromLayer3B
  /\ IF ~isValidChecksum(Head(toB)) \/ (Head(toB).seqnum # ack_B /\ ~dup)
     THEN UNCHANGED <<cur_msg_recv, exitcode, toA, ack_B>>
     ELSE /\ RoomFor(toA, 1)
          /\ toA' \in tolayer3(toA, <<AckPkt(ack)>>)
          /\ IF Head(toB).seqnum = ack_B
             THEN tolayer5(<<Head(toB).payload>>) /\ ack_B' = ack_B + 1
             ELSE UNCHANGED <<cur_msg_recv, exitcode, ack_B>>
  /\ UNCHANGED <<nsim, timer, winbase, nextseq, packets>>

B_inputOwnNumber == toB # << >> /\ B_replies(Head(toB).seqnum, TRUE)
B_inputAhead     == B_replies(ack_B + 1, TRUE)
B_inputSilent    == B_replies(ack_B, FALSE)

B_input ==
  /\ FromLayer3B
  /\ \/ /\ ~isValidChecksum(Head(toB))
        /\ UNCHANGED <<cur_msg_recv, exitcode, toA, ack_B>>
     \/ /\ isValidChecksum(Head(toB))
        /\ RoomFor(toA, 1)
        /\ toA' \in tolayer3(toA, <<AckPkt(ack_B)>>)
        /\ \/ /\ Head(toB).seqnum = ack_B
              /\ tolayer5(<<Head(toB).payload>>)
              /\ ack_B' = ack_B + 1
           \/ /\ Head(toB).seqnum # ack_B
              /\ UNCHANGED <<cur_msg_recv, exitcode, ack_B>>
  /\ UNCHANGED <<nsim, timer, winbase, nextseq, packets>>

Next == A_output \/ A_input \/ A_timerinterrupt \/ B_input

Spec == Init /\ [][Next]_vars

-----------------------------------------------------------------------------
(* Safety *)

(* A's and B's views of the transfer fit together: B never ran ahead of    *)
(* what A sent nor fell behind what A regards as confirmed, and no more    *)
(* than a window is unconfirmed.  A_input (gbn.cpp:108) does not check any *)
(* of it, it takes whatever acknowledgement number arrives.                *)
WindowsAgree ==
  /\ winbase <= ack_B
  /\ ack_B <= nextseq
  /\ nextseq <= counter
  /\ nextseq <= winbase + winsize
  /\ ack_B = cur_msg_recv

(* Whenever a packet is unconfirmed the timer runs, whatever mix of losses *)
(* and late acknowledgements led there: without it A would wait forever.   *)
TimerGuardsWindow == winbase < nextseq => timer

(* The window base never moves back, although A_input assigns it without   *)
(* comparing (gbn.cpp:108) and B's two kinds of acknowledgement use        *)
(* different numbers (gbn.cpp:153, 163).                                   *)
WindowNeverMovesBack == [][winbase' >= winbase]_vars

(* GBN implements the promise made to layer 5. *)
RT == INSTANCE ReliableTransfer WITH
        accepted <- nsim, delivered <- cur_msg_recv,
        confirmed <- winbase, failed <- (exitcode # 0)

ImplementsReliableTransfer == RT!Spec

(* Every data packet that reaches B undamaged was sent by A and carries    *)
(* the message with its number; every acknowledgement that reaches A       *)
(* undamaged lies between A's window base and what B expects, and those    *)
(* behind it confirm no less.  This is what makes the two properties above *)
(* inductive: A and B act on what is under way.                            *)
InFlight ==
  /\ \A i \in 1 .. Len(toB) : isValidChecksum(toB[i]) =>
       /\ toB[i].seqnum \in 0 .. nextseq - 1
       /\ toB[i].payload = Text(Letter(toB[i].seqnum))
  /\ \A i \in 1 .. Len(toA) : isValidChecksum(toA[i]) =>
       /\ toA[i].acknum \in winbase .. ack_B
       /\ \A j \in 1 .. i - 1 : isValidChecksum(toA[j]) =>
            toA[j].acknum <= toA[i].acknum

(* A keeps the messages it was given, in order. *)
Stored ==
  /\ counter = nsim
  /\ \A k \in 0 .. counter - 1 : packets[k + 1] = Text(Letter(k))

IInv ==
  TypeOK /\ NoPanic /\ WindowsAgree /\ TimerGuardsWindow /\ InFlight /\ Stored

-----------------------------------------------------------------------------
(* Liveness *)

(* Events on the list are handled in the end, and a loss and corruption    *)
(* probability below 1 lets a retransmitted window, and B's reply, through *)
(* undamaged if tried again and again.                                     *)
WindowGetsThrough == A_timerinterrupt /\ toB' = toB \o Outstanding
ReplyGetsThrough  == B_input /\ toA' = Append(toA, AckPkt(ack_B))

Fairness ==
  /\ WF_vars(A_input)
  /\ WF_vars(B_input)
  /\ SF_vars(WindowGetsThrough)
  /\ SF_vars(ReplyGetsThrough)

FairSpec == Spec /\ Fairness

(* Every packet sent is confirmed in the end, unless the simulation ends   *)
(* first, even if layer 5 never gives A another message.                   *)
SentIsConfirmed ==
  \A k \in 1 .. nsimmax : nextseq >= k ~> (winbase >= k \/ ~Running)

=============================================================================
