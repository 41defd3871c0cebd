------------------------------ MODULE SRProofs ------------------------------
(***************************************************************************)
(* Selective Repeat keeps its invariant, for every number of messages,     *)
(* window size and set of damages: no run ends in a panic, the windows     *)
(* agree, and the one timer stands for the lowest unconfirmed packet.      *)
(*                                                                         *)
(* The second half is about TimedSR: its handlers, on an event list with   *)
(* times, are those of SR, and the timer on the list is due when the base  *)
(* of the window says.                                                     *)
(***************************************************************************)
EXTENDS TimedSR, SimulatorProofs, FiniteSetTheorems, FunctionTheorems,
        SequenceTheorems

USE DEF send_counter, inorder

(* A packet A sends is sealed, has its own index as sequence number and    *)
(* carries its message (sr.cpp:86-99).                                     *)
LEMMA SealedPktSealed ==
  ASSUME NEW ps \in Seq(Payload), NEW k \in 0 .. Len(ps) - 1, k < 1000,
         ps[k + 1] = Text(Letter(k))
  PROVE  /\ Sealed(SealedPkt(ps, k))
         /\ SealedPkt(ps, k).seqnum = k
         /\ SealedPkt(ps, k).payload = Text(Letter(k))
<1>. DEFINE p == [seqnum |-> k, acknum |-> 0, checksum |-> 0,
                  payload |-> ps[k + 1]]
<1>1. p \in Pkt
  BY DEF Pkt
<1>2. k < CorruptNumber
  BY SMT DEF CorruptNumber
<1>3. Text(Letter(k)).first # CorruptByte
  BY LetterRange
<1>4. SealedPkt(ps, k) = setChecksum(p)
  BY DEF SealedPkt
<1>. QED
  BY <1>1, <1>2, <1>3, <1>4, SetChecksumValid DEF Sealed

(* What the conjuncts of the invariant say about the numbers.              *)
LEMMA Numbers ==
  ASSUME IInv
  PROVE  /\ nsimmax \in Nat /\ nsimmax <= 1000 /\ winsize \in Nat
         /\ nsim \in Nat /\ nsim <= nsimmax /\ exitcode = 0
         /\ winbase \in Nat /\ nextseq \in Nat /\ recv_counter \in Nat
         /\ winbase <= recv_counter /\ recv_counter <= nextseq
         /\ nextseq <= nsim /\ nextseq <= winbase + winsize
         /\ Len(send_packets) = nsim /\ cur_msg_recv = recv_counter
         /\ timers = 0 .. nextseq - 1 /\ unackedPkt = winbase
         /\ (timer <=> winbase < nextseq)
<1>1. /\ nsimmax \in Nat /\ nsimmax <= 1000 /\ winsize \in Nat
      /\ nsim \in Nat /\ nsim <= nsimmax /\ exitcode = 0
      /\ winbase \in Nat /\ nextseq \in Nat /\ recv_counter \in Nat
  <2>1. nsim \in 0 .. nsimmax /\ exitcode = 0
    BY DEF IInv, TypeOK, SimTypeOK, NoPanic
  <2>2. winbase \in Nat /\ nextseq \in Nat /\ recv_counter \in Nat
    BY DEF IInv, TypeOK
  <2>3. nsimmax \in Nat /\ nsimmax <= 1000 /\ winsize \in Nat
    BY nsimmaxAssumption, winsizeAssumption
  <2>. QED
    BY <2>1, <2>2, <2>3
<1>2. Len(send_packets) = nsim /\ timers = 0 .. nextseq - 1
  BY DEF IInv, Stored
<1>3. /\ winbase <= recv_counter /\ recv_counter <= nextseq
      /\ nextseq <= Len(send_packets) /\ nextseq <= winbase + winsize
      /\ cur_msg_recv = recv_counter
  BY DEF IInv, WindowsAgree
<1>4. unackedPkt = winbase /\ (timer <=> winbase < nextseq)
  BY DEF IInv, TimerStandsForBase
<1>. QED
  BY <1>1, <1>2, <1>3, <1>4

LEMMA InitInvariant == Init => IInv
<1>. SUFFICES ASSUME Init PROVE IInv
  OBVIOUS
<1>1. /\ nsim = 0 /\ cur_msg_recv = 0 /\ exitcode = 0 /\ timer = FALSE
      /\ toA = << >> /\ toB = << >> /\ winbase = 0 /\ nextseq = 0
      /\ send_packets = << >> /\ timers = {} /\ acked = {}
      /\ unackedPkt = 0 /\ recv_packets = [k \in {} |-> EmptyText]
      /\ recv_counter = 0
  BY DEF Init, SimInit
<1>2. Len(send_packets) = 0 /\ Len(toA) = 0 /\ Len(toB) = 0 /\ inorder = {}
  BY <1>1
<1>3. TypeOK
  <2>1. << >> \in Seq(Pkt) /\ << >> \in Seq(Payload)
    OBVIOUS
  <2>2. nsim \in 0 .. nsimmax /\ cur_msg_recv \in Nat
    BY <1>1, nsimmaxAssumption
  <2>3. exitcode \in {0, 52, 63} /\ timer \in BOOLEAN
    BY <1>1
  <2>4. toA \in Seq(Pkt) /\ toB \in Seq(Pkt) /\ send_packets \in Seq(Payload)
    BY <1>1, <2>1
  <2>5. recv_packets \in [inorder -> Payload]
    BY <1>1
  <2>6. /\ winbase \in Nat /\ nextseq \in Nat /\ unackedPkt \in Nat
        /\ recv_counter \in Nat /\ timers \subseteq 0 .. nsimmax - 1
        /\ acked \subseteq 0 .. nsimmax - 1 /\ inorder \subseteq 0 .. nsimmax - 1
    BY <1>1, <1>2
  <2>. QED
    BY <2>2, <2>3, <2>4, <2>5, <2>6 DEF TypeOK, SimTypeOK
<1>4. NoPanic /\ ConfirmedWasReceived /\ InFlight
  BY <1>1, <1>2 DEF NoPanic, ConfirmedWasReceived, InFlight
<1>5. WindowsAgree /\ TimerStandsForBase
  <2>1. Len(send_packets) = 0 /\ inorder = {} /\ winsize \in Nat
    BY <1>2, winsizeAssumption
  <2>2. /\ winbase = 0 /\ nextseq = 0 /\ recv_counter = 0 /\ cur_msg_recv = 0
        /\ unackedPkt = 0 /\ timer = FALSE
    BY <1>1
  <2>. QED
    BY <2>1, <2>2 DEF WindowsAgree, TimerStandsForBase
<1>6. Stored
  <2>1. Len(send_packets) = 0 /\ inorder = {}
    BY <1>2
  <2>2. /\ winbase = 0 /\ nextseq = 0 /\ recv_counter = 0 /\ nsim = 0
        /\ timers = {} /\ acked = {}
    BY <1>1
  <2>. QED
    BY <2>1, <2>2 DEF Stored, FirstOutside
<1>. QED
  BY <1>3, <1>4, <1>5, <1>6 DEF IInv

(* Layer 5 gives A a message; A sends the first unsent packet if the       *)
(* window has room.                                                        *)
LEMMA A_outputInvariant == IInv /\ A_output => IInv'
<1>. SUFFICES ASSUME IInv, A_output PROVE IInv'
  OBVIOUS
<1>1. /\ nsim < nsimmax /\ nsim' = nsim + 1
      /\ UNCHANGED <<cur_msg_recv, exitcode, toA, winbase, acked,
                     recv_packets, recv_counter>>
      /\ send_packets' = Append(send_packets, Text(Letter(nsim)))
  BY DEF A_output, FromLayer5, Running, bvars
<1>2. /\ nsimmax \in Nat /\ nsimmax <= 1000 /\ winsize \in Nat
      /\ nsim \in Nat /\ nsim <= nsimmax /\ exitcode = 0
      /\ winbase \in Nat /\ nextseq \in Nat /\ recv_counter \in Nat
      /\ winbase <= recv_counter /\ recv_counter <= nextseq
      /\ nextseq <= nsim /\ nextseq <= winbase + winsize
      /\ Len(send_packets) = nsim /\ cur_msg_recv = recv_counter
      /\ timers = 0 .. nextseq - 1 /\ unackedPkt = winbase
      /\ (timer <=> winbase < nextseq)
  BY Numbers
<1>3. /\ send_packets' \in Seq(Payload)
      /\ Len(send_packets') = nsim + 1
      /\ \A k \in 0 .. Len(send_packets') - 1 :
           send_packets'[k + 1] = Text(Letter(k))
  <2>1. Text(Letter(nsim)) \in Payload /\ send_packets \in Seq(Payload)
    BY <1>2, LetterRange DEF IInv, TypeOK
  <2>2. \A k \in 0 .. Len(send_packets) - 1 :
          send_packets[k + 1] = Text(Letter(k))
    BY DEF IInv, Stored
  <2>. QED
    BY <1>1, <1>2, <2>1, <2>2
<1>4. inorder' = inorder /\ NoPanic'
  BY <1>1, <1>2 DEF NoPanic
<1>5. toB \in Seq(Pkt) /\ toA \in Seq(Pkt)
  BY DEF IInv, TypeOK, SimTypeOK
<1>6. CASE nextseq < winbase + winsize
  <2>. DEFINE p == SealedPkt(send_packets', nextseq)
  <2>1. /\ toB' \in tolayer3(toB, <<p>>)
        /\ timers' = timers \cup {nextseq}
        /\ IF winbase = nextseq
           THEN timer' = TRUE /\ unackedPkt' = winbase
           ELSE UNCHANGED <<timer, unackedPkt>>
        /\ nextseq' = nextseq + 1
    BY <1>2, <1>6 DEF A_output
  <2>2. Sealed(p) /\ p.seqnum = nextseq /\ p.payload = Text(Letter(nextseq))
    <3>1. /\ nextseq \in 0 .. Len(send_packets') - 1 /\ nextseq < 1000
          /\ send_packets'[nextseq + 1] = Text(Letter(nextseq))
      BY <1>1, <1>2, <1>3
    <3>. QED
      BY <1>3, <3>1, SealedPktSealed
  <2>. HIDE DEF p
  <2>3. /\ toB' \in Seq(Pkt)
        /\ Len(toB) <= Len(toB')
        /\ \A i \in 1 .. Len(toB) : toB'[i] = toB[i]
        /\ \A i \in Len(toB) + 1 .. Len(toB') :
             isValidChecksum(toB'[i]) => toB'[i] = p
    BY <1>5, <2>1, <2>2, PacketInFlight
  <2>4. timer' /\ timer' \in BOOLEAN /\ unackedPkt' = winbase
    <3>1. CASE winbase = nextseq
      BY <2>1, <3>1
    <3>2. CASE winbase # nextseq
      <4>1. timer' = timer /\ unackedPkt' = unackedPkt
        BY <2>1, <3>2
      <4>2. winbase < nextseq
        BY <1>2, <3>2
      <4>3. timer \in BOOLEAN
        BY DEF IInv, TypeOK, SimTypeOK
      <4>. QED
        BY <1>2, <4>1, <4>2, <4>3
    <3>. QED
      BY <3>1, <3>2
  <2>5. timers' = 0 .. nextseq' - 1
    BY <1>2, <2>1
  <2>6. TypeOK'
    <3>1. nsim' \in 0 .. nsimmax /\ timers' \subseteq 0 .. nsimmax - 1
      BY <1>1, <1>2, <2>1, <2>5
    <3>2. nextseq' \in Nat /\ unackedPkt' \in Nat
      BY <1>2, <2>1, <2>4
    <3>. QED
      BY <1>1, <1>3, <2>3, <2>4, <3>1, <3>2 DEF IInv, TypeOK, SimTypeOK
  <2>7. WindowsAgree' /\ TimerStandsForBase'
    <3>1. \A k \in inorder : k < recv_counter + winsize
      BY DEF IInv, WindowsAgree
    <3>. QED
      BY <1>1, <1>2, <1>3, <1>4, <1>6, <2>1, <2>4, <3>1
         DEF WindowsAgree, TimerStandsForBase
  <2>8. ConfirmedWasReceived'
    BY <1>1, <2>1 DEF IInv, ConfirmedWasReceived
  <2>9. Stored'
    BY <1>1, <1>3, <2>5 DEF IInv, Stored, FirstOutside
  <2>10. InFlight'
    <3>1. ASSUME NEW i \in 1 .. Len(toB'), isValidChecksum(toB'[i])
          PROVE  /\ toB'[i].seqnum \in 0 .. nextseq' - 1
                 /\ toB'[i].payload = Text(Letter(toB'[i].seqnum))
      <4>1. CASE i \in 1 .. Len(toB)
        <5>1. /\ toB[i].seqnum \in 0 .. nextseq - 1
              /\ toB[i].payload = Text(Letter(toB[i].seqnum))
          BY <2>3, <3>1, <4>1 DEF IInv, InFlight
        <5>2. toB'[i] = toB[i] /\ nextseq' = nextseq + 1
          BY <2>1, <2>3, <4>1
        <5>. QED
          BY <1>2, <5>1, <5>2
      <4>2. CASE i \in Len(toB) + 1 .. Len(toB')
        <5>1. toB'[i] = p
          BY <2>3, <3>1, <4>2
        <5>2. nextseq' = nextseq + 1
          BY <2>1
        <5>. QED
          BY <1>2, <2>2, <5>1, <5>2
      <4>. QED
        BY <1>5, <2>3, <4>1, <4>2
    <3>. QED
      BY <1>1, <3>1 DEF IInv, InFlight
  <2>. QED
    BY <1>4, <2>6, <2>7, <2>8, <2>9, <2>10 DEF IInv
<1>7. CASE nextseq >= winbase + winsize
  <2>1. UNCHANGED <<toB, timers, timer, unackedPkt, nextseq>>
    BY <1>2, <1>7 DEF A_output
  <2>2. TypeOK'
    <3>1. nsim' \in 0 .. nsimmax
      BY <1>1, <1>2
    <3>. QED
      BY <1>1, <1>3, <2>1, <3>1 DEF IInv, TypeOK, SimTypeOK
  <2>3. WindowsAgree' /\ TimerStandsForBase'
    BY <1>1, <1>2, <1>3, <2>1 DEF IInv, WindowsAgree, TimerStandsForBase
  <2>4. ConfirmedWasReceived' /\ Stored' /\ InFlight'
    BY <1>1, <1>3, <2>1
       DEF IInv, ConfirmedWasReceived, Stored, FirstOutside, InFlight
  <2>. QED
    BY <1>4, <2>2, <2>3, <2>4 DEF IInv
<1>. QED
  BY <1>2, <1>6, <1>7

(* After acknowledgement n the window base is the first unconfirmed packet *)
(* again, the timer stands for it, and B had received all of them          *)
(* (sr.cpp:112-132).                                                       *)
LEMMA AcknowledgedPreserves ==
  ASSUME IInv, NEW n \in inorder, Acknowledged(n)
  PROVE  /\ acked' = acked \cup {n}
         /\ winbase' \in Nat /\ winbase <= winbase' /\ winbase' <= recv_counter
         /\ FirstOutside(acked', 0, winbase')
         /\ unackedPkt' = winbase'
         /\ timer' \in BOOLEAN /\ (timer' <=> winbase' < nextseq)
<1>1. /\ nsimmax \in Nat /\ winsize \in Nat
      /\ winbase \in Nat /\ nextseq \in Nat /\ recv_counter \in Nat
      /\ winbase <= recv_counter /\ recv_counter <= nextseq
      /\ nextseq <= winbase + winsize
      /\ timers = 0 .. nextseq - 1 /\ unackedPkt = winbase
      /\ (timer <=> winbase < nextseq)
  BY Numbers
<1>2. /\ acked \subseteq inorder /\ inorder \subseteq timers
      /\ recv_counter \notin inorder
      /\ \A j \in 0 .. winbase - 1 : j \in acked
      /\ winbase \notin acked
  BY DEF IInv, ConfirmedWasReceived, Stored, FirstOutside
<1>3. acked' = acked \cup {n}
  BY DEF Acknowledged
<1>4. PICK k \in winbase .. nsimmax :
        FirstOutside(acked', winbase, k) /\ winbase' = k
  BY DEF Acknowledged
<1>5. /\ k \in Nat /\ winbase <= k
      /\ k \notin acked' /\ \A j \in winbase .. k - 1 : j \in acked'
  BY <1>1, <1>4 DEF FirstOutside
<1>6. FirstOutside(acked', 0, k)
  <2>1. \A j \in 0 .. k - 1 : j \in acked'
    BY <1>1, <1>2, <1>3, <1>5
  <2>. QED
    BY <1>5, <2>1 DEF FirstOutside
<1>7. k <= recv_counter
  <2>1. recv_counter \notin acked'
    BY <1>2, <1>3
  <2>. QED
    BY <1>1, <1>5, <2>1
<1>8. timer \in BOOLEAN
  BY DEF IInv, TypeOK, SimTypeOK
<1>9. CASE winbase = n
  <2>1. PICK u \in 0 .. nsimmax :
          /\ checkUnackedPkt(u, k, acked', timers)
          /\ unackedPkt' = u
          /\ \/ u \in timers /\ timer' = TRUE
             \/ u \notin timers /\ timer' = FALSE
    BY <1>1, <1>4, <1>9 DEF Acknowledged
  <2>. DEFINE open == {i \in k .. k + winsize - 1 : i \notin acked' /\ i \in timers}
  <2>2. \/ u \in open /\ \A i \in open : u <= i
        \/ open = {} /\ u = k
    BY <2>1 DEF checkUnackedPkt
  <2>3. u = k
    <3>1. CASE k < nextseq
      <4>1. k \in open
        BY <1>1, <1>5, <3>1
      <4>. QED
        BY <1>5, <2>2, <4>1
    <3>2. CASE k >= nextseq
      <4>1. open = {}
        BY <1>1, <1>5, <3>2
      <4>. HIDE DEF open
      <4>. QED
        BY <2>2, <4>1
    <3>. QED
      BY <1>1, <1>5, <3>1, <3>2
  <2>4. k \in timers <=> k < nextseq
    BY <1>1, <1>5
  <2>5. timer' \in BOOLEAN /\ (timer' <=> u \in timers)
    BY <2>1
  <2>. HIDE DEF open
  <2>. QED
    BY <1>3, <1>4, <1>5, <1>6, <1>7, <2>1, <2>3, <2>4, <2>5
<1>10. CASE winbase # n
  <2>1. unackedPkt' = unackedPkt /\ timer' = timer
    BY <1>1, <1>10 DEF Acknowledged
  <2>2. k = winbase
    <3>1. winbase \notin acked'
      BY <1>2, <1>3, <1>10
    <3>. QED
      BY <1>1, <1>5, <3>1
  <2>. QED
    BY <1>1, <1>3, <1>4, <1>5, <1>6, <1>7, <1>8, <2>1, <2>2
<1>. QED
  BY <1>9, <1>10

(* An acknowledgement reaches A.                                           *)
LEMMA A_inputInvariant == IInv /\ A_input => IInv'
<1>. SUFFICES ASSUME IInv, A_input PROVE IInv'
  OBVIOUS
<1>1. /\ UNCHANGED <<nsim, cur_msg_recv, exitcode, toB, nextseq, send_packets,
                     timers, recv_packets, recv_counter>>
      /\ toA # << >> /\ toA' = Tail(toA) /\ toA \in Seq(Pkt)
  BY DEF A_input, FromLayer3A, bvars, IInv, TypeOK, SimTypeOK
<1>2. /\ toA' \in Seq(Pkt)
      /\ Len(toA) >= 1 /\ Head(toA) = toA[1]
      /\ Len(toA') = Len(toA) - 1
      /\ \A i \in 1 .. Len(toA') : toA'[i] = toA[i + 1] /\ i + 1 \in 1 .. Len(toA)
  BY <1>1
<1>3. /\ nsimmax \in Nat /\ winsize \in Nat /\ nsim \in Nat
      /\ winbase \in Nat /\ nextseq \in Nat /\ recv_counter \in Nat
      /\ winbase <= recv_counter /\ recv_counter <= nextseq
      /\ nextseq <= winbase + winsize /\ nextseq <= nsim
      /\ Len(send_packets) = nsim /\ cur_msg_recv = recv_counter
  BY Numbers
<1>4. InFlight'
  <2>1. \A i \in 1 .. Len(toA') :
          isValidChecksum(toA'[i]) => toA'[i].acknum \in inorder
    BY <1>2 DEF IInv, InFlight
  <2>. QED
    BY <1>1, <2>1 DEF IInv, InFlight
<1>5. /\ acked' \subseteq inorder
      /\ winbase' \in Nat /\ winbase <= winbase' /\ winbase' <= recv_counter
      /\ FirstOutside(acked', 0, winbase')
      /\ unackedPkt' = winbase'
      /\ timer' \in BOOLEAN /\ (timer' <=> winbase' < nextseq)
  <2>1. acked \subseteq inorder /\ FirstOutside(acked, 0, winbase)
        /\ timer \in BOOLEAN /\ unackedPkt = winbase
        /\ (timer <=> winbase < nextseq)
    BY DEF IInv, ConfirmedWasReceived, Stored, TypeOK, SimTypeOK,
           TimerStandsForBase
  <2>2. CASE ~isValidChecksum(Head(toA))
    <3>1. UNCHANGED <<acked, winbase, unackedPkt, timer>>
      BY <2>2 DEF A_input
    <3>. QED
      BY <1>3, <2>1, <3>1
  <2>3. CASE isValidChecksum(Head(toA))
    <3>1. Acknowledged(Head(toA).acknum)
      BY <2>3 DEF A_input
    <3>2. Head(toA).acknum \in inorder
      BY <1>2, <2>3 DEF IInv, InFlight
    <3>3. /\ acked' = acked \cup {Head(toA).acknum}
          /\ winbase' \in Nat /\ winbase <= winbase' /\ winbase' <= recv_counter
          /\ FirstOutside(acked', 0, winbase')
          /\ unackedPkt' = winbase'
          /\ timer' \in BOOLEAN /\ (timer' <=> winbase' < nextseq)
      BY <3>1, <3>2, AcknowledgedPreserves
    <3>. QED
      BY <2>1, <3>2, <3>3
  <2>. QED
    BY <2>2, <2>3
<1>6. inorder \subseteq 0 .. nsimmax - 1 /\ inorder \subseteq timers
  BY DEF IInv, TypeOK, ConfirmedWasReceived
<1>7. TypeOK'
  BY <1>1, <1>2, <1>5, <1>6 DEF IInv, TypeOK, SimTypeOK
<1>8. WindowsAgree'
  <2>1. \A k \in inorder : k < recv_counter + winsize
    BY DEF IInv, WindowsAgree
  <2>2. /\ recv_counter' = recv_counter /\ cur_msg_recv' = cur_msg_recv
        /\ nextseq' = nextseq /\ Len(send_packets') = Len(send_packets)
        /\ inorder' = inorder
    BY <1>1
  <2>3. /\ winbase' <= recv_counter
        /\ nextseq <= winbase' + winsize
    <3>. DEFINE base == winbase'
    <3>1. base \in Nat /\ winbase <= base /\ base <= recv_counter
      BY <1>5
    <3>. HIDE DEF base
    <3>2. base <= recv_counter /\ nextseq <= base + winsize
      BY <1>3, <3>1
    <3>. QED
      BY <3>2 DEF base
  <2>. QED
    BY <1>3, <2>1, <2>2, <2>3 DEF WindowsAgree
<1>9. NoPanic' /\ ConfirmedWasReceived' /\ TimerStandsForBase'
  BY <1>1, <1>5, <1>6
     DEF IInv, NoPanic, ConfirmedWasReceived, TimerStandsForBase
<1>10. Stored'
  BY <1>1, <1>5 DEF IInv, Stored
<1>. QED
  BY <1>4, <1>7, <1>8, <1>9, <1>10 DEF IInv

(* The timer goes off and A resends the first unconfirmed packet.          *)
LEMMA A_timerinterruptInvariant == IInv /\ A_timerinterrupt => IInv'
<1>. SUFFICES ASSUME IInv, A_timerinterrupt PROVE IInv'
  OBVIOUS
<1>1. /\ UNCHANGED <<nsim, cur_msg_recv, exitcode, toA, winbase, nextseq,
                     send_packets, acked, recv_packets, recv_counter>>
      /\ timer /\ timer' = TRUE
      /\ toB' \in tolayer3(toB, <<StoredPkt(unackedPkt)>>)
      /\ timers' = timers \cup {unackedPkt}
  BY DEF A_timerinterrupt, TimerEvent, bvars
<1>2. /\ nsimmax \in Nat /\ nsimmax <= 1000 /\ winsize \in Nat
      /\ nsim \in Nat /\ nsim <= nsimmax
      /\ winbase \in Nat /\ nextseq \in Nat
      /\ nextseq <= nsim /\ nextseq <= winbase + winsize
      /\ Len(send_packets) = nsim
      /\ timers = 0 .. nextseq - 1 /\ unackedPkt = winbase
      /\ winbase < nextseq
  BY <1>1, Numbers
<1>. DEFINE p == SealedPkt(send_packets, winbase)
<1>3. Sealed(p) /\ p.seqnum = winbase /\ p.payload = Text(Letter(winbase))
  <2>1. /\ winbase \in 0 .. Len(send_packets) - 1 /\ winbase < 1000
        /\ send_packets \in Seq(Payload)
    BY <1>2 DEF IInv, TypeOK
  <2>2. send_packets[winbase + 1] = Text(Letter(winbase))
    BY <2>1 DEF IInv, Stored
  <2>. QED
    BY <2>1, <2>2, SealedPktSealed
<1>4. StoredPkt(unackedPkt) = p
  BY <1>2 DEF StoredPkt
<1>. HIDE DEF p
<1>5. timers' = timers
  BY <1>1, <1>2
<1>6. unackedPkt' = winbase
  <2>1. PICK u \in 0 .. nsimmax :
          checkUnackedPkt(u, winbase, acked, timers) /\ unackedPkt' = u
    BY <1>5 DEF A_timerinterrupt
  <2>. DEFINE open == {i \in winbase .. winbase + winsize - 1 :
                         i \notin acked /\ i \in timers}
  <2>2. \/ u \in open /\ \A i \in open : u <= i
        \/ open = {} /\ u = winbase
    BY <2>1 DEF checkUnackedPkt
  <2>3. winbase \in open
    <3>1. winbase \notin acked
      BY DEF IInv, Stored, FirstOutside
    <3>. QED
      BY <1>2, <3>1
  <2>. QED
    BY <1>2, <2>1, <2>2, <2>3
<1>7. toB \in Seq(Pkt)
  BY DEF IInv, TypeOK, SimTypeOK
<1>8. /\ toB' \in Seq(Pkt)
      /\ Len(toB) <= Len(toB')
      /\ \A i \in 1 .. Len(toB) : toB'[i] = toB[i]
      /\ \A i \in Len(toB) + 1 .. Len(toB') :
           isValidChecksum(toB'[i]) => toB'[i] = p
  BY <1>1, <1>3, <1>4, <1>7, PacketInFlight
<1>9. TypeOK'
  <2>1. SimTypeOK'
    BY <1>1, <1>8 DEF IInv, TypeOK, SimTypeOK
  <2>2. unackedPkt' \in Nat
    BY <1>2, <1>6
  <2>. QED
    BY <1>1, <1>5, <2>1, <2>2 DEF IInv, TypeOK
<1>10. NoPanic' /\ WindowsAgree' /\ ConfirmedWasReceived' /\ Stored'
  BY <1>1, <1>5
     DEF IInv, NoPanic, WindowsAgree, ConfirmedWasReceived, Stored
<1>11. TimerStandsForBase'
  BY <1>1, <1>2, <1>6 DEF TimerStandsForBase
<1>12. InFlight'
  <2>1. ASSUME NEW i \in 1 .. Len(toB'), isValidChecksum(toB'[i])
        PROVE  /\ toB'[i].seqnum \in 0 .. nextseq - 1
               /\ toB'[i].payload = Text(Letter(toB'[i].seqnum))
    <3>1. CASE i \in 1 .. Len(toB)
      BY <1>8, <2>1, <3>1 DEF IInv, InFlight
    <3>2. CASE i \in Len(toB) + 1 .. Len(toB')
      BY <1>2, <1>3, <1>8, <2>1, <3>2
    <3>. QED
      BY <1>7, <1>8, <3>1, <3>2
  <2>. QED
    BY <1>1, <2>1 DEF IInv, InFlight
<1>. QED
  BY <1>9, <1>10, <1>11, <1>12 DEF IInv

(* A packet reaches B: it is acknowledged, kept, and everything up to the  *)
(* first gap goes to layer 5 (sr.cpp:160-180).                             *)
LEMMA ReceivedPreserves ==
  ASSUME IInv, nsim' = nsim, nextseq' = nextseq,
         NEW n \in 0 .. nextseq - 1, Received(n, Text(Letter(n)))
  PROVE  /\ inorder' = inorder \cup {n}
         /\ recv_packets' \in [inorder' -> Payload]
         /\ \A k \in inorder' : recv_packets'[k] = Text(Letter(k))
         /\ recv_counter' \in Nat
         /\ recv_counter <= recv_counter' /\ recv_counter' <= nextseq
         /\ FirstOutside(inorder', 0, recv_counter')
         /\ cur_msg_recv' = recv_counter' /\ exitcode' = 0
<1>1. /\ nsimmax \in Nat /\ nsimmax <= 1000 /\ winsize \in Nat
      /\ nsim \in Nat /\ nsim <= nsimmax /\ exitcode = 0
      /\ winbase \in Nat /\ nextseq \in Nat /\ recv_counter \in Nat
      /\ winbase <= recv_counter /\ recv_counter <= nextseq
      /\ nextseq <= nsim
      /\ cur_msg_recv = recv_counter
      /\ timers = 0 .. nextseq - 1
  BY Numbers
<1>2. /\ inorder \subseteq timers
      /\ FirstOutside(inorder, 0, recv_counter)
      /\ recv_packets \in [inorder -> Payload]
      /\ \A k \in inorder : recv_packets[k] = Text(Letter(k))
  BY DEF IInv, TypeOK, ConfirmedWasReceived, Stored
<1>3. recv_packets' = [k \in inorder \cup {n} |->
                         IF k = n THEN Text(Letter(n)) ELSE recv_packets[k]]
  BY DEF Received
<1>4. inorder' = inorder \cup {n}
  BY <1>3
<1>5. \A k \in inorder' : recv_packets'[k] = Text(Letter(k))
  BY <1>2, <1>3, <1>4
<1>6. recv_packets' \in [inorder' -> Payload]
  <2>1. \A k \in inorder' : Text(Letter(k)) \in Payload
    BY <1>1, <1>2, <1>4, LetterRange
  <2>. QED
    BY <1>3, <1>4, <1>5, <2>1
<1>7. PICK k \in recv_counter .. nsimmax :
        /\ FirstOutside(inorder', recv_counter, k)
        /\ recv_counter' = k
        /\ tolayer5([j \in 1 .. k - recv_counter |->
                       recv_packets'[recv_counter + j - 1]])
  BY DEF Received
<1>8. /\ k \in Nat /\ recv_counter <= k
      /\ k \notin inorder' /\ \A j \in recv_counter .. k - 1 : j \in inorder'
  BY <1>1, <1>7 DEF FirstOutside
<1>9. k <= nextseq
  <2>1. nextseq \notin inorder'
    BY <1>1, <1>2, <1>4
  <2>. QED
    BY <1>1, <1>8, <2>1
<1>10. FirstOutside(inorder', 0, k)
  <2>1. \A j \in 0 .. k - 1 : j \in inorder'
    BY <1>1, <1>2, <1>4, <1>8 DEF FirstOutside
  <2>. QED
    BY <1>8, <2>1 DEF FirstOutside
<1>11. cur_msg_recv' = k /\ exitcode' = exitcode
  <2>. DEFINE m == k - recv_counter
  <2>1. m \in Nat /\ cur_msg_recv + m = k /\ cur_msg_recv + m <= nsim
    BY <1>1, <1>8, <1>9
  <2>2. \A j \in 1 .. m : recv_packets'[recv_counter + j - 1]
                            = Text(Letter(cur_msg_recv + j - 1))
    <3>1. ASSUME NEW j \in 1 .. m
          PROVE  recv_packets'[recv_counter + j - 1]
                   = Text(Letter(cur_msg_recv + j - 1))
      <4>1. recv_counter + j - 1 \in recv_counter .. k - 1
        BY <1>1, <1>8
      <4>2. recv_counter + j - 1 \in inorder'
        BY <1>8, <4>1
      <4>. QED
        BY <1>1, <1>5, <4>2
    <3>. QED
      BY <3>1
  <2>3. [j \in 1 .. m |-> recv_packets'[recv_counter + j - 1]]
          = [j \in 1 .. m |-> Text(Letter(cur_msg_recv + j - 1))]
    BY <2>2
  <2>4. tolayer5([j \in 1 .. m |-> recv_packets'[recv_counter + j - 1]])
    BY <1>7
  <2>. HIDE DEF m
  <2>5. tolayer5([j \in 1 .. m |-> Text(Letter(cur_msg_recv + j - 1))])
    BY <2>3, <2>4
  <2>6. cur_msg_recv \in Nat /\ nsim \in Nat
    BY <1>1
  <2>7. cur_msg_recv' = cur_msg_recv + m /\ exitcode' = exitcode
    BY <2>1, <2>5, <2>6, DeliveredAll
  <2>. QED
    BY <2>1, <2>7
<1>. QED
  BY <1>1, <1>4, <1>5, <1>6, <1>7, <1>8, <1>9, <1>10, <1>11

LEMMA B_inputInvariant == IInv /\ B_input => IInv'
<1>. SUFFICES ASSUME IInv, B_input PROVE IInv'
  OBVIOUS
<1>1. /\ UNCHANGED <<nsim, timer, winbase, nextseq, send_packets, timers,
                     acked, unackedPkt>>
      /\ toB # << >> /\ toB' = Tail(toB) /\ toB \in Seq(Pkt) /\ toA \in Seq(Pkt)
  BY DEF B_input, FromLayer3B, avars, IInv, TypeOK, SimTypeOK
<1>2. /\ toB' \in Seq(Pkt)
      /\ Len(toB) >= 1 /\ Head(toB) = toB[1]
      /\ Len(toB') = Len(toB) - 1
      /\ \A i \in 1 .. Len(toB') : toB'[i] = toB[i + 1] /\ i + 1 \in 1 .. Len(toB)
  BY <1>1
<1>3. /\ nsimmax \in Nat /\ winsize \in Nat /\ nsim \in Nat /\ nsim <= nsimmax
      /\ winbase \in Nat /\ nextseq \in Nat /\ recv_counter \in Nat
      /\ winbase <= recv_counter /\ recv_counter <= nextseq
      /\ nextseq <= winbase + winsize /\ nextseq <= nsim
      /\ Len(send_packets) = nsim
      /\ timers = 0 .. nextseq - 1
  BY Numbers
<1>4. \A i \in 1 .. Len(toB') : isValidChecksum(toB'[i]) =>
        /\ toB'[i].seqnum \in 0 .. nextseq - 1
        /\ toB'[i].payload = Text(Letter(toB'[i].seqnum))
  BY <1>2 DEF IInv, InFlight
<1>5. TimerStandsForBase'
  BY <1>1 DEF IInv, TimerStandsForBase
<1>6. CASE ~isValidChecksum(Head(toB))
  <2>1. UNCHANGED <<cur_msg_recv, exitcode, toA, recv_packets, recv_counter>>
    BY <1>6 DEF B_input, bvars
  <2>2. TypeOK'
    BY <1>1, <1>2, <2>1 DEF IInv, TypeOK, SimTypeOK
  <2>3. NoPanic' /\ WindowsAgree' /\ ConfirmedWasReceived' /\ Stored'
    BY <1>1, <2>1
       DEF IInv, NoPanic, WindowsAgree, ConfirmedWasReceived, Stored, FirstOutside
  <2>4. InFlight'
    BY <1>1, <1>4, <2>1 DEF IInv, InFlight
  <2>. QED
    BY <1>5, <2>2, <2>3, <2>4 DEF IInv
<1>7. CASE isValidChecksum(Head(toB))
  <2>. DEFINE n == Head(toB).seqnum
  <2>1. toA' \in tolayer3(toA, <<AckPkt(n)>>) /\ Received(n, Head(toB).payload)
    BY <1>7 DEF B_input
  <2>2. n \in 0 .. nextseq - 1 /\ Head(toB).payload = Text(Letter(n))
    BY <1>2, <1>7 DEF IInv, InFlight
  <2>. HIDE DEF n
  <2>3. Received(n, Text(Letter(n)))
    BY <2>1, <2>2
  <2>4. /\ inorder' = inorder \cup {n}
        /\ recv_packets' \in [inorder' -> Payload]
        /\ \A k \in inorder' : recv_packets'[k] = Text(Letter(k))
        /\ recv_counter' \in Nat
        /\ recv_counter <= recv_counter' /\ recv_counter' <= nextseq
        /\ FirstOutside(inorder', 0, recv_counter')
        /\ cur_msg_recv' = recv_counter' /\ exitcode' = 0
    BY <1>1, <2>2, <2>3, ReceivedPreserves
  <2>5. /\ Sealed(AckPkt(n)) /\ AckPkt(n).acknum = n
    BY <1>3, <2>2, AckPktSealed
  <2>6. /\ toA' \in Seq(Pkt)
        /\ Len(toA) <= Len(toA')
        /\ \A i \in 1 .. Len(toA) : toA'[i] = toA[i]
        /\ \A i \in Len(toA) + 1 .. Len(toA') :
             isValidChecksum(toA'[i]) => toA'[i] = AckPkt(n)
    BY <1>1, <2>1, <2>5, PacketInFlight
  <2>7. inorder' \subseteq timers /\ inorder' \subseteq 0 .. nsimmax - 1
    <3>1. inorder \subseteq timers
      BY DEF IInv, ConfirmedWasReceived
    <3>2. n \in timers /\ timers \subseteq 0 .. nsimmax - 1
      BY <1>3, <2>2
    <3>. QED
      BY <2>4, <3>1, <3>2
  <2>8. TypeOK'
    <3>1. /\ nsim' \in 0 .. nsimmax /\ cur_msg_recv' \in Nat
          /\ exitcode' \in {0, 52, 63} /\ timer' \in BOOLEAN
      BY <1>1, <2>4 DEF IInv, TypeOK, SimTypeOK
    <3>2. /\ winbase' \in Nat /\ nextseq' \in Nat /\ unackedPkt' \in Nat
          /\ send_packets' \in Seq(Payload)
          /\ timers' \subseteq 0 .. nsimmax - 1
          /\ acked' \subseteq 0 .. nsimmax - 1
      BY <1>1 DEF IInv, TypeOK
    <3>. QED
      BY <1>2, <2>4, <2>6, <2>7, <3>1, <3>2 DEF TypeOK, SimTypeOK
  <2>9. WindowsAgree'
    <3>1. \A k \in inorder' : k < recv_counter' + winsize
      <4>1. \A k \in inorder : k < recv_counter + winsize
        BY DEF IInv, WindowsAgree
      <4>2. n < recv_counter + winsize
        BY <1>3, <2>2
      <4>3. inorder \subseteq 0 .. nsimmax - 1
        BY DEF IInv, TypeOK
      <4>. QED
        BY <1>3, <2>2, <2>4, <4>1, <4>2, <4>3
    <3>2. Len(send_packets') = nsim
      BY <1>1, <1>3
    <3>. QED
      BY <1>1, <1>3, <2>4, <3>1, <3>2 DEF WindowsAgree
  <2>10. NoPanic' /\ ConfirmedWasReceived' /\ Stored'
    <3>1. ConfirmedWasReceived'
      BY <1>1, <2>4, <2>7 DEF IInv, ConfirmedWasReceived
    <3>2. Stored'
      BY <1>1, <2>4 DEF IInv, Stored, FirstOutside
    <3>. QED
      BY <2>4, <3>1, <3>2 DEF NoPanic
  <2>11. InFlight'
    <3>1. ASSUME NEW i \in 1 .. Len(toA'), isValidChecksum(toA'[i])
          PROVE  toA'[i].acknum \in inorder'
      <4>1. CASE i \in 1 .. Len(toA)
        BY <2>4, <2>6, <3>1, <4>1 DEF IInv, InFlight
      <4>2. CASE i \in Len(toA) + 1 .. Len(toA')
        BY <2>4, <2>5, <2>6, <3>1, <4>2
      <4>. QED
        BY <1>1, <2>6, <4>1, <4>2
    <3>. QED
      BY <1>1, <1>4, <3>1 DEF InFlight
  <2>. QED
    BY <1>5, <2>8, <2>9, <2>10, <2>11 DEF IInv
<1>. QED
  BY <1>6, <1>7

LEMMA NextInvariant == IInv /\ [Next]_vars => IInv'
<1>. SUFFICES ASSUME IInv, [Next]_vars PROVE IInv'
  OBVIOUS
<1>1. CASE A_output
  BY <1>1, A_outputInvariant
<1>2. CASE A_input
  BY <1>2, A_inputInvariant
<1>3. CASE A_timerinterrupt
  BY <1>3, A_timerinterruptInvariant
<1>4. CASE B_input
  BY <1>4, B_inputInvariant
<1>5. CASE UNCHANGED vars
  BY <1>5
     DEF vars, simvars, avars, bvars, IInv, TypeOK, SimTypeOK, NoPanic,
         WindowsAgree, ConfirmedWasReceived, TimerStandsForBase, InFlight,
         Stored, FirstOutside
<1>. QED
  BY <1>1, <1>2, <1>3, <1>4, <1>5 DEF Next

(* The inductive invariant holds in every run of sr.cpp.                   *)
THEOREM Invariance == Spec => []IInv
<1>. QED
  BY InitInvariant, NextInvariant, PTL DEF Spec

(* Every variable keeps its type (sr.cpp:27-42).                           *)
THEOREM TypeCorrect == Spec => []TypeOK
<1>1. IInv => TypeOK
  BY DEF IInv
<1>. QED
  BY <1>1, Invariance, PTL

(* tolayer5 never panics: however the medium loses and damages packets, B  *)
(* hands on the messages in order, once each (sr.cpp:172-178).             *)
THEOREM NoPanicEver == Spec => []NoPanic
<1>1. IInv => NoPanic
  BY DEF IInv
<1>. QED
  BY <1>1, Invariance, PTL

(* The windows of A and B overlap: winbase never passes recv_counter, and  *)
(* B never holds a packet a window or more ahead (sr.cpp:97-108, 160-180). *)
THEOREM WindowsAlwaysAgree == Spec => []WindowsAgree
<1>1. IInv => WindowsAgree
  BY DEF IInv
<1>. QED
  BY <1>1, Invariance, PTL

(* What A regards as confirmed B has received (sr.cpp:112-120).            *)
THEOREM ConfirmedAlwaysReceived == Spec => []ConfirmedWasReceived
<1>1. IInv => ConfirmedWasReceived
  BY DEF IInv
<1>. QED
  BY <1>1, Invariance, PTL

(* The timer runs exactly when something is unconfirmed, and unackedPkt is *)
(* the window base (sr.cpp:103-106, 121-129, 137-143).                     *)
THEOREM TimerAlwaysStands == Spec => []TimerStandsForBase
<1>1. IInv => TimerStandsForBase
  BY DEF IInv
<1>. QED
  BY <1>1, Invariance, PTL

(* A_input moves the window base forward, at most to what B delivered.     *)
LEMMA A_inputAdvances ==
  ASSUME IInv, A_input
  PROVE  winbase' \in winbase .. cur_msg_recv
<1>1. /\ winbase \in Nat /\ recv_counter \in Nat /\ winbase <= recv_counter
      /\ cur_msg_recv = recv_counter
  BY Numbers
<1>2. CASE ~isValidChecksum(Head(toA))
  <2>1. winbase' = winbase
    BY <1>2 DEF A_input
  <2>. QED
    BY <1>1, <2>1
<1>3. CASE isValidChecksum(Head(toA))
  <2>1. Acknowledged(Head(toA).acknum)
    BY <1>3 DEF A_input
  <2>2. toA # << >> /\ toA \in Seq(Pkt)
    BY DEF A_input, FromLayer3A, IInv, TypeOK, SimTypeOK
  <2>3. Head(toA) = toA[1] /\ 1 \in 1 .. Len(toA)
    BY <2>2
  <2>4. Head(toA).acknum \in inorder
    BY <1>3, <2>3 DEF IInv, InFlight
  <2>5. winbase' \in Nat /\ winbase <= winbase' /\ winbase' <= recv_counter
    BY <2>1, <2>4, AcknowledgedPreserves
  <2>. QED
    BY <1>1, <2>5
<1>. QED
  BY <1>2, <1>3

(* B_input moves what layer 5 at B has forward, at most to what A sent.    *)
LEMMA B_inputAdvances ==
  ASSUME IInv, B_input
  PROVE  cur_msg_recv' \in cur_msg_recv .. nsim
<1>1. /\ nextseq \in Nat /\ recv_counter \in Nat /\ recv_counter <= nextseq
      /\ nsim \in Nat /\ nextseq <= nsim /\ cur_msg_recv = recv_counter
  BY Numbers
<1>2. CASE ~isValidChecksum(Head(toB))
  <2>1. cur_msg_recv' = cur_msg_recv
    BY <1>2 DEF B_input
  <2>. QED
    BY <1>1, <2>1
<1>3. CASE isValidChecksum(Head(toB))
  <2>1. Received(Head(toB).seqnum, Head(toB).payload)
        /\ nsim' = nsim /\ nextseq' = nextseq
    BY <1>3 DEF B_input, avars
  <2>2. toB # << >> /\ toB \in Seq(Pkt)
    BY DEF B_input, FromLayer3B, IInv, TypeOK, SimTypeOK
  <2>3. Head(toB) = toB[1] /\ 1 \in 1 .. Len(toB)
    BY <2>2
  <2>4. /\ Head(toB).seqnum \in 0 .. nextseq - 1
        /\ Head(toB).payload = Text(Letter(Head(toB).seqnum))
    BY <1>3, <2>3 DEF IInv, InFlight
  <2>5. /\ recv_counter' \in Nat /\ recv_counter <= recv_counter'
        /\ recv_counter' <= nextseq /\ cur_msg_recv' = recv_counter'
    BY <2>1, <2>4, ReceivedPreserves
  <2>. QED
    BY <1>1, <2>5
<1>. QED
  BY <1>2, <1>3

(* Selective Repeat implements the reliable transfer layer 5 relies on.    *)
THEOREM Refinement == Spec => ImplementsReliableTransfer
<1>1. Init => RT!Init
  BY DEF Init, SimInit, RT!Init
<1>2. IInv /\ IInv' /\ [Next]_vars => [RT!Next]_RT!rtvars
  <2>. SUFFICES ASSUME IInv, IInv', [Next]_vars
                PROVE  RT!Next \/ UNCHANGED RT!rtvars
    OBVIOUS
  <2>. USE DEF RT!rtvars
  <2>1. /\ exitcode = 0 /\ exitcode' = 0
        /\ nsim \in Nat /\ cur_msg_recv \in Nat /\ winbase \in Nat
        /\ nextseq \in Nat /\ nextseq <= nsim
        /\ cur_msg_recv = recv_counter
    BY Numbers DEF IInv, NoPanic
  <2>2. CASE A_output
    <3>1. nsim' = nsim + 1 /\ UNCHANGED <<cur_msg_recv, winbase>>
      BY <2>2 DEF A_output, FromLayer5
    <3>2. RT!Accept
      BY <2>1, <3>1 DEF RT!Accept
    <3>. QED
      BY <3>2 DEF RT!Next
  <2>3. CASE A_input
    <3>1. UNCHANGED <<nsim, cur_msg_recv>>
      BY <2>3 DEF A_input
    <3>2. winbase' \in winbase .. cur_msg_recv
      BY <2>3, A_inputAdvances
    <3>3. CASE winbase' = winbase
      BY <2>1, <3>1, <3>3
    <3>4. CASE winbase' # winbase
      <4>1. winbase' \in winbase + 1 .. cur_msg_recv
        BY <2>1, <3>2, <3>4
      <4>2. RT!Confirm
        BY <2>1, <3>1, <4>1 DEF RT!Confirm
      <4>. QED
        BY <4>2 DEF RT!Next
    <3>. QED
      BY <3>3, <3>4
  <2>4. CASE A_timerinterrupt
    BY <2>1, <2>4 DEF A_timerinterrupt
  <2>5. CASE B_input
    <3>1. UNCHANGED <<nsim, winbase, nextseq>>
      BY <2>5 DEF B_input, avars
    <3>2. cur_msg_recv' \in cur_msg_recv .. nsim
      BY <2>1, <2>5, <3>1, B_inputAdvances
    <3>3. CASE cur_msg_recv' = cur_msg_recv
      BY <2>1, <3>1, <3>3
    <3>4. CASE cur_msg_recv' # cur_msg_recv
      <4>1. cur_msg_recv' \in cur_msg_recv + 1 .. nsim
        BY <2>1, <3>2, <3>4
      <4>2. RT!Deliver
        BY <2>1, <3>1, <4>1 DEF RT!Deliver
      <4>. QED
        BY <4>2 DEF RT!Next
    <3>. QED
      BY <3>3, <3>4
  <2>6. CASE UNCHANGED vars
    BY <2>6 DEF vars, simvars, avars
  <2>. QED
    BY <2>2, <2>3, <2>4, <2>5, <2>6 DEF Next
<1>. QED
  BY <1>1, <1>2, Invariance, PTL DEF Spec, RT!Spec, ImplementsReliableTransfer

-----------------------------------------------------------------------------
(* The positions of a set, in order *)

Upto(S, i) == {j \in S : j <= i}

(* q lists the m elements of S in increasing order. *)
Lists(q, m, S) ==
  /\ \A k \in 1 .. m : q[k] \in S
  /\ \A j, k \in 1 .. m : j < k => q[j] < q[k]
  /\ \A i \in S : \E k \in 1 .. m : q[k] = i

(* q and r are the same as far as place m. *)
SameTo(m, q, r) == \A k \in 1 .. m : q[k] = r[k]

(* How many elements of S there are up to i grows with i.                  *)
LEMMA RankGrows ==
  ASSUME NEW n \in Nat, NEW S \in SUBSET (1 .. n)
  PROVE  /\ IsFiniteSet(S) /\ Cardinality(S) \in Nat
         /\ \A i \in S : Cardinality(Upto(S, i)) \in 1 .. Cardinality(S)
         /\ \A i, j \in S : i < j =>
              Cardinality(Upto(S, i)) < Cardinality(Upto(S, j))
<1>0. \A x \in S : x \in Int
  OBVIOUS
<1>1. IsFiniteSet(1 .. n)
  BY FS_Interval
<1>2. IsFiniteSet(S)
  BY <1>1, FS_Subset
<1>3. \A i \in S : /\ Upto(S, i) \in SUBSET S /\ IsFiniteSet(Upto(S, i))
                   /\ Cardinality(Upto(S, i)) \in Nat
                   /\ Cardinality(Upto(S, i)) <= Cardinality(S)
  <2>. TAKE i \in S
  <2>1. Upto(S, i) \in SUBSET S
    BY DEF Upto
  <2>. QED
    BY <1>2, <2>1, FS_Subset, FS_CardinalityType
<1>4. \A i \in S : Cardinality(Upto(S, i)) # 0
  <2>. TAKE i \in S
  <2>1. i \in Upto(S, i)
    BY DEF Upto
  <2>. QED
    BY <1>3, <2>1, FS_EmptySet
<1>5. ASSUME NEW i \in S, NEW j \in S, i < j
      PROVE  Cardinality(Upto(S, i)) < Cardinality(Upto(S, j))
  <2>1. Upto(S, i) \in SUBSET Upto(S, j) /\ j \in Upto(S, j) /\ j \notin Upto(S, i)
    <3>1. i \in Int /\ j \in Int
      BY <1>0
    <3>2. \A x \in S : x <= i => x <= j
      BY <1>0, <1>5, <3>1
    <3>3. Upto(S, i) \in SUBSET Upto(S, j)
      BY <3>2 DEF Upto
    <3>4. j <= j /\ ~(j <= i)
      BY <1>5, <3>1
    <3>. QED
      BY <3>3, <3>4 DEF Upto
  <2>2. /\ Cardinality(Upto(S, i)) <= Cardinality(Upto(S, j))
        /\ Cardinality(Upto(S, j)) = Cardinality(Upto(S, i)) => Upto(S, j) = Upto(S, i)
    BY <1>3, <2>1, FS_Subset
  <2>. QED
    BY <1>3, <2>1, <2>2
<1>6. Cardinality(S) \in Nat
  BY <1>2, FS_CardinalityType
<1>7. \A i \in S : Cardinality(Upto(S, i)) \in 1 .. Cardinality(S)
  BY <1>3, <1>4, <1>6
<1>. QED
  BY <1>2, <1>5, <1>6, <1>7

(* InOrder lists every element once, in increasing order.                  *)
LEMMA InOrderLists ==
  ASSUME NEW n \in Nat, NEW S \in SUBSET (1 .. n)
  PROVE  Lists(InOrder(S), Cardinality(S), S)
<1>. DEFINE m == Cardinality(S)
            rank == [i \in S |-> Cardinality(Upto(S, i))]
<1>0. \A x \in S : x \in Int
  OBVIOUS
<1>1. IsFiniteSet(S) /\ m \in Nat
  BY RankGrows
<1>2. rank \in [S -> 1 .. m]
  BY RankGrows
<1>3. \A i, j \in S : i < j => rank[i] < rank[j]
  BY RankGrows
<1>4. \A i, j \in S : rank[i] = rank[j] => i = j
  <2>. SUFFICES ASSUME NEW i \in S, NEW j \in S, rank[i] = rank[j] PROVE i = j
    OBVIOUS
  <2>1. i \in Int /\ j \in Int /\ rank[i] \in Int /\ rank[j] \in Int
    BY <1>0, <1>1, <1>2
  <2>2. ~(i < j) /\ ~(j < i)
    BY <1>3, <2>1
  <2>. QED
    BY <2>1, <2>2
<1>5. rank \in Injection(S, 1 .. m)
  BY <1>2, <1>4, Fun_IsInj
<1>6. IsFiniteSet(1 .. m) /\ Cardinality(1 .. m) = m
  BY <1>1, FS_Interval
<1>7. rank \in Surjection(S, 1 .. m)
  BY <1>5, <1>6, FS_Injection
<1>8. \A k \in 1 .. m : \E i \in S : rank[i] = k
  <2>. HIDE DEF rank, m
  <2>. QED
    BY <1>7, Fun_SurjectionProperties
<1>9. \A k \in 1 .. m : InOrder(S)[k] \in S /\ rank[InOrder(S)[k]] = k
  <2>. TAKE k \in 1 .. m
  <2>1. InOrder(S)[k] = CHOOSE i \in S : Cardinality({j \in S : j <= i}) = k
    BY DEF InOrder
  <2>2. PICK i \in S : rank[i] = k
    BY <1>8
  <2>3. Cardinality({j \in S : j <= i}) = k
    BY <2>2 DEF Upto
  <2>4. InOrder(S)[k] \in S /\ Cardinality({j \in S : j <= InOrder(S)[k]}) = k
    BY <2>1, <2>3
  <2>. QED
    BY <2>4 DEF Upto
<1>. HIDE DEF rank
<1>10. ASSUME NEW j \in 1 .. m, NEW k \in 1 .. m, j < k
       PROVE  InOrder(S)[j] < InOrder(S)[k]
  <2>1. /\ InOrder(S)[j] \in S /\ InOrder(S)[k] \in S
        /\ rank[InOrder(S)[j]] = j /\ rank[InOrder(S)[k]] = k
    BY <1>9
  <2>. DEFINE a == InOrder(S)[j]
              b == InOrder(S)[k]
  <2>. HIDE DEF a, b
  <2>2. a \in S /\ b \in S /\ rank[a] = j /\ rank[b] = k
    BY <2>1 DEF a, b
  <2>3. a # b /\ ~(b < a)
    BY <1>1, <1>3, <1>10, <2>2
  <2>4. a < b
    BY <1>0, <2>2, <2>3
  <2>. QED
    BY <2>4 DEF a, b
<1>11. ASSUME NEW i \in S PROVE \E k \in 1 .. m : InOrder(S)[k] = i
  <2>1. rank[i] \in 1 .. m
    BY <1>2
  <2>2. InOrder(S)[rank[i]] \in S /\ rank[InOrder(S)[rank[i]]] = rank[i]
    BY <1>9, <2>1
  <2>3. InOrder(S)[rank[i]] = i
    BY <1>4, <2>2
  <2>. QED
    BY <2>1, <2>3
<1>. QED
  BY <1>9, <1>10, <1>11 DEF Lists

(* There is only one way to do so.                                         *)
LEMMA InOrderUnique ==
  ASSUME NEW n \in Nat, NEW S \in SUBSET (1 .. n), NEW m \in Nat, NEW q,
         Lists(q, m, S)
  PROVE  Cardinality(S) = m /\ SameTo(m, InOrder(S), q)
<1>. USE DEF Lists
<1>0. \A x \in S : x \in Int
  OBVIOUS
<1>1. ASSUME NEW k \in 0 .. m, NEW U,
             U = {i \in S : \E l \in 1 .. k : q[l] = i}
      PROVE  Cardinality(U) = k
  <2>. DEFINE f == [l \in 1 .. k |-> q[l]]
  <2>1. f \in [1 .. k -> U]
    BY <1>1
  <2>2. \A a, b \in 1 .. k : f[a] = f[b] => a = b
    <3>. SUFFICES ASSUME NEW a \in 1 .. k, NEW b \in 1 .. k, q[a] = q[b] PROVE a = b
      OBVIOUS
    <3>0. a \in 1 .. m /\ b \in 1 .. m
      OBVIOUS
    <3>1. q[a] \in Int /\ a \in 1 .. m /\ b \in 1 .. m
      BY <1>0, <3>0
    <3>2. ~(a < b) /\ ~(b < a)
      BY <3>1
    <3>. QED
      BY <3>2
  <2>3. \A i \in U : \E l \in 1 .. k : f[l] = i
    BY <1>1
  <2>4. f \in Bijection(1 .. k, U)
    BY <2>1, <2>2, <2>3, Fun_IsBij
  <2>5. ExistsBijection(1 .. k, U)
    BY <2>4, Fun_ExistsBij
  <2>6. IsFiniteSet(1 .. k) /\ Cardinality(1 .. k) = k
    BY FS_Interval
  <2>. QED
    BY <2>5, <2>6, FS_Bijection
<1>2. Cardinality(S) = m
  <2>1. S = {i \in S : \E l \in 1 .. m : q[l] = i}
    OBVIOUS
  <2>. QED
    BY <1>1, <2>1
<1>3. ASSUME NEW k \in 1 .. m
      PROVE  Cardinality({j \in S : j <= q[k]}) = k
  <2>. DEFINE U == {j \in S : j <= q[k]}
  <2>1. U = {i \in S : \E l \in 1 .. k : q[l] = i}
    <3>1. ASSUME NEW i \in U PROVE \E l \in 1 .. k : q[l] = i
      <4>1. PICK l \in 1 .. m : q[l] = i
        OBVIOUS
      <4>2. q[k] \in Int /\ q[l] \in Int /\ q[l] <= q[k]
        BY <1>0, <4>1
      <4>3. ~(k < l)
        BY <4>2
      <4>. QED
        BY <4>1, <4>3
    <3>2. ASSUME NEW l \in 1 .. k PROVE q[l] \in U
      <4>0. l \in 1 .. m
        OBVIOUS
      <4>1. l \in 1 .. m /\ q[k] \in Int /\ q[l] \in S /\ q[l] \in Int
        BY <1>0, <4>0
      <4>2. q[l] <= q[k]
        BY <4>1
      <4>. QED
        BY <4>1, <4>2
    <3>. QED
      BY <3>1, <3>2
  <2>. QED
    BY <1>1, <2>1
<1>4. ASSUME NEW k \in 1 .. m PROVE InOrder(S)[k] = q[k]
  <2>1. InOrder(S)[k] = CHOOSE i \in S : Cardinality({j \in S : j <= i}) = k
    BY <1>2 DEF InOrder
  <2>2. q[k] \in S /\ Cardinality({j \in S : j <= q[k]}) = k
    BY <1>3
  <2>3. ASSUME NEW i \in S, Cardinality({j \in S : j <= i}) = k PROVE i = q[k]
    <3>1. PICK l \in 1 .. m : q[l] = i
      OBVIOUS
    <3>. QED
      BY <1>3, <2>3, <3>1
  <2>. QED
    BY <2>1, <2>2, <2>3
<1>. QED
  BY <1>2, <1>4 DEF SameTo

(* Min and Max of a set of positions.                                      *)
LEMMA MinMax ==
  ASSUME NEW n \in Nat, NEW S \in SUBSET (1 .. n), S # {}
  PROVE  /\ Min(S) \in S /\ \A j \in S : Min(S) <= j
         /\ Max(S) \in S /\ \A j \in S : j <= Max(S)
<1>. DEFINE m == Cardinality(S)
            q == InOrder(S)
<1>0. \A x \in S : x \in Int
  OBVIOUS
<1>1. m \in Nat
  BY RankGrows
<1>2. /\ \A k \in 1 .. m : q[k] \in S
      /\ \A j, k \in 1 .. m : j < k => q[j] < q[k]
      /\ \A i \in S : \E k \in 1 .. m : q[k] = i
  BY InOrderLists DEF Lists
<1>. HIDE DEF m, q
<1>3. 1 \in 1 .. m /\ m \in 1 .. m
  <2>1. PICK i \in S, k \in 1 .. m : q[k] = i
    BY <1>2
  <2>. QED
    BY <1>1, <2>1
<1>4. \A j \in S : q[1] <= j
  <2>. TAKE j \in S
  <2>1. PICK k \in 1 .. m : q[k] = j
    BY <1>2
  <2>2. k = 1 \/ 1 < k
    BY <1>1
  <2>3. q[1] \in Int /\ q[k] \in Int
    BY <1>0, <1>2, <1>3
  <2>. QED
    BY <1>2, <1>3, <2>1, <2>2, <2>3
<1>5. \A j \in S : j <= q[m]
  <2>. TAKE j \in S
  <2>1. PICK k \in 1 .. m : q[k] = j
    BY <1>2
  <2>2. k = m \/ k < m
    BY <1>1
  <2>3. q[m] \in Int /\ q[k] \in Int
    BY <1>0, <1>2, <1>3
  <2>. QED
    BY <1>2, <1>3, <2>1, <2>2, <2>3
<1>6. \E x \in S : \A y \in S : x <= y
  BY <1>2, <1>3, <1>4
<1>7. \E x \in S : \A y \in S : x >= y
  BY <1>2, <1>3, <1>5
<1>8. Min(S) \in S /\ \A y \in S : Min(S) <= y
  BY <1>6 DEF Min
<1>9. Max(S) \in S /\ \A y \in S : Max(S) >= y
  BY <1>7 DEF Max
<1>10. ASSUME NEW j \in S PROVE j <= Max(S)
  <2>1. Max(S) >= j /\ Max(S) \in Int /\ j \in Int
    BY <1>0, <1>9
  <2>. QED
    BY <2>1
<1>. QED
  BY <1>8, <1>9, <1>10

-----------------------------------------------------------------------------
(* The event list *)

Events == [evtime : Nat \ {0},
           evtype : {"FROM_LAYER5", "FROM_LAYER3", "TIMER_INTERRUPT"},
           eventity : {"A", "B"},
           packet : Pkt \cup {Nothing}]

(* One event more at place, the others in their order.                     *)
LEMMA InsertAtIs ==
  ASSUME NEW T, NEW list \in Seq(T), NEW p \in T, NEW place \in 1 .. Len(list) + 1
  PROVE  /\ InsertAt(list, place, p) \in Seq(T)
         /\ Len(InsertAt(list, place, p)) = Len(list) + 1
         /\ \A k \in 1 .. Len(list) + 1 :
              InsertAt(list, place, p)[k] =
                IF k < place THEN list[k] ELSE IF k = place THEN p ELSE list[k - 1]
<1>. DEFINE front == SubSeq(list, 1, place - 1)
            back  == SubSeq(list, place, Len(list))
            n     == Len(list)
<1>0. n \in Nat /\ place \in Nat /\ 1 <= place /\ place <= n + 1
  OBVIOUS
<1>1. /\ front \in Seq(T) /\ Len(front) = place - 1
      /\ \A k \in 1 .. place - 1 : front[k] = list[k]
  <2>1. \A i \in 1 .. place - 1 : list[i] \in T
    BY <1>0
  <2>2. /\ front \in Seq(T)
        /\ Len(front) = IF 1 <= place - 1 THEN place - 1 - 1 + 1 ELSE 0
        /\ \A i \in 1 .. place - 1 - 1 + 1 : front[i] = list[1 + i - 1]
    BY <1>0, <2>1, SubSeqProperties
  <2>. HIDE DEF front
  <2>. QED
    BY <1>0, <2>2
<1>2. /\ back \in Seq(T) /\ Len(back) = n + 1 - place
      /\ \A k \in 1 .. n + 1 - place : back[k] = list[place + k - 1]
  <2>1. \A i \in place .. n : list[i] \in T
    BY <1>0
  <2>2. /\ back \in Seq(T)
        /\ Len(back) = IF place <= n THEN n - place + 1 ELSE 0
        /\ \A i \in 1 .. n - place + 1 : back[i] = list[place + i - 1]
    BY <1>0, <2>1, SubSeqProperties
  <2>. HIDE DEF back
  <2>. QED
    BY <1>0, <2>2
<1>3. InsertAt(list, place, p) = (front \o <<p>>) \o back
  BY DEF InsertAt
<1>. HIDE DEF front, back, n
<1>4. /\ front \o <<p>> \in Seq(T) /\ Len(front \o <<p>>) = place
      /\ \A k \in 1 .. place :
           (front \o <<p>>)[k] = IF k < place THEN list[k] ELSE p
  BY <1>0, <1>1
<1>. DEFINE head == front \o <<p>>
<1>. HIDE DEF head
<1>5. /\ head \in Seq(T) /\ Len(head) = place
      /\ \A k \in 1 .. place : head[k] = IF k < place THEN list[k] ELSE p
  BY <1>4 DEF head
<1>6. /\ head \o back \in Seq(T) /\ Len(head \o back) = n + 1
      /\ \A k \in 1 .. n + 1 :
           (head \o back)[k] = IF k <= place THEN head[k] ELSE back[k - place]
  <2>1. /\ head \o back \in Seq(T) /\ Len(head \o back) = Len(head) + Len(back)
        /\ \A k \in 1 .. Len(head) + Len(back) : (head \o back)[k] =
             IF k <= Len(head) THEN head[k] ELSE back[k - Len(head)]
    BY <1>2, <1>5, ConcatProperties
  <2>2. Len(head) + Len(back) = n + 1
    BY <1>0, <1>2, <1>5
  <2>. QED
    BY <1>5, <2>1, <2>2
<1>7. \A k \in 1 .. n + 1 : k > place => back[k - place] = list[k - 1]
  <2>. TAKE k \in 1 .. n + 1
  <2>. HAVE k > place
  <2>1. k - place \in 1 .. n + 1 - place /\ place + (k - place) - 1 = k - 1
    BY <1>0
  <2>. QED
    BY <1>2, <2>1
<1>8. ASSUME NEW k \in 1 .. n + 1
      PROVE  (head \o back)[k] =
               IF k < place THEN list[k] ELSE IF k = place THEN p ELSE list[k - 1]
  <2>1. CASE k < place
    BY <1>0, <1>5, <1>6, <2>1
  <2>2. CASE k = place
    BY <1>0, <1>5, <1>6, <2>2
  <2>3. CASE k > place
    BY <1>0, <1>6, <1>7, <2>3
  <2>4. k < place \/ k = place \/ k > place
    BY <1>0
  <2>. QED
    BY <2>1, <2>2, <2>3, <2>4
<1>. QED
  BY <1>3, <1>6, <1>8 DEF head, n

(* One event less.                                                         *)
LEMMA RemoveAtIs ==
  ASSUME NEW T, NEW list \in Seq(T), NEW place \in 1 .. Len(list)
  PROVE  /\ RemoveAt(list, place) \in Seq(T)
         /\ Len(RemoveAt(list, place)) = Len(list) - 1
         /\ \A k \in 1 .. Len(list) - 1 :
              RemoveAt(list, place)[k] =
                IF k < place THEN list[k] ELSE list[k + 1]
<1>. DEFINE front == SubSeq(list, 1, place - 1)
            back  == SubSeq(list, place + 1, Len(list))
            n     == Len(list)
<1>0. n \in Nat /\ place \in Nat /\ 1 <= place /\ place <= n
  OBVIOUS
<1>1. /\ front \in Seq(T) /\ Len(front) = place - 1
      /\ \A k \in 1 .. place - 1 : front[k] = list[k]
  <2>1. \A i \in 1 .. place - 1 : list[i] \in T
    BY <1>0
  <2>2. /\ front \in Seq(T)
        /\ Len(front) = IF 1 <= place - 1 THEN place - 1 - 1 + 1 ELSE 0
        /\ \A i \in 1 .. place - 1 - 1 + 1 : front[i] = list[1 + i - 1]
    BY <1>0, <2>1, SubSeqProperties
  <2>. HIDE DEF front
  <2>. QED
    BY <1>0, <2>2
<1>2. /\ back \in Seq(T) /\ Len(back) = n - place
      /\ \A k \in 1 .. n - place : back[k] = list[place + k]
  <2>1. \A i \in place + 1 .. n : list[i] \in T
    BY <1>0
  <2>2. /\ back \in Seq(T)
        /\ Len(back) = IF place + 1 <= n THEN n - (place + 1) + 1 ELSE 0
        /\ \A i \in 1 .. n - (place + 1) + 1 : back[i] = list[place + 1 + i - 1]
    BY <1>0, <2>1, SubSeqProperties
  <2>3. place + 1 <= n \/ n = place
    BY <1>0
  <2>. HIDE DEF back
  <2>4. Len(back) = n - place
    BY <1>0, <2>2, <2>3
  <2>5. ASSUME NEW k \in 1 .. n - place PROVE back[k] = list[place + k]
    <3>1. k \in 1 .. n - (place + 1) + 1 /\ place + 1 + k - 1 = place + k
      BY <1>0
    <3>. QED
      BY <2>2, <3>1
  <2>. QED
    BY <2>2, <2>4, <2>5
<1>3. RemoveAt(list, place) = front \o back
  BY DEF RemoveAt
<1>. HIDE DEF front, back, n
<1>6. /\ front \o back \in Seq(T) /\ Len(front \o back) = n - 1
      /\ \A k \in 1 .. n - 1 :
           (front \o back)[k] = IF k < place THEN front[k] ELSE back[k - (place - 1)]
  <2>1. /\ front \o back \in Seq(T) /\ Len(front \o back) = Len(front) + Len(back)
        /\ \A k \in 1 .. Len(front) + Len(back) : (front \o back)[k] =
             IF k <= Len(front) THEN front[k] ELSE back[k - Len(front)]
    BY <1>1, <1>2, ConcatProperties
  <2>2. Len(front) + Len(back) = n - 1
    BY <1>0, <1>1, <1>2
  <2>3. \A k \in 1 .. n - 1 : k <= place - 1 <=> k < place
    BY <1>0
  <2>. QED
    BY <1>1, <2>1, <2>2, <2>3
<1>7. \A k \in 1 .. n - 1 : ~(k < place) => back[k - (place - 1)] = list[k + 1]
  <2>. TAKE k \in 1 .. n - 1
  <2>. HAVE ~(k < place)
  <2>1. k - (place - 1) \in 1 .. n - place /\ place + (k - (place - 1)) = k + 1
    BY <1>0
  <2>. QED
    BY <1>2, <2>1
<1>8. \A k \in 1 .. n - 1 : k < place => front[k] = list[k]
  BY <1>0, <1>1
<1>. QED
  BY <1>3, <1>6, <1>7, <1>8 DEF n

(* The place insertevent finds.                                            *)
LEMMA InsertedIs ==
  ASSUME NEW list \in Seq(Events), NEW p \in Events
  PROVE  \E place \in 1 .. Len(list) + 1 :
           /\ insertevent(list, p) \in Seq(Events)
           /\ Len(insertevent(list, p)) = Len(list) + 1
           /\ \A k \in 1 .. Len(list) + 1 :
                insertevent(list, p)[k] =
                  IF k < place THEN list[k] ELSE IF k = place THEN p ELSE list[k - 1]
           /\ \A k \in 1 .. Len(list) : k < place => list[k].evtime < p.evtime
           /\ place <= Len(list) => list[place].evtime >= p.evtime
<1>. DEFINE n == Len(list)
            S == {i \in DOMAIN list : list[i].evtime >= p.evtime} \cup {n + 1}
            place == Min(S)
<1>1. n \in Nat /\ DOMAIN list = 1 .. n /\ n + 1 \in Nat
  OBVIOUS
<1>2. S \in SUBSET (1 .. n + 1) /\ S # {}
  BY <1>1
<1>3. place \in S /\ \A j \in S : place <= j
  <2>. HIDE DEF S
  <2>. QED
    BY <1>1, <1>2, MinMax
<1>4. insertevent(list, p) = InsertAt(list, place, p)
  BY DEF insertevent
<1>. HIDE DEF place
<1>5. place \in 1 .. n + 1
  BY <1>2, <1>3
<1>6. ASSUME NEW k \in 1 .. n, k < place PROVE list[k].evtime < p.evtime
  <2>1. k \notin S
    BY <1>3, <1>5, <1>6
  <2>2. ~(list[k].evtime >= p.evtime)
    BY <1>1, <2>1
  <2>3. list[k] \in Events
    BY <1>1
  <2>4. list[k].evtime \in Nat /\ p.evtime \in Nat
    BY <2>3 DEF Events
  <2>. QED
    BY <2>2, <2>4
<1>7. place <= n => list[place].evtime >= p.evtime
  BY <1>1, <1>3
<1>8. /\ InsertAt(list, place, p) \in Seq(Events)
      /\ Len(InsertAt(list, place, p)) = Len(list) + 1
      /\ \A k \in 1 .. Len(list) + 1 :
           InsertAt(list, place, p)[k] =
             IF k < place THEN list[k] ELSE IF k = place THEN p ELSE list[k - 1]
  BY <1>5, InsertAtIs
<1>. QED
  BY <1>4, <1>5, <1>6, <1>7, <1>8

-----------------------------------------------------------------------------
(* The packets under way *)

(* The positions of the packets to an entity, in order.                    *)
LEMMA UnderWayHas ==
  ASSUME NEW list \in Seq(Events), NEW e, NEW m, NEW q,
         m = Cardinality(PacketsTo(list, e)), q = InOrder(PacketsTo(list, e))
  PROVE  /\ m \in Nat
         /\ PacketsTo(list, e) \in SUBSET (1 .. Len(list))
         /\ Lists(q, m, PacketsTo(list, e))
         /\ \A k \in 1 .. m : q[k] \in 1 .. Len(list)
         /\ UnderWay(list, e) = [k \in 1 .. m |-> list[q[k]].packet]
<1>. DEFINE P == PacketsTo(list, e)
<1>1. P \in SUBSET (1 .. Len(list)) /\ Len(list) \in Nat
  BY DEF PacketsTo
<1>2. m \in Nat
  BY <1>1, RankGrows
<1>3. UnderWay(list, e) = [k \in 1 .. m |-> list[q[k]].packet]
  BY DEF UnderWay
<1>. HIDE DEF P
<1>4. Lists(q, m, P)
  BY <1>1, InOrderLists DEF P
<1>5. \A k \in 1 .. m : q[k] \in 1 .. Len(list)
  BY <1>1, <1>4 DEF Lists
<1>. QED
  BY <1>1, <1>2, <1>3, <1>4, <1>5 DEF P

(* However its positions are found, what is under way is the same.         *)
LEMMA UnderWayIs ==
  ASSUME NEW list \in Seq(Events), NEW e, NEW m \in Nat, NEW q,
         Lists(q, m, PacketsTo(list, e))
  PROVE  UnderWay(list, e) = [k \in 1 .. m |-> list[q[k]].packet]
<1>. DEFINE P == PacketsTo(list, e)
<1>1. P \in SUBSET (1 .. Len(list)) /\ Len(list) \in Nat
  BY DEF PacketsTo
<1>2. Cardinality(P) = m /\ SameTo(m, InOrder(P), q)
  <2>. DEFINE n == Len(list)
  <2>1. n \in Nat /\ P \in SUBSET (1 .. n) /\ Lists(q, m, P)
    BY <1>1
  <2>. HIDE DEF n, P
  <2>. QED
    BY <2>1, InOrderUnique
<1>3. [k \in 1 .. Cardinality(P) |-> list[InOrder(P)[k]].packet] =
        [k \in 1 .. m |-> list[q[k]].packet]
  <2>. HIDE DEF P
  <2>. QED
    BY <1>2 DEF SameTo
<1>. QED
  BY <1>3 DEF UnderWay

(* f says where on list2 each packet of list is now, in the same order:    *)
(* the positions P become P2.                                              *)
Moves(f, list, P, list2, P2) ==
  /\ \A i \in P : f[i] \in P2 /\ list2[f[i]].packet = list[i].packet
  /\ \A i, j \in P : i < j => f[i] < f[j]
  /\ \A j \in P2 : \E i \in P : f[i] = j

(* A list that holds the same packets in the same order has the same under *)
(* way.                                                                    *)
LEMMA UnderWaySame ==
  ASSUME NEW list \in Seq(Events), NEW list2 \in Seq(Events), NEW e, NEW f,
         Moves(f, list, PacketsTo(list, e), list2, PacketsTo(list2, e))
  PROVE  UnderWay(list2, e) = UnderWay(list, e)
<1>. DEFINE P == PacketsTo(list, e)
            m == Cardinality(P)
            q == InOrder(P)
            r == [k \in 1 .. m |-> f[q[k]]]
<1>. USE DEF Moves
<1>1. /\ m \in Nat
      /\ \A k \in 1 .. m : q[k] \in P
      /\ \A j, k \in 1 .. m : j < k => q[j] < q[k]
      /\ \A i \in P : \E k \in 1 .. m : q[k] = i
      /\ UnderWay(list, e) = [k \in 1 .. m |-> list[q[k]].packet]
  BY UnderWayHas DEF Lists
<1>. HIDE DEF m, q
<1>2. \A k \in 1 .. m : r[k] \in PacketsTo(list2, e)
  BY <1>1
<1>3. \A j, k \in 1 .. m : j < k => r[j] < r[k]
  BY <1>1
<1>4. \A j \in PacketsTo(list2, e) : \E k \in 1 .. m : r[k] = j
  <2>. TAKE j \in PacketsTo(list2, e)
  <2>1. PICK i \in P : f[i] = j
    OBVIOUS
  <2>2. PICK k \in 1 .. m : q[k] = i
    BY <1>1
  <2>. QED
    BY <2>1, <2>2
<1>5. \A k \in 1 .. m : list2[r[k]].packet = list[q[k]].packet
  BY <1>1
<1>. HIDE DEF r, P
<1>6. UnderWay(list2, e) = [k \in 1 .. m |-> list2[r[k]].packet]
  <2>1. m \in Nat
    BY <1>1
  <2>2. Lists(r, m, PacketsTo(list2, e))
    BY <1>2, <1>3, <1>4 DEF Lists
  <2>. QED
    BY <2>1, <2>2, UnderWayIs
<1>. QED
  BY <1>1, <1>5, <1>6

(* Another event on the list leaves them as they are.                      *)
LEMMA InsertKeeps ==
  ASSUME NEW list \in Seq(Events), NEW p \in Events, NEW e, ~IsPacketTo(e, p)
  PROVE  UnderWay(insertevent(list, p), e) = UnderWay(list, e)
<1>. DEFINE list2 == insertevent(list, p)
            n == Len(list)
<1>1. PICK place \in 1 .. n + 1 :
        /\ list2 \in Seq(Events)
        /\ Len(list2) = n + 1
        /\ \A k \in 1 .. n + 1 : list2[k] =
             IF k < place THEN list[k] ELSE IF k = place THEN p ELSE list[k - 1]
        /\ \A k \in 1 .. n : k < place => list[k].evtime < p.evtime
        /\ place <= n => list[place].evtime >= p.evtime
  BY InsertedIs
<1>. HIDE DEF list2
<1>. DEFINE f == [i \in 1 .. n |-> IF i < place THEN i ELSE i + 1]
            P == PacketsTo(list, e)
            P2 == PacketsTo(list2, e)
<1>2. n \in Nat /\ place \in Nat
  BY <1>1
<1>3. DOMAIN list = 1 .. n /\ DOMAIN list2 = 1 .. n + 1
  BY <1>1, LenProperties
<1>4. \A i \in 1 .. n : f[i] \in 1 .. n + 1 /\ f[i] # place /\ list2[f[i]] = list[i]
  BY <1>1, <1>2
<1>5. \A i, j \in 1 .. n : i < j => f[i] < f[j]
  BY <1>1, <1>2
<1>6. \A j \in 1 .. n + 1 : j # place => \E i \in 1 .. n : f[i] = j
  <2>. TAKE j \in 1 .. n + 1
  <2>. HAVE j # place
  <2>1. CASE j < place
    <3>1. j \in 1 .. n /\ f[j] = j
      BY <1>2, <2>1
    <3>. QED
      BY <3>1
  <2>2. CASE j > place
    <3>1. j - 1 \in 1 .. n /\ f[j - 1] = j
      BY <1>2, <2>2
    <3>. QED
      BY <3>1
  <2>. QED
    BY <1>2, <2>1, <2>2
<1>. HIDE DEF f
<1>7. list2[place] = p
  BY <1>1, <1>2
<1>8. \A i \in P : f[i] \in P2 /\ list2[f[i]].packet = list[i].packet
  BY <1>3, <1>4 DEF PacketsTo
<1>9. \A i, j \in P : i < j => f[i] < f[j]
  BY <1>3, <1>5 DEF PacketsTo
<1>10. ASSUME NEW j \in P2 PROVE \E i \in P : f[i] = j
  <2>1. j \in 1 .. n + 1 /\ IsPacketTo(e, list2[j])
    BY <1>3 DEF PacketsTo
  <2>2. PICK i \in 1 .. n : f[i] = j
    BY <1>6, <1>7, <2>1
  <2>3. i \in P
    BY <1>3, <1>4, <2>1, <2>2 DEF PacketsTo
  <2>. QED
    BY <2>2, <2>3
<1>. HIDE DEF P, P2
<1>11. UnderWay(list2, e) = UnderWay(list, e)
  <2>1. Moves(f, list, P, list2, P2)
    BY <1>8, <1>9, <1>10 DEF Moves
  <2>. QED
    BY <1>1, <2>1, UnderWaySame DEF P, P2
<1>. QED
  BY <1>11 DEF list2

(* A packet that arrives after those before it goes behind them.           *)
LEMMA InsertAppends ==
  ASSUME NEW list \in Seq(Events), NEW p \in Events, NEW e, IsPacketTo(e, p),
         \A i, j \in 1 .. Len(list) : i < j => list[i].evtime <= list[j].evtime,
         \A i \in PacketsTo(list, e) : list[i].evtime < p.evtime
  PROVE  UnderWay(insertevent(list, p), e) = Append(UnderWay(list, e), p.packet)
<1>. DEFINE list2 == insertevent(list, p)
            n == Len(list)
            m == Cardinality(PacketsTo(list, e))
            q == InOrder(PacketsTo(list, e))
<1>1. PICK place \in 1 .. n + 1 :
        /\ list2 \in Seq(Events)
        /\ Len(list2) = n + 1
        /\ \A k \in 1 .. n + 1 : list2[k] =
             IF k < place THEN list[k] ELSE IF k = place THEN p ELSE list[k - 1]
        /\ place <= n => list[place].evtime >= p.evtime
  BY InsertedIs
<1>2. /\ m \in Nat
      /\ PacketsTo(list, e) \in SUBSET (1 .. n)
      /\ \A k \in 1 .. m : q[k] \in PacketsTo(list, e) /\ q[k] \in 1 .. n
      /\ \A j, k \in 1 .. m : j < k => q[j] < q[k]
      /\ \A i \in PacketsTo(list, e) : \E k \in 1 .. m : q[k] = i
      /\ UnderWay(list, e) = [k \in 1 .. m |-> list[q[k]].packet]
  <2>. HIDE DEF m, q, n
  <2>1. /\ m \in Nat
        /\ PacketsTo(list, e) \in SUBSET (1 .. n)
        /\ Lists(q, m, PacketsTo(list, e))
        /\ \A k \in 1 .. m : q[k] \in 1 .. n
        /\ UnderWay(list, e) = [k \in 1 .. m |-> list[q[k]].packet]
    BY UnderWayHas DEF m, q, n
  <2>. QED
    BY <2>1 DEF Lists
<1>. HIDE DEF list2, m, q
<1>3. n \in Nat /\ place \in Nat /\ DOMAIN list = 1 .. n /\ DOMAIN list2 = 1 .. n + 1
  BY <1>1, LenProperties
<1>4. ASSUME NEW i \in PacketsTo(list, e) PROVE i < place
  <2>1. i \in 1 .. n /\ list[i].evtime < p.evtime
    BY <1>2
  <2>2. p.evtime \in Nat /\ \A k \in 1 .. n : list[k].evtime \in Nat
    <3>1. \A k \in 1 .. n : list[k] \in Events
      BY <1>3
    <3>. QED
      BY <3>1 DEF Events
  <2>3. CASE ~(i < place)
    <3>1. place \in 1 .. n /\ (place = i \/ place < i)
      BY <1>3, <2>1, <2>3
    <3>2. list[place].evtime >= p.evtime /\ list[place].evtime <= list[i].evtime
      BY <1>1, <2>1, <2>2, <3>1
    <3>. QED
      BY <2>1, <2>2, <3>1, <3>2
  <2>. QED
    BY <2>3
<1>. DEFINE r == [k \in 1 .. m + 1 |-> IF k = m + 1 THEN place ELSE q[k]]
<1>5. \A k \in 1 .. m : r[k] = q[k] /\ q[k] < place /\ list2[q[k]] = list[q[k]]
  <2>. TAKE k \in 1 .. m
  <2>1. q[k] < place /\ q[k] \in 1 .. n
    BY <1>2, <1>4
  <2>2. list2[q[k]] = list[q[k]]
    BY <1>1, <1>3, <2>1
  <2>. QED
    BY <1>2, <2>1, <2>2
<1>6. r[m + 1] = place /\ list2[place] = p
  BY <1>1, <1>2, <1>3
<1>7. ASSUME NEW k \in 1 .. m + 1 PROVE r[k] \in PacketsTo(list2, e)
  <2>1. CASE k = m + 1
    BY <1>3, <1>6, <2>1 DEF PacketsTo
  <2>2. CASE k # m + 1
    <3>1. k \in 1 .. m
      BY <1>2, <2>2
    <3>2. q[k] \in 1 .. n /\ IsPacketTo(e, list[q[k]])
      BY <1>2, <3>1 DEF PacketsTo
    <3>3. q[k] \in 1 .. n + 1 /\ list2[q[k]] = list[q[k]] /\ r[k] = q[k]
      <4>1. list2[q[k]] = list[q[k]] /\ r[k] = q[k]
        BY <1>5, <3>1
      <4>2. q[k] \in 1 .. n + 1
        BY <1>3, <3>2
      <4>. QED
        BY <4>1, <4>2
    <3>. HIDE DEF r
    <3>. QED
      BY <1>3, <3>2, <3>3 DEF PacketsTo
  <2>. QED
    BY <2>1, <2>2
<1>8. ASSUME NEW j \in 1 .. m + 1, NEW k \in 1 .. m + 1, j < k
      PROVE  r[j] < r[k]
  <2>1. j \in 1 .. m
    BY <1>2, <1>8
  <2>2. CASE k = m + 1
    BY <1>5, <1>6, <2>1, <2>2
  <2>3. CASE k # m + 1
    <3>1. k \in 1 .. m
      BY <1>2, <2>3
    <3>. QED
      BY <1>2, <1>5, <1>8, <2>1, <3>1
  <2>. QED
    BY <2>2, <2>3
<1>9. ASSUME NEW i \in PacketsTo(list2, e) PROVE \E k \in 1 .. m + 1 : r[k] = i
  <2>1. i \in 1 .. n + 1 /\ IsPacketTo(e, list2[i])
    BY <1>3 DEF PacketsTo
  <2>2. CASE i = place
    BY <1>2, <1>6, <2>2
  <2>3. CASE i < place
    <3>1. i \in 1 .. n /\ list2[i] = list[i]
      BY <1>1, <1>3, <2>1, <2>3
    <3>2. i \in PacketsTo(list, e)
      BY <1>3, <2>1, <3>1 DEF PacketsTo
    <3>3. PICK k \in 1 .. m : q[k] = i
      BY <1>2, <3>2
    <3>. QED
      BY <1>2, <1>5, <3>3
  <2>4. CASE i > place
    <3>1. i - 1 \in 1 .. n /\ list2[i] = list[i - 1] /\ ~(i - 1 < place)
      BY <1>1, <1>3, <2>1, <2>4
    <3>2. i - 1 \in PacketsTo(list, e)
      BY <1>3, <2>1, <3>1 DEF PacketsTo
    <3>. QED
      BY <1>4, <3>1, <3>2
  <2>5. i < place \/ i = place \/ i > place
    BY <1>3, <2>1
  <2>. QED
    BY <2>2, <2>3, <2>4, <2>5
<1>10. \A k \in 1 .. m + 1 : list2[r[k]].packet =
         IF k = m + 1 THEN p.packet ELSE list[q[k]].packet
  <2>. TAKE k \in 1 .. m + 1
  <2>1. k = m + 1 \/ k \in 1 .. m
    BY <1>2
  <2>. QED
    BY <1>2, <1>5, <1>6, <2>1
<1>. HIDE DEF r
<1>11. UnderWay(list2, e) = [k \in 1 .. m + 1 |-> list2[r[k]].packet]
  <2>1. list2 \in Seq(Events) /\ m + 1 \in Nat
    BY <1>1, <1>2
  <2>2. Lists(r, m + 1, PacketsTo(list2, e))
    BY <1>7, <1>8, <1>9 DEF Lists
  <2>. QED
    BY <2>1, <2>2, UnderWayIs
<1>12. UnderWay(list2, e) =
         [k \in 1 .. m + 1 |-> IF k = m + 1 THEN p.packet ELSE list[q[k]].packet]
  BY <1>10, <1>11
<1>13. Append(UnderWay(list, e), p.packet) =
         [k \in 1 .. m + 1 |-> IF k = m + 1 THEN p.packet ELSE list[q[k]].packet]
  BY <1>2
<1>. QED
  BY <1>12, <1>13 DEF list2

(* Taking an event off the list leaves the others: pos is where it was.    *)
LEMMA RemoveKeeps ==
  ASSUME NEW list \in Seq(Events), NEW list2 \in Seq(Events), NEW e,
         NEW place \in 1 .. Len(list), Len(list2) = Len(list) - 1,
         \A k \in 1 .. Len(list) - 1 :
           list2[k] = IF k < place THEN list[k] ELSE list[k + 1],
         ~IsPacketTo(e, list[place])
  PROVE  UnderWay(list2, e) = UnderWay(list, e)
<1>. DEFINE n == Len(list)
            f == [i \in 1 .. n |-> IF i < place THEN i ELSE i - 1]
            P == PacketsTo(list, e)
            P2 == PacketsTo(list2, e)
<1>1. n \in Nat /\ place \in Nat /\ 1 <= place /\ place <= n
  OBVIOUS
<1>2. DOMAIN list = 1 .. n /\ DOMAIN list2 = 1 .. n - 1
  BY LenProperties
<1>3. ASSUME NEW i \in 1 .. n, i # place
      PROVE  f[i] \in 1 .. n - 1 /\ list2[f[i]] = list[i]
  <2>1. CASE i < place
    <3>1. f[i] = i /\ i \in 1 .. n - 1
      BY <1>1, <2>1
    <3>. QED
      BY <2>1, <3>1
  <2>2. CASE i > place
    <3>1. f[i] = i - 1 /\ i - 1 \in 1 .. n - 1 /\ ~(i - 1 < place) /\ i - 1 + 1 = i
      BY <1>1, <2>2
    <3>2. list2[i - 1] = list[i - 1 + 1]
      BY <3>1
    <3>. QED
      BY <3>1, <3>2
  <2>. QED
    BY <1>1, <1>3, <2>1, <2>2
<1>4. \A i, j \in 1 .. n : i # place /\ j # place /\ i < j => f[i] < f[j]
  BY <1>1
<1>5. ASSUME NEW j \in 1 .. n - 1
      PROVE  \E i \in 1 .. n : i # place /\ f[i] = j
  <2>1. CASE j < place
    <3>1. j \in 1 .. n /\ j # place /\ f[j] = j
      BY <1>1, <2>1
    <3>. QED
      BY <3>1
  <2>2. CASE ~(j < place)
    <3>1. j + 1 \in 1 .. n /\ j + 1 # place /\ f[j + 1] = j
      BY <1>1, <2>2
    <3>. QED
      BY <3>1
  <2>. QED
    BY <2>1, <2>2
<1>. HIDE DEF f
<1>6. \A i \in P : i \in 1 .. n /\ i # place
  BY <1>2 DEF PacketsTo
<1>7. \A i \in P : f[i] \in P2 /\ list2[f[i]].packet = list[i].packet
  BY <1>2, <1>3, <1>6 DEF PacketsTo
<1>8. \A i, j \in P : i < j => f[i] < f[j]
  BY <1>4, <1>6
<1>9. ASSUME NEW j \in P2 PROVE \E i \in P : f[i] = j
  <2>1. j \in 1 .. n - 1 /\ IsPacketTo(e, list2[j])
    BY <1>2 DEF PacketsTo
  <2>2. PICK i \in 1 .. n : i # place /\ f[i] = j
    BY <1>5, <2>1
  <2>3. i \in P
    BY <1>2, <1>3, <2>1, <2>2 DEF PacketsTo
  <2>. QED
    BY <2>2, <2>3
<1>. HIDE DEF P, P2
<1>10. Moves(f, list, P, list2, P2)
  BY <1>7, <1>8, <1>9 DEF Moves
<1>. QED
  BY <1>10, UnderWaySame DEF P, P2

(* The main loop takes the first event: if it is a packet to the entity,   *)
(* it is the first one under way.                                          *)
LEMMA TailTakes ==
  ASSUME NEW list \in Seq(Events), list # << >>, NEW e
  PROVE  /\ ~IsPacketTo(e, Head(list)) => UnderWay(Tail(list), e) = UnderWay(list, e)
         /\ IsPacketTo(e, Head(list)) =>
              /\ UnderWay(list, e) # << >>
              /\ Head(UnderWay(list, e)) = Head(list).packet
              /\ UnderWay(Tail(list), e) = Tail(UnderWay(list, e))
<1>. DEFINE n == Len(list)
            list2 == Tail(list)
<1>1. /\ n \in Nat /\ n >= 1 /\ Head(list) = list[1]
      /\ list2 \in Seq(Events) /\ Len(list2) = n - 1
      /\ \A k \in 1 .. n - 1 : list2[k] = list[k + 1]
  OBVIOUS
<1>2. DOMAIN list = 1 .. n /\ DOMAIN list2 = 1 .. n - 1
  BY <1>1, LenProperties
<1>. HIDE DEF list2
<1>3. ASSUME ~IsPacketTo(e, Head(list)) PROVE UnderWay(list2, e) = UnderWay(list, e)
  <2>1. /\ 1 \in 1 .. Len(list) /\ ~IsPacketTo(e, list[1])
        /\ \A k \in 1 .. Len(list) - 1 :
             list2[k] = IF k < 1 THEN list[k] ELSE list[k + 1]
    BY <1>1, <1>3
  <2>. QED
    BY <1>1, <2>1, RemoveKeeps
<1>4. ASSUME IsPacketTo(e, Head(list))
      PROVE  /\ UnderWay(list, e) # << >>
             /\ Head(UnderWay(list, e)) = Head(list).packet
             /\ UnderWay(list2, e) = Tail(UnderWay(list, e))
  <2>. DEFINE P == PacketsTo(list, e)
              m == Cardinality(P)
              q == InOrder(P)
              r == [k \in 1 .. m - 1 |-> q[k + 1] - 1]
  <2>1. /\ m \in Nat /\ P \in SUBSET (1 .. n) /\ Lists(q, m, P)
        /\ \A k \in 1 .. m : q[k] \in 1 .. n
        /\ UnderWay(list, e) = [k \in 1 .. m |-> list[q[k]].packet]
    BY UnderWayHas
  <2>. HIDE DEF m, q
  <2>2. 1 \in P
    BY <1>1, <1>2, <1>4 DEF PacketsTo
  <2>3. m >= 1 /\ q[1] = 1
    <3>1. PICK k \in 1 .. m : q[k] = 1
      BY <2>1, <2>2 DEF Lists
    <3>2. 1 \in 1 .. m /\ (k = 1 \/ 1 < k)
      BY <2>1, <3>1
    <3>3. q[1] \in 1 .. n /\ (k = 1 \/ q[1] < q[k])
      BY <2>1, <3>1, <3>2 DEF Lists
    <3>. QED
      BY <3>1, <3>2, <3>3
  <2>4. ASSUME NEW k \in 1 .. m - 1
        PROVE  /\ r[k] \in 1 .. n - 1 /\ list2[r[k]] = list[q[k + 1]]
               /\ r[k] + 1 = q[k + 1]
    <3>1. k + 1 \in 1 .. m /\ 1 \in 1 .. m /\ 1 < k + 1
      BY <2>1, <2>3
    <3>2. q[k + 1] \in 1 .. n /\ q[1] < q[k + 1]
      BY <2>1, <3>1 DEF Lists
    <3>3. r[k] = q[k + 1] - 1 /\ q[k + 1] - 1 \in 1 .. n - 1
      BY <1>1, <2>3, <3>2
    <3>4. list2[q[k + 1] - 1] = list[q[k + 1] - 1 + 1] /\ q[k + 1] - 1 + 1 = q[k + 1]
      BY <1>1, <3>2, <3>3
    <3>. HIDE DEF r
    <3>. QED
      BY <3>3, <3>4
  <2>. HIDE DEF r
  <2>5. ASSUME NEW k \in 1 .. m - 1 PROVE r[k] \in PacketsTo(list2, e)
    <3>1. k + 1 \in 1 .. m
      BY <2>1
    <3>2. IsPacketTo(e, list[q[k + 1]])
      BY <2>1, <3>1 DEF Lists, PacketsTo
    <3>. QED
      BY <1>2, <2>4, <3>2 DEF PacketsTo
  <2>6. ASSUME NEW j \in 1 .. m - 1, NEW k \in 1 .. m - 1, j < k PROVE r[j] < r[k]
    <3>1. j + 1 \in 1 .. m /\ k + 1 \in 1 .. m /\ j + 1 < k + 1
      BY <2>1, <2>6
    <3>2. q[j + 1] < q[k + 1]
      BY <2>1, <3>1 DEF Lists
    <3>3. r[j] \in Int /\ r[k] \in Int /\ r[j] + 1 < r[k] + 1
      BY <2>4, <3>2
    <3>. QED
      BY <3>3
  <2>7. ASSUME NEW i \in PacketsTo(list2, e) PROVE \E k \in 1 .. m - 1 : r[k] = i
    <3>1. i \in 1 .. n - 1 /\ IsPacketTo(e, list2[i]) /\ list2[i] = list[i + 1]
      BY <1>1, <1>2 DEF PacketsTo
    <3>2. i + 1 \in P
      BY <1>1, <1>2, <3>1 DEF PacketsTo
    <3>3. PICK k \in 1 .. m : q[k] = i + 1
      BY <2>1, <3>2 DEF Lists
    <3>4. k # 1
      BY <2>3, <3>1, <3>3
    <3>5. k - 1 \in 1 .. m - 1 /\ k - 1 + 1 = k
      BY <2>1, <3>4
    <3>6. r[k - 1] \in Int /\ r[k - 1] + 1 = q[k - 1 + 1]
      BY <2>4, <3>5
    <3>7. r[k - 1] + 1 = i + 1
      BY <3>3, <3>5, <3>6
    <3>8. r[k - 1] = i
      BY <3>1, <3>6, <3>7
    <3>. QED
      BY <3>5, <3>8
  <2>8. UnderWay(list2, e) = [k \in 1 .. m - 1 |-> list2[r[k]].packet]
    <3>1. m - 1 \in Nat
      BY <2>1, <2>3
    <3>2. Lists(r, m - 1, PacketsTo(list2, e))
      BY <2>5, <2>6, <2>7 DEF Lists
    <3>. QED
      BY <1>1, <3>1, <3>2, UnderWayIs
  <2>9. UnderWay(list2, e) = [k \in 1 .. m - 1 |-> list[q[k + 1]].packet]
    BY <2>4, <2>8
  <2>. DEFINE g == [k \in 1 .. m |-> list[q[k]].packet]
  <2>10. /\ g # << >> /\ Head(g) = list[q[1]].packet
         /\ Tail(g) = [k \in 1 .. m - 1 |-> list[q[k + 1]].packet]
    <3>1. g \in Seq(Pkt \cup {Nothing}) /\ Len(g) = m
      <4>1. \A k \in 1 .. m : list[q[k]].packet \in Pkt \cup {Nothing}
        <5>1. \A k \in 1 .. m : list[q[k]] \in Events
          BY <2>1
        <5>. QED
          BY <5>1 DEF Events
      <4>. QED
        BY <2>1, <4>1
    <3>2. g # << >> /\ Head(g) = g[1]
      BY <2>3, <3>1
    <3>3. g[1] = list[q[1]].packet
      <4>1. 1 \in 1 .. m
        BY <2>1, <2>3
      <4>2. \A k \in 1 .. m : g[k] = list[q[k]].packet
        OBVIOUS
      <4>. HIDE DEF g
      <4>. QED
        BY <4>1, <4>2
    <3>4. Tail(g) = [k \in 1 .. m - 1 |-> g[k + 1]]
      <4>. HIDE DEF g
      <4>1. /\ Tail(g) \in Seq(Pkt \cup {Nothing}) /\ Len(Tail(g)) = m - 1
            /\ \A k \in 1 .. m - 1 : Tail(g)[k] = g[k + 1]
        BY <3>1, <3>2, HeadTailProperties
      <4>2. Tail(g) = [k \in 1 .. m - 1 |-> Tail(g)[k]]
        BY <4>1, LenProperties
      <4>. QED
        BY <4>1, <4>2
    <3>5. \A k \in 1 .. m - 1 : g[k + 1] = list[q[k + 1]].packet
      BY <2>1
    <3>. HIDE DEF g
    <3>. QED
      BY <3>2, <3>3, <3>4, <3>5
  <2>. QED
    BY <1>1, <2>1, <2>3, <2>9, <2>10
<1>. QED
  BY <1>3, <1>4 DEF list2

-----------------------------------------------------------------------------
(* The list keeps its shape *)

(* The list is in the order of the times and holds at most one timer.      *)
ListOK(list) ==
  /\ list \in Seq(Events)
  /\ \A i, j \in 1 .. Len(list) : i < j => list[i].evtime <= list[j].evtime
  /\ \A i, j \in TimersIn(list) : i = j

(* Every timer on the list is due at t.                                    *)
TimerAt(list, t) == \A i \in TimersIn(list) : list[i].evtime = t

LEMMA EventTimes ==
  ASSUME NEW list \in Seq(Events)
  PROVE  /\ DOMAIN list = 1 .. Len(list) /\ Len(list) \in Nat
         /\ \A k \in 1 .. Len(list) : list[k] \in Events /\ list[k].evtime \in Nat \ {0}
<1>1. DOMAIN list = 1 .. Len(list) /\ Len(list) \in Nat
  BY LenProperties
<1>2. \A k \in 1 .. Len(list) : list[k] \in Events
  OBVIOUS
<1>. QED
  BY <1>1, <1>2 DEF Events

(* Without its first event.                                                *)
LEMMA TailOK ==
  ASSUME NEW list, ListOK(list), list # << >>
  PROVE  /\ ListOK(Tail(list)) /\ Head(list) \in Events
         /\ \A t : TimerAt(list, t) => TimerAt(Tail(list), t)
         /\ IsTimer(Head(list)) => TimersIn(Tail(list)) = {}
         /\ ~IsTimer(Head(list)) =>
              (TimersIn(Tail(list)) = {} <=> TimersIn(list) = {})
<1>. DEFINE n == Len(list)
            list2 == Tail(list)
<1>1. /\ list \in Seq(Events) /\ n \in Nat /\ n >= 1 /\ Head(list) = list[1]
      /\ list2 \in Seq(Events) /\ Len(list2) = n - 1
      /\ \A k \in 1 .. n - 1 : list2[k] = list[k + 1]
  BY DEF ListOK
<1>2. DOMAIN list = 1 .. n /\ DOMAIN list2 = 1 .. n - 1
  BY <1>1, LenProperties
<1>. HIDE DEF list2
<1>3. \A k \in 1 .. n - 1 : k \in TimersIn(list2) <=> k + 1 \in TimersIn(list)
  BY <1>1, <1>2 DEF TimersIn
<1>4. TimersIn(list2) \subseteq 1 .. n - 1 /\ TimersIn(list) \subseteq 1 .. n
  BY <1>2 DEF TimersIn
<1>5. \A i, j \in 1 .. n - 1 : i < j => list2[i].evtime <= list2[j].evtime
  <2>. TAKE i, j \in 1 .. n - 1
  <2>. HAVE i < j
  <2>1. i + 1 \in 1 .. n /\ j + 1 \in 1 .. n /\ i + 1 < j + 1
    BY <1>1
  <2>2. list[i + 1].evtime <= list[j + 1].evtime
    BY <2>1 DEF ListOK
  <2>. QED
    BY <1>1, <2>2
<1>6. \A i, j \in TimersIn(list2) : i = j
  <2>. TAKE i, j \in TimersIn(list2)
  <2>1. i \in 1 .. n - 1 /\ j \in 1 .. n - 1
    BY <1>4
  <2>2. i + 1 = j + 1
    BY <1>3, <2>1 DEF ListOK
  <2>. QED
    BY <2>1, <2>2
<1>7. ASSUME NEW t, TimerAt(list, t) PROVE TimerAt(list2, t)
  <2>. SUFFICES ASSUME NEW i \in TimersIn(list2) PROVE list2[i].evtime = t
    BY DEF TimerAt
  <2>1. i \in 1 .. n - 1 /\ i + 1 \in TimersIn(list)
    BY <1>3, <1>4
  <2>. QED
    BY <1>1, <1>7, <2>1 DEF TimerAt
<1>8. 1 \in TimersIn(list) <=> IsTimer(Head(list))
  BY <1>1, <1>2 DEF TimersIn
<1>9. ASSUME IsTimer(Head(list)) PROVE TimersIn(list2) = {}
  <2>. SUFFICES ASSUME NEW i \in TimersIn(list2) PROVE FALSE
    OBVIOUS
  <2>1. i \in 1 .. n - 1 /\ i + 1 \in TimersIn(list)
    BY <1>3, <1>4
  <2>2. i + 1 = 1
    BY <1>8, <1>9, <2>1 DEF ListOK
  <2>. QED
    BY <2>1, <2>2
<1>10. ASSUME ~IsTimer(Head(list))
       PROVE  TimersIn(list2) = {} <=> TimersIn(list) = {}
  <2>1. ASSUME NEW i \in TimersIn(list2) PROVE TimersIn(list) # {}
    BY <1>3, <1>4
  <2>2. ASSUME NEW i \in TimersIn(list) PROVE TimersIn(list2) # {}
    <3>1. i \in 1 .. n /\ i # 1
      BY <1>4, <1>8, <1>10
    <3>2. i - 1 \in 1 .. n - 1 /\ i - 1 + 1 = i
      BY <1>1, <3>1
    <3>. QED
      BY <1>3, <3>2
  <2>. QED
    BY <2>1, <2>2
<1>11. ListOK(list2)
  BY <1>1, <1>5, <1>6 DEF ListOK
<1>12. Head(list) \in Events
  BY <1>1
<1>. QED
  BY <1>7, <1>9, <1>10, <1>11, <1>12 DEF list2

(* With one event more.                                                    *)
LEMMA InsertOK ==
  ASSUME NEW list, ListOK(list), NEW p \in Events,
         IsTimer(p) => TimersIn(list) = {}
  PROVE  /\ ListOK(insertevent(list, p))
         /\ IsTimer(p) => /\ TimersIn(insertevent(list, p)) # {}
                          /\ TimerAt(insertevent(list, p), p.evtime)
         /\ ~IsTimer(p) =>
              /\ TimersIn(insertevent(list, p)) = {} <=> TimersIn(list) = {}
              /\ \A t : TimerAt(list, t) => TimerAt(insertevent(list, p), t)
<1>. DEFINE n == Len(list)
            list2 == insertevent(list, p)
<1>0. list \in Seq(Events)
  BY DEF ListOK
<1>1. PICK place \in 1 .. n + 1 :
        /\ list2 \in Seq(Events)
        /\ Len(list2) = n + 1
        /\ \A k \in 1 .. n + 1 : list2[k] =
             IF k < place THEN list[k] ELSE IF k = place THEN p ELSE list[k - 1]
        /\ \A k \in 1 .. n : k < place => list[k].evtime < p.evtime
        /\ place <= n => list[place].evtime >= p.evtime
  BY <1>0, InsertedIs
<1>. HIDE DEF list2
<1>2. /\ n \in Nat /\ place \in Nat /\ 1 <= place /\ place <= n + 1
      /\ DOMAIN list = 1 .. n /\ DOMAIN list2 = 1 .. n + 1
  BY <1>0, <1>1, LenProperties
<1>3. p.evtime \in Nat /\ \A k \in 1 .. n : list[k].evtime \in Nat
  BY <1>0, EventTimes DEF Events
<1>4. \A k \in 1 .. n : ~(k < place) => p.evtime <= list[k].evtime
  <2>. TAKE k \in 1 .. n
  <2>. HAVE ~(k < place)
  <2>1. place \in 1 .. n /\ (place = k \/ place < k)
    BY <1>2
  <2>2. list[place].evtime <= list[k].evtime
    BY <1>3, <2>1 DEF ListOK
  <2>. QED
    BY <1>1, <1>3, <2>1, <2>2
<1>5. ASSUME NEW i \in 1 .. n + 1, NEW j \in 1 .. n + 1, i < j
      PROVE  list2[i].evtime <= list2[j].evtime
  <2>1. CASE j < place
    <3>1. i \in 1 .. n /\ j \in 1 .. n /\ i < place
      BY <1>2, <1>5, <2>1
    <3>2. list2[i] = list[i] /\ list2[j] = list[j]
      BY <1>1, <2>1, <3>1
    <3>. QED
      BY <1>5, <3>1, <3>2 DEF ListOK
  <2>2. CASE j = place
    <3>1. i \in 1 .. n /\ i < place
      BY <1>2, <1>5, <2>2
    <3>2. list2[i] = list[i] /\ list2[j] = p
      BY <1>1, <1>2, <2>2, <3>1
    <3>3. list[i].evtime < p.evtime
      BY <1>1, <3>1
    <3>. QED
      BY <1>3, <3>1, <3>2, <3>3
  <2>3. CASE j > place /\ i > place
    <3>1. i - 1 \in 1 .. n /\ j - 1 \in 1 .. n /\ i - 1 < j - 1
      BY <1>2, <1>5, <2>3
    <3>2. list2[i] = list[i - 1] /\ list2[j] = list[j - 1]
      BY <1>1, <1>2, <2>3
    <3>3. list[i - 1].evtime <= list[j - 1].evtime
      BY <3>1 DEF ListOK
    <3>. QED
      BY <3>2, <3>3
  <2>4. CASE j > place /\ i = place
    <3>1. j - 1 \in 1 .. n /\ ~(j - 1 < place)
      BY <1>2, <2>4
    <3>2. list2[i] = p /\ list2[j] = list[j - 1]
      BY <1>1, <1>2, <2>4
    <3>3. p.evtime <= list[j - 1].evtime
      BY <1>4, <3>1
    <3>. QED
      BY <3>2, <3>3
  <2>5. CASE j > place /\ i < place
    <3>1. j - 1 \in 1 .. n /\ ~(j - 1 < place) /\ i \in 1 .. n
      BY <1>2, <2>5
    <3>2. list2[i] = list[i] /\ list2[j] = list[j - 1]
      BY <1>1, <1>2, <2>5
    <3>3. p.evtime <= list[j - 1].evtime /\ list[i].evtime < p.evtime
      BY <1>1, <1>4, <2>5, <3>1
    <3>. QED
      BY <1>3, <3>1, <3>2, <3>3
  <2>6. j < place \/ j = place \/ (j > place /\ (i > place \/ i = place \/ i < place))
    BY <1>2
  <2>. QED
    BY <2>1, <2>2, <2>3, <2>4, <2>5, <2>6
<1>6. TimersIn(list) \subseteq 1 .. n /\ TimersIn(list2) \subseteq 1 .. n + 1
  BY <1>2 DEF TimersIn
<1>7. place \in TimersIn(list2) <=> IsTimer(p)
  <2>1. list2[place] = p /\ place \in 1 .. n + 1
    BY <1>1, <1>2
  <2>. QED
    BY <1>2, <2>1 DEF TimersIn
<1>8. \A k \in 1 .. n : k < place =>
        list2[k] = list[k] /\ (k \in TimersIn(list2) <=> k \in TimersIn(list))
  <2>. TAKE k \in 1 .. n
  <2>. HAVE k < place
  <2>1. k \in 1 .. n + 1 /\ list2[k] = list[k]
    BY <1>1, <1>2
  <2>. QED
    BY <1>2, <2>1 DEF TimersIn
<1>9. \A k \in 1 .. n : ~(k < place) =>
        list2[k + 1] = list[k] /\ (k + 1 \in TimersIn(list2) <=> k \in TimersIn(list))
  <2>. TAKE k \in 1 .. n
  <2>. HAVE ~(k < place)
  <2>1. k + 1 \in 1 .. n + 1 /\ ~(k + 1 < place) /\ k + 1 # place /\ k + 1 - 1 = k
    BY <1>2
  <2>2. list2[k + 1] = list[k]
    BY <1>1, <2>1
  <2>. QED
    BY <1>2, <2>1, <2>2 DEF TimersIn
<1>10. \A i \in TimersIn(list2) : i # place =>
         \/ i \in 1 .. n /\ i < place /\ i \in TimersIn(list)
         \/ i - 1 \in 1 .. n /\ ~(i - 1 < place) /\ i - 1 \in TimersIn(list)
  <2>. TAKE i \in TimersIn(list2)
  <2>. HAVE i # place
  <2>1. i \in 1 .. n + 1
    BY <1>6
  <2>2. CASE i < place
    <3>1. i \in 1 .. n
      BY <1>2, <2>1, <2>2
    <3>. QED
      BY <1>8, <2>2, <3>1
  <2>3. CASE i > place
    <3>1. i - 1 \in 1 .. n /\ ~(i - 1 < place) /\ i - 1 + 1 = i
      BY <1>2, <2>1, <2>3
    <3>. QED
      BY <1>9, <3>1
  <2>. QED
    BY <1>2, <2>1, <2>2, <2>3
<1>11. CASE IsTimer(p)
  <2>1. TimersIn(list) = {}
    BY <1>11
  <2>2. TimersIn(list2) = {place}
    BY <1>7, <1>10, <1>11, <2>1
  <2>3. list2[place] = p
    BY <1>1, <1>2
  <2>4. TimersIn(list2) # {} /\ TimerAt(list2, p.evtime) /\ \A i, j \in TimersIn(list2) : i = j
    BY <2>2, <2>3 DEF TimerAt
  <2>5. ListOK(list2)
    BY <1>1, <1>5, <2>4 DEF ListOK
  <2>. QED
    BY <1>11, <2>4, <2>5 DEF list2
<1>12. CASE ~IsTimer(p)
  <2>1. TimersIn(list2) = {} <=> TimersIn(list) = {}
    <3>1. ASSUME NEW i \in TimersIn(list2) PROVE TimersIn(list) # {}
      BY <1>7, <1>10, <1>12
    <3>2. ASSUME NEW i \in TimersIn(list) PROVE TimersIn(list2) # {}
      BY <1>6, <1>8, <1>9
    <3>. QED
      BY <3>1, <3>2
  <2>2. \A i, j \in TimersIn(list2) : i = j
    <3>. TAKE i, j \in TimersIn(list2)
    <3>1. i # place /\ j # place /\ i \in 1 .. n + 1 /\ j \in 1 .. n + 1
      BY <1>6, <1>7, <1>12
    <3>2. \A a, b \in TimersIn(list) : a = b
      BY DEF ListOK
    <3>3. CASE i < place /\ i \in TimersIn(list)
      <4>1. CASE j < place /\ j \in TimersIn(list)
        BY <3>2, <3>3, <4>1
      <4>2. CASE ~(j - 1 < place) /\ j - 1 \in TimersIn(list)
        BY <3>2, <3>3, <4>2
      <4>. QED
        BY <1>10, <3>1, <4>1, <4>2
    <3>4. CASE ~(i - 1 < place) /\ i - 1 \in TimersIn(list)
      <4>1. CASE j < place /\ j \in TimersIn(list)
        BY <3>2, <3>4, <4>1
      <4>2. CASE ~(j - 1 < place) /\ j - 1 \in TimersIn(list)
        <5>1. i - 1 = j - 1
          BY <3>2, <3>4, <4>2
        <5>. QED
          BY <3>1, <5>1
      <4>. QED
        BY <1>10, <3>1, <4>1, <4>2
    <3>. QED
      BY <1>10, <3>1, <3>3, <3>4
  <2>3. ASSUME NEW t, TimerAt(list, t) PROVE TimerAt(list2, t)
    <3>. SUFFICES ASSUME NEW i \in TimersIn(list2) PROVE list2[i].evtime = t
      BY DEF TimerAt
    <3>1. i # place /\ i \in 1 .. n + 1
      BY <1>6, <1>7, <1>12
    <3>2. CASE i \in 1 .. n /\ i < place /\ i \in TimersIn(list)
      BY <1>8, <2>3, <3>2 DEF TimerAt
    <3>3. CASE i - 1 \in 1 .. n /\ ~(i - 1 < place) /\ i - 1 \in TimersIn(list)
      <4>1. i - 1 + 1 = i
        BY <3>1
      <4>2. list2[i] = list[i - 1]
        BY <1>9, <3>3, <4>1
      <4>. QED
        BY <2>3, <3>3, <4>2 DEF TimerAt
    <3>. QED
      BY <1>10, <3>1, <3>2, <3>3
  <2>4. ListOK(list2)
    BY <1>1, <1>5, <2>2 DEF ListOK
  <2>. QED
    BY <1>12, <2>1, <2>3, <2>4 DEF list2
<1>. QED
  BY <1>11, <1>12

(* Stopping the timer leaves no timer, and nothing else goes.              *)
LEMMA StopOK ==
  ASSUME NEW list, ListOK(list)
  PROVE  /\ ListOK(stoptimer(list))
         /\ TimersIn(stoptimer(list)) = {}
         /\ \A e : UnderWay(stoptimer(list), e) = UnderWay(list, e)
<1>. DEFINE n == Len(list)
<1>1. list \in Seq(Events) /\ n \in Nat /\ DOMAIN list = 1 .. n
  BY LenProperties DEF ListOK
<1>2. CASE TimersIn(list) = {}
  BY <1>2 DEF stoptimer
<1>3. CASE TimersIn(list) # {}
  <2>. DEFINE place == Min(TimersIn(list))
              list2 == RemoveAt(list, place)
  <2>1. TimersIn(list) \in SUBSET (1 .. n)
    BY <1>1 DEF TimersIn
  <2>2. place \in TimersIn(list)
    BY <1>1, <1>3, <2>1, MinMax
  <2>3. stoptimer(list) = list2
    BY <1>3 DEF stoptimer
  <2>. HIDE DEF place
  <2>4. place \in 1 .. n /\ IsTimer(list[place])
    BY <1>1, <2>2 DEF TimersIn
  <2>5. /\ list2 \in Seq(Events) /\ Len(list2) = n - 1
        /\ \A k \in 1 .. n - 1 : list2[k] = IF k < place THEN list[k] ELSE list[k + 1]
    BY <1>1, <2>4, RemoveAtIs
  <2>. HIDE DEF list2
  <2>6. DOMAIN list2 = 1 .. n - 1 /\ place \in Nat
    BY <2>4, <2>5, LenProperties
  <2>7. ASSUME NEW i \in TimersIn(list2) PROVE FALSE
    <3>1. i \in 1 .. n - 1 /\ IsTimer(list2[i])
      BY <2>6 DEF TimersIn
    <3>2. CASE i < place
      <4>1. i \in 1 .. n /\ list2[i] = list[i]
        BY <1>1, <2>5, <3>1, <3>2
      <4>2. i \in TimersIn(list)
        BY <1>1, <3>1, <4>1 DEF TimersIn
      <4>. QED
        BY <2>2, <2>6, <3>2, <4>2 DEF ListOK
    <3>3. CASE ~(i < place)
      <4>1. i + 1 \in 1 .. n /\ list2[i] = list[i + 1]
        BY <1>1, <2>5, <3>1, <3>3
      <4>2. i + 1 \in TimersIn(list)
        BY <1>1, <3>1, <4>1 DEF TimersIn
      <4>3. i + 1 = place
        BY <2>2, <4>2 DEF ListOK
      <4>. QED
        BY <2>6, <3>1, <3>3, <4>3
    <3>. QED
      BY <3>2, <3>3
  <2>8. ASSUME NEW i \in 1 .. n - 1, NEW j \in 1 .. n - 1, i < j
        PROVE  list2[i].evtime <= list2[j].evtime
    <3>. DEFINE a == IF i < place THEN i ELSE i + 1
                b == IF j < place THEN j ELSE j + 1
    <3>1. list2[i] = list[a] /\ list2[j] = list[b]
      BY <2>5
    <3>2. a \in 1 .. n /\ b \in 1 .. n /\ a < b
      BY <1>1, <2>6, <2>8
    <3>. HIDE DEF a, b
    <3>3. list[a].evtime <= list[b].evtime
      BY <3>2 DEF ListOK
    <3>. QED
      BY <3>1, <3>3
  <2>9. ListOK(list2)
    BY <2>5, <2>7, <2>8 DEF ListOK
  <2>10. ASSUME NEW e PROVE UnderWay(list2, e) = UnderWay(list, e)
    <3>1. ~IsPacketTo(e, list[place])
      BY <2>4 DEF IsTimer, IsPacketTo
    <3>. QED
      BY <1>1, <2>4, <2>5, <3>1, RemoveKeeps
  <2>. QED
    BY <2>3, <2>7, <2>9, <2>10
<1>. QED
  BY <1>2, <1>3

(* Starting the timer puts one on the list if there is none.               *)
LEMMA StartOK ==
  ASSUME NEW list, ListOK(list), NEW left, time_local' + left \in Nat \ {0}
  PROVE  /\ ListOK(starttimer(list, left))
         /\ TimersIn(starttimer(list, left)) # {}
         /\ \A t : TimerAt(list, t) /\ (TimersIn(list) = {} => t = time_local' + left)
                     => TimerAt(starttimer(list, left), t)
         /\ \A e : UnderWay(starttimer(list, left), e) = UnderWay(list, e)
<1>1. CASE TimersIn(list) # {}
  BY <1>1 DEF starttimer
<1>2. CASE TimersIn(list) = {}
  <2>. DEFINE p == Event(time_local' + left, "TIMER_INTERRUPT", "A", Nothing)
  <2>1. p \in Events
    BY DEF Event, Events
  <2>2. IsTimer(p) /\ p.evtime = time_local' + left /\ \A e : ~IsPacketTo(e, p)
    BY DEF Event, IsTimer, IsPacketTo
  <2>3. starttimer(list, left) = insertevent(list, p)
    BY <1>2 DEF starttimer
  <2>. HIDE DEF p
  <2>4. /\ ListOK(insertevent(list, p)) /\ TimersIn(insertevent(list, p)) # {}
        /\ TimerAt(insertevent(list, p), p.evtime)
    BY <1>2, <2>1, <2>2, InsertOK
  <2>5. list \in Seq(Events)
    BY DEF ListOK
  <2>6. \A e : UnderWay(insertevent(list, p), e) = UnderWay(list, e)
    BY <2>1, <2>2, <2>5, InsertKeeps
  <2>. QED
    BY <1>2, <2>2, <2>3, <2>4, <2>6
<1>. QED
  BY <1>1, <1>2

(* The next message of layer 5.                                            *)
LEMMA ArrivalOK ==
  ASSUME NEW list, ListOK(list), time_local' \in Nat \ {0},
         NEW list2 \in generate_next_arrival(list)
  PROVE  /\ ListOK(list2)
         /\ TimersIn(list2) = {} <=> TimersIn(list) = {}
         /\ \A t : TimerAt(list, t) => TimerAt(list2, t)
         /\ \A e : UnderWay(list2, e) = UnderWay(list, e)
<1>1. PICK gap \in Gaps :
        list2 = insertevent(list, Event(time_local' + gap, "FROM_LAYER5", "A", Nothing))
  BY DEF generate_next_arrival
<1>. DEFINE p == Event(time_local' + gap, "FROM_LAYER5", "A", Nothing)
<1>2. time_local' + gap \in Nat \ {0}
  <2>. HIDE DEF p
  <2>1. \A t \in Nat \ {0}, g \in Gaps : t + g \in Nat \ {0}
    <3>1. \A g \in Gaps : g \in Nat
      BY TimesAssumption
    <3>. QED
      BY <3>1
  <2>. QED
    BY <2>1
<1>3. p \in Events
  BY <1>2 DEF Event, Events
<1>4. ~IsTimer(p) /\ \A e : ~IsPacketTo(e, p)
  BY DEF Event, IsTimer, IsPacketTo
<1>. HIDE DEF p
<1>5. list2 = insertevent(list, p) /\ list \in Seq(Events)
  BY <1>1 DEF p, ListOK
<1>. QED
  BY <1>3, <1>4, <1>5, InsertOK, InsertKeeps

LEMMA UnderWayTyped ==
  ASSUME NEW list \in Seq(Events), NEW e
  PROVE  UnderWay(list, e) \in Seq(Pkt \cup {Nothing})
<1>. DEFINE m == Cardinality(PacketsTo(list, e))
            q == InOrder(PacketsTo(list, e))
<1>1. /\ m \in Nat /\ \A k \in 1 .. m : q[k] \in 1 .. Len(list)
      /\ UnderWay(list, e) = [k \in 1 .. m |-> list[q[k]].packet]
  BY UnderWayHas
<1>. HIDE DEF m, q
<1>2. \A k \in 1 .. m : list[q[k]].packet \in Pkt \cup {Nothing}
  <2>1. \A k \in 1 .. m : list[q[k]] \in Events
    BY <1>1
  <2>. QED
    BY <2>1 DEF Events
<1>. QED
  BY <1>1, <1>2

(* What comes out of the medium when the packets s go in: any of them, in  *)
(* their order, each with any damage.                                      *)
LEMMA CarriedSome ==
  ASSUME NEW s, NEW m \in 0 .. Len(s), NEW g \in Survivors(Len(s), m),
         NEW c \in [1 .. m -> Fates]
  PROVE  [i \in 1 .. m |-> Damage(s[g[i]], c[i])] \in Carried(s)
<1>. DEFINE Outcomes(k) == { [i \in 1 .. k |-> Damage(s[f[i]], d[i])] :
                  f \in Survivors(Len(s), k), d \in [1 .. k -> Fates] }
<1>1. [i \in 1 .. m |-> Damage(s[g[i]], c[i])] \in Outcomes(m)
  OBVIOUS
<1>2. Carried(s) = UNION {Outcomes(k) : k \in 0 .. Len(s)}
  BY DEF Carried
<1>. HIDE DEF Outcomes
<1>. QED
  BY <1>1, <1>2

(* A single packet may be lost, or delivered whole or damaged.             *)
LEMMA CarriedNone ==
  ASSUME NEW p PROVE << >> \in Carried(<<p>>)
<1>. DEFINE s == <<p>>
            f == [i \in 1 .. 0 |-> 1]
            d == [i \in 1 .. 0 |-> "intact"]
<1>1. 0 \in 0 .. Len(s) /\ d \in [1 .. 0 -> Fates]
  OBVIOUS
<1>2. f \in Survivors(Len(s), 0)
  <2>1. f \in [1 .. 0 -> 1 .. Len(s)]
    OBVIOUS
  <2>. QED
    BY <2>1 DEF Survivors
<1>3. [i \in 1 .. 0 |-> Damage(s[f[i]], d[i])] = << >>
  OBVIOUS
<1>. HIDE DEF s, f, d
<1>4. << >> \in Carried(s)
  BY <1>1, <1>2, <1>3, CarriedSome
<1>. QED
  BY <1>4 DEF s

LEMMA CarriedWhole ==
  ASSUME NEW p, NEW how \in Fates PROVE <<Damage(p, how)>> \in Carried(<<p>>)
<1>. DEFINE s == <<p>>
            f == [i \in 1 .. 1 |-> 1]
            d == [i \in 1 .. 1 |-> how]
<1>1. Len(s) = 1 /\ s[1] = p /\ 1 \in 0 .. Len(s) /\ d \in [1 .. 1 -> Fates]
  OBVIOUS
<1>2. f \in Survivors(Len(s), 1)
  <2>1. f \in [1 .. 1 -> 1 .. Len(s)]
    BY <1>1
  <2>2. \A i, j \in 1 .. 1 : i < j => f[i] < f[j]
    OBVIOUS
  <2>. QED
    BY <2>1, <2>2 DEF Survivors
<1>3. [i \in 1 .. 1 |-> Damage(s[f[i]], d[i])] = <<Damage(p, how)>>
  <2>1. \A i \in 1 .. 1 : s[f[i]] = p /\ d[i] = how
    BY <1>1
  <2>. HIDE DEF s, f, d
  <2>2. [i \in 1 .. 1 |-> Damage(s[f[i]], d[i])] = [i \in 1 .. 1 |-> Damage(p, how)]
    BY <2>1
  <2>. QED
    BY <2>2
<1>. HIDE DEF s, f, d
<1>4. <<Damage(p, how)>> \in Carried(s)
  <2>1. [i \in 1 .. 1 |-> Damage(s[f[i]], d[i])] \in Carried(s)
    BY <1>1, <1>2, CarriedSome
  <2>. QED
    BY <1>3, <2>1
<1>. QED
  BY <1>4 DEF s

(* What tolayer3 does to the list: nothing, or one packet more, behind     *)
(* those on their way to the same entity.                                  *)
LEMMA SentOK ==
  ASSUME NEW list, ListOK(list), time_local' \in Nat \ {0}, NEW e \in {"A", "B"},
         NEW p \in Pkt, NEW list2 \in Timed_tolayer3(list, e, p)
  PROVE  /\ ListOK(list2)
         /\ TimersIn(list2) = {} <=> TimersIn(list) = {}
         /\ \A t : TimerAt(list, t) => TimerAt(list2, t)
         /\ \A e2 \in {"A", "B"} : e2 # e => UnderWay(list2, e2) = UnderWay(list, e2)
         /\ UnderWay(list2, e) \in tolayer3(UnderWay(list, e), <<p>>)
<1>0. list \in Seq(Events) /\ DOMAIN list = 1 .. Len(list) /\ Len(list) \in Nat
  BY LenProperties DEF ListOK
<1>1. CASE list2 = list
  <2>1. UnderWay(list, e) \in tolayer3(UnderWay(list, e), <<p>>)
    <3>1. UnderWay(list, e) \in Seq(Pkt \cup {Nothing})
      BY <1>0, UnderWayTyped
    <3>2. << >> \in Carried(<<p>>)
      BY CarriedNone
    <3>3. UnderWay(list, e) \o << >> = UnderWay(list, e)
      BY <3>1, ConcatEmptySeq
    <3>. QED
      BY <3>2, <3>3 DEF tolayer3
  <2>. QED
    BY <1>1, <2>1
<1>2. CASE list2 # list
  <2>1. PICK delay \in Delays, how \in Fates :
          list2 = insertevent(list, Event(lastime(list, e) + delay, "FROM_LAYER3",
                                          e, Damage(p, how)))
    BY <1>2 DEF Timed_tolayer3
  <2>. DEFINE t == lastime(list, e)
              ev == Event(t + delay, "FROM_LAYER3", e, Damage(p, how))
  <2>2. t \in Nat \ {0} /\ \A i \in PacketsTo(list, e) : list[i].evtime <= t
    <3>1. \A i \in 1 .. Len(list) : list[i].evtime \in Nat \ {0}
      BY <1>0, EventTimes
    <3>2. PacketsTo(list, e) \in SUBSET (1 .. Len(list))
      BY <1>0 DEF PacketsTo
    <3>3. CASE PacketsTo(list, e) = {}
      BY <3>3 DEF lastime
    <3>4. CASE PacketsTo(list, e) # {}
      <4>. DEFINE P == PacketsTo(list, e)
                  last == Max(P)
      <4>1. last \in P /\ \A j \in P : j <= last
        BY <1>0, <3>2, <3>4, MinMax
      <4>2. t = list[last].evtime
        BY <3>4 DEF lastime
      <4>. HIDE DEF last, P
      <4>3. last \in 1 .. Len(list)
        BY <3>2, <4>1 DEF P
      <4>4. ASSUME NEW i \in P PROVE list[i].evtime <= list[last].evtime
        <5>1. i \in 1 .. Len(list) /\ (i = last \/ i < last)
          BY <3>2, <4>1, <4>3 DEF P
        <5>2. CASE i = last
          BY <3>1, <4>3, <5>2
        <5>3. CASE i < last
          BY <4>3, <5>1, <5>3 DEF ListOK
        <5>. QED
          BY <5>1, <5>2, <5>3
      <4>. QED
        BY <3>1, <4>2, <4>3, <4>4 DEF P
    <3>. QED
      BY <3>3, <3>4
  <2>3. delay \in Nat /\ delay >= 1
    BY TimesAssumption
  <2>4. Damage(p, how) \in Pkt
    BY DamageType
  <2>. HIDE DEF t
  <2>5. ev \in Events
    <3>1. t + delay \in Nat \ {0}
      BY <2>2, <2>3
    <3>. QED
      BY <2>4, <3>1 DEF Event, Events
  <2>6. /\ IsPacketTo(e, ev) /\ ~IsTimer(ev) /\ ev.packet = Damage(p, how)
        /\ ev.evtime = t + delay /\ \A e2 : e2 # e => ~IsPacketTo(e2, ev)
    BY DEF Event, IsTimer, IsPacketTo
  <2>7. \A i \in PacketsTo(list, e) : list[i].evtime < ev.evtime
    <3>. TAKE i \in PacketsTo(list, e)
    <3>1. list[i].evtime \in Nat
      BY <1>0, EventTimes DEF PacketsTo
    <3>. QED
      BY <2>2, <2>3, <2>6, <3>1
  <2>8. list2 = insertevent(list, ev)
    BY <2>1 DEF t
  <2>. HIDE DEF ev
  <2>9. UnderWay(list2, e) = Append(UnderWay(list, e), ev.packet)
    <3>1. \A i, j \in 1 .. Len(list) : i < j => list[i].evtime <= list[j].evtime
      BY DEF ListOK
    <3>. QED
      BY <1>0, <2>5, <2>6, <2>7, <2>8, <3>1, InsertAppends
  <2>10. UnderWay(list2, e) \in tolayer3(UnderWay(list, e), <<p>>)
    <3>1. UnderWay(list, e) \in Seq(Pkt \cup {Nothing})
      BY <1>0, UnderWayTyped
    <3>2. <<Damage(p, how)>> \in Carried(<<p>>)
      BY CarriedWhole
    <3>3. Append(UnderWay(list, e), Damage(p, how)) = UnderWay(list, e) \o <<Damage(p, how)>>
      BY <2>4, <3>1
    <3>. QED
      BY <2>6, <2>9, <3>2, <3>3 DEF tolayer3
  <2>11. \A e2 \in {"A", "B"} : e2 # e => UnderWay(list2, e2) = UnderWay(list, e2)
    BY <1>0, <2>5, <2>6, <2>8, InsertKeeps
  <2>12. /\ ListOK(list2)
         /\ TimersIn(list2) = {} <=> TimersIn(list) = {}
         /\ \A u : TimerAt(list, u) => TimerAt(list2, u)
    BY <2>5, <2>6, <2>8, InsertOK
  <2>. QED
    BY <2>10, <2>11, <2>12
<1>. QED
  BY <1>1, <1>2

-----------------------------------------------------------------------------
(* The invariant of the timed protocol *)

(* SR's variables are what they stand for; the list keeps its shape.       *)
TInv ==
  /\ ListOK(evlist)
  /\ time_local \in Nat
  /\ sent_at \in [0 .. nsimmax - 1 -> Nat]
  /\ toA = UnderWay(evlist, "A")
  /\ toB = UnderWay(evlist, "B")
  /\ timer <=> TimersIn(evlist) # {}
  /\ timers = HaveTime(sent_at)

TimedIInv == IInv /\ TInv /\ TimerAt(evlist, sent_at[winbase] + increment)

(* No packet is under way on a list of one message of layer 5.             *)
LEMMA OneArrival ==
  ASSUME NEW gap \in Gaps \ {0}, NEW list,
         list = <<Event(gap, "FROM_LAYER5", "A", Nothing)>>
  PROVE  /\ ListOK(list) /\ TimersIn(list) = {}
         /\ \A e : UnderWay(list, e) = << >>
<1>. DEFINE p == Event(gap, "FROM_LAYER5", "A", Nothing)
<1>1. gap \in Nat \ {0}
  BY TimesAssumption
<1>2. p \in Events
  BY <1>1 DEF Event, Events
<1>3. ~IsTimer(p) /\ \A e : ~IsPacketTo(e, p)
  BY DEF Event, IsTimer, IsPacketTo
<1>. HIDE DEF p
<1>4. list \in Seq(Events) /\ Len(list) = 1 /\ DOMAIN list = 1 .. 1 /\ list[1] = p
  BY <1>2 DEF p
<1>5. TimersIn(list) = {} /\ \A e : PacketsTo(list, e) = {}
  BY <1>3, <1>4 DEF TimersIn, PacketsTo
<1>6. ASSUME NEW e PROVE UnderWay(list, e) = << >>
  <2>1. Cardinality(PacketsTo(list, e)) = 0
    BY <1>5, FS_EmptySet
  <2>. QED
    BY <2>1 DEF UnderWay
<1>7. ListOK(list)
  <2>1. \A i, j \in 1 .. Len(list) : i < j => list[i].evtime <= list[j].evtime
    BY <1>4
  <2>. QED
    BY <1>4, <1>5, <2>1 DEF ListOK
<1>. QED
  BY <1>5, <1>6, <1>7

LEMMA TimedInitInvariant == TimedInit => TimedIInv
<1>. SUFFICES ASSUME TimedInit PROVE TimedIInv
  OBVIOUS
<1>1. Init /\ time_local = 0 /\ sent_at = [k \in 0 .. nsimmax - 1 |-> 0]
  BY DEF TimedInit
<1>2. toA = << >> /\ toB = << >> /\ timer = FALSE /\ timers = {}
  BY <1>1 DEF Init, SimInit
<1>3. ListOK(evlist) /\ TimersIn(evlist) = {} /\ \A e : UnderWay(evlist, e) = << >>
  BY OneArrival DEF TimedInit
<1>4. HaveTime(sent_at) = {}
  BY <1>1 DEF HaveTime
<1>5. TInv
  BY <1>1, <1>2, <1>3, <1>4 DEF TInv
<1>6. TimerAt(evlist, sent_at[winbase] + increment)
  BY <1>3 DEF TimerAt
<1>. QED
  BY <1>1, <1>5, <1>6, InitInvariant DEF TimedIInv

-----------------------------------------------------------------------------
(* Facts the handlers share *)

(* The event taken off the list.                                           *)
LEMMA Taken ==
  ASSUME TInv, NEW type, NEW entity, TakeEvent(type, entity)
  PROVE  /\ evlist # << >> /\ ListOK(evlist) /\ Head(evlist) \in Events
         /\ Head(evlist).evtype = type /\ Head(evlist).eventity = entity
         /\ ListOK(Tail(evlist)) /\ time_local' \in Nat \ {0}
<1>1. ListOK(evlist) /\ evlist # << >>
  BY DEF TInv, TakeEvent
<1>2. ListOK(Tail(evlist)) /\ Head(evlist) \in Events
  BY <1>1, TailOK
<1>. QED
  BY <1>1, <1>2 DEF TakeEvent, Events

(* The timer runs after a handler that leaves as many timers on the list.  *)
LEMMA TimerUnchanged ==
  ASSUME IInv, TInv, Derived, TimersIn(evlist') = {} <=> TimersIn(evlist) = {}
  PROVE  timer' = timer
<1>1. timer = TRUE \/ timer = FALSE
  BY DEF IInv, TypeOK, SimTypeOK
<1>2. CASE timer = TRUE
  <2>1. TimersIn(evlist') # {}
    BY <1>2 DEF TInv
  <2>2. timer' = TRUE
    BY <2>1 DEF Derived
  <2>. QED
    BY <1>2, <2>2
<1>3. CASE timer = FALSE
  <2>1. TimersIn(evlist') = {}
    BY <1>3 DEF TInv
  <2>2. timer' = FALSE
    BY <2>1 DEF Derived
  <2>. QED
    BY <1>3, <2>2
<1>. QED
  BY <1>1, <1>2, <1>3

(* What a handler has to show of the list for TInv.                        *)
LEMMA DerivedKeeps ==
  ASSUME Derived, ListOK(evlist'), time_local' \in Nat,
         sent_at' \in [0 .. nsimmax - 1 -> Nat]
  PROVE  TInv'
<1>1. timer' <=> TimersIn(evlist') # {}
  <2>1. CASE TimersIn(evlist') = {}
    BY <2>1 DEF Derived
  <2>2. CASE TimersIn(evlist') # {}
    BY <2>2 DEF Derived
  <2>. QED
    BY <2>1, <2>2
<1>2. /\ toA' = UnderWay(evlist', "A") /\ toB' = UnderWay(evlist', "B")
      /\ timers' = HaveTime(sent_at')
  BY DEF Derived
<1>. QED
  BY <1>1, <1>2 DEF TInv

(* A send time is noted.                                                   *)
LEMMA NotedTime ==
  ASSUME NEW at \in [0 .. nsimmax - 1 -> Nat], NEW k \in 0 .. nsimmax - 1,
         NEW t \in Nat \ {0}
  PROVE  /\ [at EXCEPT ![k] = t] \in [0 .. nsimmax - 1 -> Nat]
         /\ HaveTime([at EXCEPT ![k] = t]) = HaveTime(at) \cup {k}
  BY DEF HaveTime

-----------------------------------------------------------------------------
(* Every timed handler is one of SR's and keeps the invariant *)

(* A message of layer 5.                                                   *)
LEMMA TimedA_outputStep ==
  ASSUME TimedIInv, TimedA_output
  PROVE  A_output /\ TInv' /\ TimerAt(evlist', sent_at'[winbase'] + increment)
<1>. DEFINE tail == Tail(evlist)
<1>1. /\ IInv /\ TInv /\ TimerAt(evlist, sent_at[winbase] + increment)
      /\ TakeEvent("FROM_LAYER5", "A") /\ Running
  BY DEF TimedIInv, TimedA_output, TakeEvent
<1>2. /\ nsimmax \in Nat /\ nsimmax <= 1000 /\ winsize \in Nat
      /\ nsim \in Nat /\ nsim < nsimmax
      /\ winbase \in Nat /\ nextseq \in Nat /\ winbase <= nextseq
      /\ nextseq <= nsim /\ Len(send_packets) = nsim
      /\ (timer <=> winbase < nextseq)
  BY <1>1, Numbers DEF Running
<1>3. /\ evlist # << >> /\ ListOK(evlist) /\ Head(evlist) \in Events
      /\ Head(evlist).evtype = "FROM_LAYER5" /\ ListOK(tail)
      /\ time_local' \in Nat \ {0}
  BY <1>1, Taken
<1>4. ~IsTimer(Head(evlist)) /\ \A e : ~IsPacketTo(e, Head(evlist))
  BY <1>3 DEF IsTimer, IsPacketTo
<1>5. /\ TimersIn(tail) = {} <=> TimersIn(evlist) = {}
      /\ TimerAt(tail, sent_at[winbase] + increment)
  BY <1>1, <1>3, <1>4, TailOK
<1>6. \A e : UnderWay(tail, e) = UnderWay(evlist, e)
  BY <1>3, <1>4, TailTakes DEF ListOK
<1>7. /\ toA = UnderWay(evlist, "A") /\ toB = UnderWay(evlist, "B")
      /\ sent_at \in [0 .. nsimmax - 1 -> Nat] /\ timers = HaveTime(sent_at)
      /\ (timer <=> TimersIn(evlist) # {})
  BY <1>1 DEF TInv
<1>8. /\ nsim' = nsim + 1 /\ send_packets' = Append(send_packets, Text(Letter(nsim)))
      /\ UNCHANGED <<cur_msg_recv, exitcode, winbase, acked, bvars>> /\ Derived
  BY DEF TimedA_output
<1>9. PICK list \in generate_next_arrival(tail) :
        IF nextseq < winbase + winsize
        THEN /\ RoomFor(toB, 1)
             /\ \E sent \in Timed_tolayer3(list, "B", SealedPkt(send_packets', nextseq)) :
                  evlist' = IF winbase = nextseq THEN starttimer(sent, increment) ELSE sent
             /\ sent_at' = [sent_at EXCEPT ![nextseq] = time_local']
             /\ unackedPkt' = IF winbase = nextseq THEN winbase ELSE unackedPkt
             /\ nextseq' = nextseq + 1
        ELSE /\ evlist' = list
             /\ UNCHANGED <<sent_at, unackedPkt, nextseq>>
  BY DEF TimedA_output
<1>. HIDE DEF tail
<1>10. /\ ListOK(list) /\ (TimersIn(list) = {} <=> TimersIn(evlist) = {})
       /\ TimerAt(list, sent_at[winbase] + increment)
       /\ \A e : UnderWay(list, e) = UnderWay(evlist, e)
  <2>1. /\ ListOK(list)
        /\ TimersIn(list) = {} <=> TimersIn(tail) = {}
        /\ \A t : TimerAt(tail, t) => TimerAt(list, t)
        /\ \A e : UnderWay(list, e) = UnderWay(tail, e)
    BY <1>3, ArrivalOK
  <2>. QED
    BY <1>5, <1>6, <2>1
<1>11. FromLayer5
  BY <1>1, <1>8 DEF FromLayer5
<1>12. CASE nextseq < winbase + winsize
  <2>. DEFINE p == SealedPkt(send_packets', nextseq)
  <2>1. p \in Pkt
    <3>1. /\ send_packets \in Seq(Payload)
          /\ \A k \in 0 .. Len(send_packets) - 1 : send_packets[k + 1] = Text(Letter(k))
      BY <1>1 DEF IInv, TypeOK, Stored
    <3>2. Text(Letter(nsim)) \in Payload
      BY <1>2, LetterRange
    <3>3. /\ send_packets' \in Seq(Payload) /\ Len(send_packets') = nsim + 1
          /\ send_packets'[nsim + 1] = Text(Letter(nsim))
          /\ \A k \in 1 .. nsim : send_packets'[k] = send_packets[k]
      BY <1>2, <1>8, <3>1, <3>2
    <3>4. send_packets'[nextseq + 1] = Text(Letter(nextseq))
      BY <1>2, <3>1, <3>3
    <3>5. nextseq \in 0 .. Len(send_packets') - 1 /\ nextseq < 1000
      BY <1>2, <3>3
    <3>. HIDE DEF p
    <3>6. Sealed(p)
      BY <3>3, <3>4, <3>5, SealedPktSealed DEF p
    <3>. QED
      BY <3>6 DEF Sealed
  <2>2. PICK sent \in Timed_tolayer3(list, "B", p) :
          evlist' = IF winbase = nextseq THEN starttimer(sent, increment) ELSE sent
    BY <1>9, <1>12
  <2>3. /\ RoomFor(toB, 1)
        /\ sent_at' = [sent_at EXCEPT ![nextseq] = time_local']
        /\ unackedPkt' = IF winbase = nextseq THEN winbase ELSE unackedPkt
        /\ nextseq' = nextseq + 1
    BY <1>9, <1>12
  <2>. HIDE DEF p
  <2>4. /\ ListOK(sent) /\ (TimersIn(sent) = {} <=> TimersIn(list) = {})
        /\ \A t : TimerAt(list, t) => TimerAt(sent, t)
        /\ UnderWay(sent, "A") = UnderWay(list, "A")
        /\ UnderWay(sent, "B") \in tolayer3(UnderWay(list, "B"), <<p>>)
    <3>1. /\ ListOK(sent)
          /\ TimersIn(sent) = {} <=> TimersIn(list) = {}
          /\ \A t : TimerAt(list, t) => TimerAt(sent, t)
          /\ \A e2 \in {"A", "B"} : e2 # "B" => UnderWay(sent, e2) = UnderWay(list, e2)
          /\ UnderWay(sent, "B") \in tolayer3(UnderWay(list, "B"), <<p>>)
      BY <1>3, <1>10, <2>1, SentOK
    <3>. QED
      BY <3>1
  <2>5. /\ sent_at' \in [0 .. nsimmax - 1 -> Nat]
        /\ HaveTime(sent_at') = timers \cup {nextseq}
    <3>1. nextseq \in 0 .. nsimmax - 1
      BY <1>2
    <3>. QED
      BY <1>3, <1>7, <2>3, <3>1, NotedTime
  <2>6. CASE winbase = nextseq
    <3>1. evlist' = starttimer(sent, increment)
      BY <2>2, <2>6
    <3>2. TimersIn(sent) = {}
      BY <1>2, <1>7, <1>10, <2>4, <2>6
    <3>3. time_local' + increment \in Nat \ {0}
      <4>1. \A t \in Nat \ {0} : t + increment \in Nat \ {0}
        BY TimesAssumption
      <4>. QED
        BY <1>3, <4>1
    <3>4. /\ ListOK(evlist') /\ TimersIn(evlist') # {}
          /\ TimerAt(evlist', time_local' + increment)
          /\ \A e : UnderWay(evlist', e) = UnderWay(sent, e)
      <4>1. TimerAt(sent, time_local' + increment)
        BY <3>2 DEF TimerAt
      <4>2. /\ ListOK(starttimer(sent, increment))
            /\ TimersIn(starttimer(sent, increment)) # {}
            /\ \A t : TimerAt(sent, t) /\ (TimersIn(sent) = {} => t = time_local' + increment)
                        => TimerAt(starttimer(sent, increment), t)
            /\ \A e : UnderWay(starttimer(sent, increment), e) = UnderWay(sent, e)
        BY <2>4, <3>3, StartOK
      <4>. QED
        BY <3>1, <4>1, <4>2
    <3>5. sent_at'[winbase'] = time_local'
      BY <1>2, <1>7, <1>8, <2>3, <2>6
    <3>6. timer' = TRUE
      BY <1>8, <3>4 DEF Derived
    <3>7. toB' \in tolayer3(toB, <<p>>) /\ toA' = toA
      BY <1>7, <1>8, <1>10, <2>4, <3>4 DEF Derived
    <3>8. A_output
      BY <1>8, <1>11, <1>12, <2>3, <2>5, <2>6, <3>6, <3>7 DEF A_output, Derived, p
    <3>. QED
      BY <1>3, <1>8, <2>5, <3>4, <3>5, <3>8, DerivedKeeps
  <2>7. CASE winbase # nextseq
    <3>1. evlist' = sent
      BY <2>2, <2>7
    <3>2. timer' = timer
      BY <1>1, <1>8, <1>10, <2>4, <3>1, TimerUnchanged
    <3>3. toB' \in tolayer3(toB, <<p>>) /\ toA' = toA
      BY <1>7, <1>8, <1>10, <2>4, <3>1 DEF Derived
    <3>4. A_output
      BY <1>8, <1>11, <1>12, <2>3, <2>5, <2>7, <3>2, <3>3 DEF A_output, Derived, p
    <3>5. sent_at'[winbase'] = sent_at[winbase]
      BY <1>2, <1>7, <1>8, <2>3, <2>7
    <3>. QED
      BY <1>3, <1>8, <1>10, <2>4, <2>5, <3>1, <3>4, <3>5, DerivedKeeps
  <2>. QED
    BY <2>6, <2>7
<1>13. CASE ~(nextseq < winbase + winsize)
  <2>1. evlist' = list /\ UNCHANGED <<sent_at, unackedPkt, nextseq>>
    BY <1>9, <1>13
  <2>2. timer' = timer
    BY <1>1, <1>8, <1>10, <2>1, TimerUnchanged
  <2>3. toB' = toB /\ toA' = toA /\ timers' = timers
    BY <1>7, <1>8, <1>10, <2>1 DEF Derived
  <2>4. nextseq >= winbase + winsize
    BY <1>2, <1>13
  <2>5. A_output
    BY <1>8, <1>11, <2>1, <2>2, <2>3, <2>4 DEF A_output
  <2>. QED
    BY <1>3, <1>7, <1>8, <1>10, <2>1, <2>5, DerivedKeeps
<1>. QED
  BY <1>12, <1>13

(* A packet that reaches B.                                                *)
LEMMA TimedB_inputStep ==
  ASSUME TimedIInv, TimedB_input
  PROVE  B_input /\ TInv' /\ TimerAt(evlist', sent_at'[winbase'] + increment)
<1>. DEFINE tail == Tail(evlist)
            p == Head(evlist).packet
<1>1. /\ IInv /\ TInv /\ TimerAt(evlist, sent_at[winbase] + increment)
      /\ TakeEvent("FROM_LAYER3", "B") /\ Running
  BY DEF TimedIInv, TimedB_input, TakeEvent
<1>2. /\ evlist # << >> /\ ListOK(evlist) /\ Head(evlist) \in Events
      /\ Head(evlist).evtype = "FROM_LAYER3" /\ Head(evlist).eventity = "B"
      /\ ListOK(tail) /\ time_local' \in Nat \ {0}
  BY <1>1, Taken
<1>3. /\ ~IsTimer(Head(evlist)) /\ IsPacketTo("B", Head(evlist))
      /\ ~IsPacketTo("A", Head(evlist))
  BY <1>2 DEF IsTimer, IsPacketTo
<1>4. /\ TimersIn(tail) = {} <=> TimersIn(evlist) = {}
      /\ TimerAt(tail, sent_at[winbase] + increment)
  BY <1>1, <1>2, <1>3, TailOK
<1>5. /\ toA = UnderWay(evlist, "A") /\ toB = UnderWay(evlist, "B")
      /\ sent_at \in [0 .. nsimmax - 1 -> Nat] /\ timers = HaveTime(sent_at)
  BY <1>1 DEF TInv
<1>6. toB # << >> /\ Head(toB) = p /\ UnderWay(tail, "B") = Tail(toB)
  BY <1>2, <1>3, <1>5, TailTakes DEF ListOK
<1>7. UnderWay(tail, "A") = toA
  BY <1>2, <1>3, <1>5, TailTakes DEF ListOK
<1>8. /\ UNCHANGED <<nsim, winbase, nextseq, send_packets, acked, unackedPkt, sent_at>>
      /\ Derived
  BY DEF TimedB_input
<1>9. IF isValidChecksum(p)
      THEN /\ RoomFor(toA, 1)
           /\ evlist' \in Timed_tolayer3(tail, "A", AckPkt(p.seqnum))
           /\ Received(p.seqnum, p.payload)
      ELSE evlist' = tail /\ UNCHANGED <<cur_msg_recv, exitcode, bvars>>
  BY DEF TimedB_input
<1>10. p.seqnum \in Int
  <2>1. toB \in Seq(Pkt)
    BY <1>1 DEF IInv, TypeOK, SimTypeOK
  <2>2. Head(toB) \in Pkt
    BY <1>6, <2>1
  <2>. QED
    BY <1>6, <2>2 DEF Pkt
<1>. HIDE DEF tail, p
<1>11. CASE isValidChecksum(p)
  <2>1. AckPkt(p.seqnum) \in Pkt
    BY <1>10, AckPktSealed DEF Sealed
  <2>2. /\ ListOK(evlist')
        /\ TimersIn(evlist') = {} <=> TimersIn(tail) = {}
        /\ \A t : TimerAt(tail, t) => TimerAt(evlist', t)
        /\ \A e2 \in {"A", "B"} : e2 # "A" => UnderWay(evlist', e2) = UnderWay(tail, e2)
        /\ UnderWay(evlist', "A") \in tolayer3(UnderWay(tail, "A"), <<AckPkt(p.seqnum)>>)
    BY <1>2, <1>9, <1>11, <2>1, SentOK
  <2>3. timer' = timer
    BY <1>1, <1>4, <1>8, <2>2, TimerUnchanged
  <2>4. UnderWay(evlist', "B") = UnderWay(tail, "B")
    BY <2>2
  <2>5. /\ toB' = Tail(toB) /\ toA' \in tolayer3(toA, <<AckPkt(p.seqnum)>>)
        /\ timers' = timers
    BY <1>5, <1>6, <1>7, <1>8, <2>2, <2>4 DEF Derived
  <2>6. B_input
    BY <1>1, <1>6, <1>8, <1>9, <1>11, <2>3, <2>5
       DEF B_input, FromLayer3B, avars
  <2>. QED
    BY <1>2, <1>4, <1>5, <1>8, <2>2, <2>6, DerivedKeeps
<1>12. CASE ~isValidChecksum(p)
  <2>1. evlist' = tail /\ UNCHANGED <<cur_msg_recv, exitcode, bvars>>
    BY <1>9, <1>12
  <2>2. timer' = timer
    BY <1>1, <1>4, <1>8, <2>1, TimerUnchanged
  <2>3. toB' = Tail(toB) /\ toA' = toA /\ timers' = timers
    BY <1>5, <1>6, <1>7, <1>8, <2>1 DEF Derived
  <2>4. B_input
    BY <1>1, <1>6, <1>8, <1>12, <2>1, <2>2, <2>3
       DEF B_input, FromLayer3B, avars
  <2>. QED
    BY <1>2, <1>4, <1>5, <1>8, <2>1, <2>4, DerivedKeeps
<1>. QED
  BY <1>11, <1>12

(* A packet that reaches A.  After it TimerStandsForBase says which packet *)
(* a timer was started for.                                                *)
LEMMA TimedA_inputStep ==
  ASSUME TimedIInv, TimedA_input
  PROVE  A_input /\ TInv' /\ TimerAt(evlist', sent_at'[winbase'] + increment)
<1>. DEFINE tail == Tail(evlist)
            p == Head(evlist).packet
<1>1. /\ IInv /\ TInv /\ TimerAt(evlist, sent_at[winbase] + increment)
      /\ TakeEvent("FROM_LAYER3", "A") /\ Running
  BY DEF TimedIInv, TimedA_input, TakeEvent
<1>2. /\ evlist # << >> /\ ListOK(evlist) /\ Head(evlist) \in Events
      /\ Head(evlist).evtype = "FROM_LAYER3" /\ Head(evlist).eventity = "A"
      /\ ListOK(tail) /\ time_local' \in Nat \ {0}
  BY <1>1, Taken
<1>3. /\ ~IsTimer(Head(evlist)) /\ IsPacketTo("A", Head(evlist))
      /\ ~IsPacketTo("B", Head(evlist))
  BY <1>2 DEF IsTimer, IsPacketTo
<1>4. /\ TimersIn(tail) = {} <=> TimersIn(evlist) = {}
      /\ TimerAt(tail, sent_at[winbase] + increment)
  BY <1>1, <1>2, <1>3, TailOK
<1>5. /\ toA = UnderWay(evlist, "A") /\ toB = UnderWay(evlist, "B")
      /\ sent_at \in [0 .. nsimmax - 1 -> Nat] /\ timers = HaveTime(sent_at)
  BY <1>1 DEF TInv
<1>6. toA # << >> /\ Head(toA) = p /\ UnderWay(tail, "A") = Tail(toA)
  BY <1>2, <1>3, <1>5, TailTakes DEF ListOK
<1>7. UnderWay(tail, "B") = toB
  BY <1>2, <1>3, <1>5, TailTakes DEF ListOK
<1>8. /\ UNCHANGED <<nsim, cur_msg_recv, exitcode, nextseq, send_packets, sent_at, bvars>>
      /\ Derived
  BY DEF TimedA_input
<1>9. IF isValidChecksum(p)
      THEN TimedAcknowledged(p.acknum)
      ELSE evlist' = tail /\ UNCHANGED <<acked, winbase, unackedPkt>>
  BY DEF TimedA_input
<1>10. ASSUME A_input PROVE unackedPkt' = winbase'
  BY <1>1, <1>10, A_inputInvariant DEF IInv, TimerStandsForBase
<1>11. unackedPkt = winbase
  BY <1>1 DEF IInv, TimerStandsForBase
<1>. HIDE DEF tail, p
<1>12. ASSUME evlist' = tail, unackedPkt' = unackedPkt
       PROVE  /\ timer' = timer /\ toA' = Tail(toA) /\ toB' = toB
              /\ timers' = timers /\ TInv'
              /\ A_input => TimerAt(evlist', sent_at'[winbase'] + increment)
  <2>1. timer' = timer
    BY <1>1, <1>4, <1>8, <1>12, TimerUnchanged
  <2>2. toA' = Tail(toA) /\ toB' = toB /\ timers' = timers
    BY <1>5, <1>6, <1>7, <1>8, <1>12 DEF Derived
  <2>3. TInv'
    BY <1>2, <1>5, <1>8, <1>12, DerivedKeeps
  <2>4. A_input => winbase' = winbase
    BY <1>10, <1>11, <1>12
  <2>. QED
    BY <1>4, <1>8, <1>12, <2>1, <2>2, <2>3, <2>4
<1>13. CASE ~isValidChecksum(p)
  <2>1. evlist' = tail /\ UNCHANGED <<acked, winbase, unackedPkt>>
    BY <1>9, <1>13
  <2>2. A_input
    BY <1>1, <1>6, <1>8, <1>12, <1>13, <2>1 DEF A_input, FromLayer3A
  <2>. QED
    BY <1>12, <2>1, <2>2
<1>14. CASE isValidChecksum(p)
  <2>. DEFINE n == p.acknum
  <2>1. TimedAcknowledged(n)
    BY <1>9, <1>14
  <2>. HIDE DEF n
  <2>2. ASSUME toA' = Tail(toA), toB' = toB, timers' = timers, Acknowledged(n)
        PROVE  A_input
    BY <1>1, <1>6, <1>8, <1>14, <2>2 DEF A_input, FromLayer3A, n
  <2>3. CASE unackedPkt # n
    <3>1. evlist' = tail /\ unackedPkt' = unackedPkt
      BY <2>1, <2>3 DEF TimedAcknowledged, tail
    <3>2. timer' = timer /\ toA' = Tail(toA) /\ toB' = toB /\ timers' = timers
      BY <1>12, <3>1
    <3>3. Acknowledged(n)
      BY <2>1, <2>3, <3>1, <3>2 DEF TimedAcknowledged, Acknowledged
    <3>. QED
      BY <1>12, <2>2, <3>1, <3>2, <3>3
  <2>4. CASE unackedPkt = n
    <3>1. PICK u \in 0 .. nsimmax :
            /\ checkUnackedPkt(u, winbase', acked', HaveTime(sent_at))
            /\ unackedPkt' = u
            /\ evlist' = IF u \in HaveTime(sent_at)
                         THEN starttimer(stoptimer(tail),
                                         sent_at[u] + increment - time_local')
                         ELSE stoptimer(tail)
      BY <2>1, <2>4 DEF TimedAcknowledged, tail
    <3>. DEFINE stopped == stoptimer(tail)
    <3>2. /\ ListOK(stopped) /\ TimersIn(stopped) = {}
          /\ \A e : UnderWay(stopped, e) = UnderWay(tail, e)
      BY <1>2, StopOK
    <3>. HIDE DEF stopped
    <3>3. ASSUME UnderWay(evlist', "A") = UnderWay(tail, "A"),
                 UnderWay(evlist', "B") = UnderWay(tail, "B")
          PROVE  toA' = Tail(toA) /\ toB' = toB /\ timers' = timers
      BY <1>5, <1>6, <1>7, <1>8, <3>3 DEF Derived
    <3>4. ASSUME \/ u \in timers /\ timer' = TRUE
                 \/ u \notin timers /\ timer' = FALSE
          PROVE  Acknowledged(n)
      BY <1>5, <2>1, <2>4, <3>1, <3>4 DEF TimedAcknowledged, Acknowledged
    <3>5. CASE u \in HaveTime(sent_at)
      <4>. DEFINE left == sent_at[u] + increment - time_local'
      <4>1. time_local' + left = sent_at[u] + increment /\ time_local' + left \in Nat \ {0}
        <5>1. sent_at[u] \in Nat \ {0}
          BY <1>5, <3>5 DEF HaveTime
        <5>2. \A a \in Nat \ {0}, t \in Nat \ {0} :
                /\ t + (a + increment - t) = a + increment
                /\ a + increment \in Nat \ {0}
          BY TimesAssumption
        <5>. QED
          BY <1>2, <5>1, <5>2
      <4>2. evlist' = starttimer(stopped, left)
        BY <3>1, <3>5 DEF stopped
      <4>. HIDE DEF left
      <4>3. TimerAt(stopped, time_local' + left)
        BY <3>2 DEF TimerAt
      <4>4. /\ ListOK(starttimer(stopped, left))
            /\ TimersIn(starttimer(stopped, left)) # {}
            /\ \A t : TimerAt(stopped, t) /\ (TimersIn(stopped) = {} => t = time_local' + left)
                        => TimerAt(starttimer(stopped, left), t)
            /\ \A e : UnderWay(starttimer(stopped, left), e) = UnderWay(stopped, e)
        BY <3>2, <4>1, StartOK
      <4>5. /\ ListOK(evlist') /\ TimersIn(evlist') # {}
            /\ TimerAt(evlist', sent_at[u] + increment)
            /\ \A e : UnderWay(evlist', e) = UnderWay(tail, e)
        BY <3>2, <4>1, <4>2, <4>3, <4>4
      <4>6. timer' = TRUE
        BY <1>8, <4>5 DEF Derived
      <4>7. A_input
        BY <1>5, <2>2, <3>3, <3>4, <3>5, <4>5, <4>6
      <4>8. winbase' = u
        BY <1>10, <3>1, <4>7
      <4>. QED
        BY <1>2, <1>5, <1>8, <4>5, <4>7, <4>8, DerivedKeeps
    <3>6. CASE u \notin HaveTime(sent_at)
      <4>1. evlist' = stopped
        BY <3>1, <3>6 DEF stopped
      <4>2. timer' = FALSE
        BY <1>8, <3>2, <4>1 DEF Derived
      <4>3. A_input
        BY <1>5, <2>2, <3>2, <3>3, <3>4, <3>6, <4>1, <4>2
      <4>4. TimerAt(evlist', sent_at'[winbase'] + increment)
        BY <3>2, <4>1 DEF TimerAt
      <4>. QED
        BY <1>2, <1>5, <1>8, <3>2, <4>1, <4>3, <4>4, DerivedKeeps
    <3>. QED
      BY <3>5, <3>6
  <2>. QED
    BY <2>3, <2>4
<1>. QED
  BY <1>13, <1>14

(* A timeout.                                                              *)
LEMMA TimedA_timerinterruptStep ==
  ASSUME TimedIInv, TimedA_timerinterrupt
  PROVE  A_timerinterrupt /\ TInv' /\ TimerAt(evlist', sent_at'[winbase'] + increment)
<1>. DEFINE tail == Tail(evlist)
            p == StoredPkt(unackedPkt)
<1>1. /\ IInv /\ TInv /\ TakeEvent("TIMER_INTERRUPT", "A") /\ Running
  BY DEF TimedIInv, TimedA_timerinterrupt, TakeEvent
<1>2. /\ evlist # << >> /\ ListOK(evlist) /\ Head(evlist) \in Events
      /\ Head(evlist).evtype = "TIMER_INTERRUPT"
      /\ ListOK(tail) /\ time_local' \in Nat \ {0}
  BY <1>1, Taken
<1>3. IsTimer(Head(evlist)) /\ \A e : ~IsPacketTo(e, Head(evlist))
  BY <1>2 DEF IsTimer, IsPacketTo
<1>4. TimersIn(tail) = {}
  BY <1>2, <1>3, TailOK
<1>5. /\ toA = UnderWay(evlist, "A") /\ toB = UnderWay(evlist, "B")
      /\ sent_at \in [0 .. nsimmax - 1 -> Nat] /\ timers = HaveTime(sent_at)
      /\ (timer <=> TimersIn(evlist) # {})
  BY <1>1 DEF TInv
<1>6. UnderWay(tail, "A") = toA /\ UnderWay(tail, "B") = toB
  BY <1>2, <1>3, <1>5, TailTakes DEF ListOK
<1>7. timer
  <2>1. 1 \in DOMAIN evlist /\ evlist[1] = Head(evlist)
    <3>1. evlist \in Seq(Events)
      BY <1>2 DEF ListOK
    <3>. QED
      BY <1>2, <3>1
  <2>2. 1 \in TimersIn(evlist)
    BY <1>3, <2>1 DEF TimersIn
  <2>. QED
    BY <1>5, <2>2
<1>8. /\ nsimmax \in Nat /\ nsimmax <= 1000 /\ nsim \in Nat /\ nsim < nsimmax
      /\ winbase \in Nat /\ nextseq \in Nat /\ nextseq <= nsim
      /\ Len(send_packets) = nsim /\ unackedPkt = winbase /\ winbase < nextseq
  BY <1>1, <1>7, Numbers DEF Running
<1>9. p \in Pkt
  <2>1. /\ send_packets \in Seq(Payload)
        /\ \A k \in 0 .. Len(send_packets) - 1 : send_packets[k + 1] = Text(Letter(k))
    BY <1>1 DEF IInv, TypeOK, Stored
  <2>2. /\ unackedPkt \in 0 .. Len(send_packets) - 1 /\ unackedPkt < 1000
        /\ unackedPkt < nextseq
    BY <1>8
  <2>3. Sealed(SealedPkt(send_packets, unackedPkt))
    BY <2>1, <2>2, SealedPktSealed
  <2>. QED
    BY <2>2, <2>3 DEF StoredPkt, Sealed
<1>10. /\ RoomFor(toB, 1)
       /\ sent_at' = [sent_at EXCEPT ![unackedPkt] = time_local']
       /\ UNCHANGED <<nsim, cur_msg_recv, exitcode, winbase, nextseq, send_packets,
                      acked, bvars>>
       /\ Derived
  BY DEF TimedA_timerinterrupt
<1>11. PICK u \in 0 .. nsimmax :
         /\ checkUnackedPkt(u, winbase, acked, HaveTime(sent_at'))
         /\ unackedPkt' = u
         /\ \E sent \in Timed_tolayer3(tail, "B", p) :
              evlist' = starttimer(sent, sent_at'[u] + increment - time_local')
  BY DEF TimedA_timerinterrupt
<1>12. PICK sent \in Timed_tolayer3(tail, "B", p) :
         evlist' = starttimer(sent, sent_at'[u] + increment - time_local')
  BY <1>11
<1>. HIDE DEF tail, p
<1>13. /\ sent_at' \in [0 .. nsimmax - 1 -> Nat]
       /\ HaveTime(sent_at') = timers \cup {unackedPkt}
  <2>1. unackedPkt \in 0 .. nsimmax - 1
    BY <1>8
  <2>. QED
    BY <1>2, <1>5, <1>10, <2>1, NotedTime
<1>14. /\ ListOK(sent) /\ TimersIn(sent) = {}
       /\ UnderWay(sent, "A") = toA /\ UnderWay(sent, "B") \in tolayer3(toB, <<p>>)
  <2>1. /\ ListOK(sent)
        /\ TimersIn(sent) = {} <=> TimersIn(tail) = {}
        /\ \A t : TimerAt(tail, t) => TimerAt(sent, t)
        /\ \A e2 \in {"A", "B"} : e2 # "B" => UnderWay(sent, e2) = UnderWay(tail, e2)
        /\ UnderWay(sent, "B") \in tolayer3(UnderWay(tail, "B"), <<p>>)
    BY <1>2, <1>9, SentOK
  <2>. QED
    BY <1>4, <1>6, <2>1
<1>. DEFINE left == sent_at'[u] + increment - time_local'
(* checkUnackedPkt leaves the packet that was sent again.                  *)
<1>15. u = winbase /\ sent_at'[u] = time_local'
  <2>1. winbase \in HaveTime(sent_at')
    BY <1>8, <1>13
  <2>2. winbase \notin acked
    BY <1>1 DEF IInv, Stored, FirstOutside
  <2>3. winsize \in Nat /\ nextseq <= winbase + winsize
    BY <1>1, Numbers
  <2>4. winbase \in winbase .. winbase + winsize - 1
    BY <1>8, <2>3
  <2>. DEFINE open == {i \in winbase .. winbase + winsize - 1 :
                         i \notin acked /\ i \in HaveTime(sent_at')}
  <2>5. winbase \in open /\ \A i \in open : winbase <= i /\ i \in Int
    BY <1>8, <2>1, <2>2, <2>3, <2>4
  <2>6. u \in open /\ \A i \in open : u <= i
    BY <1>11, <2>5 DEF checkUnackedPkt
  <2>. HIDE DEF open
  <2>7. u = winbase
    BY <1>8, <2>5, <2>6
  <2>. QED
    BY <1>5, <1>8, <1>10, <2>7
<1>16. time_local' + left = sent_at'[u] + increment /\ time_local' + left \in Nat \ {0}
  <2>1. \A t \in Nat \ {0} : /\ t + (t + increment - t) = t + increment
                             /\ t + increment \in Nat \ {0}
    BY TimesAssumption
  <2>. QED
    BY <1>2, <1>15, <2>1
<1>17. evlist' = starttimer(sent, left)
  BY <1>12
<1>. HIDE DEF left
<1>18. TimerAt(sent, time_local' + left)
  BY <1>14 DEF TimerAt
<1>19. /\ ListOK(starttimer(sent, left))
       /\ TimersIn(starttimer(sent, left)) # {}
       /\ \A t : TimerAt(sent, t) /\ (TimersIn(sent) = {} => t = time_local' + left)
                   => TimerAt(starttimer(sent, left), t)
       /\ \A e : UnderWay(starttimer(sent, left), e) = UnderWay(sent, e)
  BY <1>14, <1>16, StartOK
<1>20. /\ ListOK(evlist') /\ TimersIn(evlist') # {}
       /\ TimerAt(evlist', sent_at'[u] + increment)
       /\ \A e : UnderWay(evlist', e) = UnderWay(sent, e)
  BY <1>16, <1>17, <1>18, <1>19
<1>21. timer' = TRUE
  BY <1>10, <1>20 DEF Derived
<1>22. /\ toA' = toA /\ toB' \in tolayer3(toB, <<p>>)
       /\ timers' = timers \cup {unackedPkt}
  BY <1>10, <1>13, <1>14, <1>20 DEF Derived
<1>23. A_timerinterrupt
  <2>1. checkUnackedPkt(u, winbase, acked, timers')
    BY <1>11, <1>13, <1>22
  <2>. QED
    BY <1>1, <1>7, <1>10, <1>11, <1>21, <1>22, <2>1
       DEF A_timerinterrupt, TimerEvent, p
<1>. QED
  BY <1>2, <1>10, <1>13, <1>15, <1>20, <1>23, DerivedKeeps

LEMMA TimedNextStep ==
  ASSUME TimedIInv, TimedNext
  PROVE  Next /\ TimedIInv'
<1>1. IInv
  BY DEF TimedIInv
<1>2. CASE TimedA_output
  <2>1. A_output /\ TInv' /\ TimerAt(evlist', sent_at'[winbase'] + increment)
    BY <1>2, TimedA_outputStep
  <2>. QED
    BY <1>1, <2>1, A_outputInvariant DEF Next, TimedIInv
<1>3. CASE TimedA_input
  <2>1. A_input /\ TInv' /\ TimerAt(evlist', sent_at'[winbase'] + increment)
    BY <1>3, TimedA_inputStep
  <2>. QED
    BY <1>1, <2>1, A_inputInvariant DEF Next, TimedIInv
<1>4. CASE TimedA_timerinterrupt
  <2>1. A_timerinterrupt /\ TInv' /\ TimerAt(evlist', sent_at'[winbase'] + increment)
    BY <1>4, TimedA_timerinterruptStep
  <2>. QED
    BY <1>1, <2>1, A_timerinterruptInvariant DEF Next, TimedIInv
<1>5. CASE TimedB_input
  <2>1. B_input /\ TInv' /\ TimerAt(evlist', sent_at'[winbase'] + increment)
    BY <1>5, TimedB_inputStep
  <2>. QED
    BY <1>1, <2>1, B_inputInvariant DEF Next, TimedIInv
<1>. QED
  BY <1>2, <1>3, <1>4, <1>5 DEF TimedNext

LEMMA TimedNextInvariant ==
  TimedIInv /\ [TimedNext]_timedvars => TimedIInv' /\ [Next]_vars
<1>. SUFFICES ASSUME TimedIInv, [TimedNext]_timedvars
              PROVE  TimedIInv' /\ [Next]_vars
  OBVIOUS
<1>1. CASE TimedNext
  BY <1>1, TimedNextStep
<1>2. CASE UNCHANGED timedvars
  <2>1. UNCHANGED vars /\ UNCHANGED <<time_local, evlist, sent_at>>
    BY <1>2 DEF timedvars
  <2>2. IInv' /\ toA' = toA /\ toB' = toB /\ timer' = timer /\ timers' = timers
        /\ winbase' = winbase
    BY <2>1, NextInvariant DEF TimedIInv, vars, simvars, avars
  <2>. QED
    BY <2>1, <2>2 DEF TimedIInv, TInv
<1>. QED
  BY <1>1, <1>2

(* SR's invariant, and what the event list and the send times add to it:   *)
(* the list keeps the order of its times and holds one timer at most, a    *)
(* timer runs exactly when SR says so, and the packets on the list are     *)
(* SR's queues.                                                            *)
THEOREM TimedInvariance == TimedSpec => []TimedIInv
<1>. QED
  BY TimedInitInvariant, TimedNextInvariant, PTL DEF TimedSpec

(* insertevent and every handler that calls it keep the event list in the  *)
(* order of its times (simulator.cpp:352-386).                             *)
THEOREM EventsAlwaysInOrder == TimedSpec => []EventsInOrder
<1>1. TimedIInv => EventsInOrder
  <2>. SUFFICES ASSUME TimedIInv PROVE EventsInOrder
    OBVIOUS
  <2>1. ListOK(evlist)
    BY DEF TimedIInv, TInv
  <2>2. DOMAIN evlist = 1 .. Len(evlist)
    BY <2>1, LenProperties DEF ListOK
  <2>. QED
    BY <2>1, <2>2 DEF ListOK, EventsInOrder
<1>. QED
  BY <1>1, TimedInvariance, PTL

(* The one timer is due a timeout after the window base was last sent,     *)
(* whichever of A's three handlers started it (sr.cpp:104, 123-126,        *)
(* 137-143).                                                               *)
THEOREM TimerAlwaysMatchesBase == TimedSpec => []TimerMatchesBase
<1>1. TimedIInv => TimerMatchesBase
  BY DEF TimedIInv, TimerMatchesBase, TimerAt, TimersIn
<1>. QED
  BY <1>1, TimedInvariance, PTL

(* Every run on the event list is a run of SR: what is proved of SR, with  *)
(* timers that may go off at any moment and packets in two queues, is true *)
(* of the protocol with its clock (simulator.cpp, sr.cpp:77-181).          *)
THEOREM TimedRefinement == TimedSpec => ImplementsSR
<1>1. TimedInit => Init
  BY DEF TimedInit
<1>2. TimedSpec => []TimedIInv
  BY TimedInvariance
<1>3. TimedIInv /\ [TimedNext]_timedvars => [Next]_vars
  BY TimedNextInvariant
<1>. QED
  BY <1>1, <1>2, <1>3, PTL DEF TimedSpec, ImplementsSR, Spec
=============================================================================
