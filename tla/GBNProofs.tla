----------------------------- MODULE GBNProofs -----------------------------
(***************************************************************************)
(* Go-Back-N keeps its invariant, for every number of messages, window     *)
(* size and set of damages: no run ends in a panic, the two windows agree  *)
(* and the timer guards every unconfirmed packet.                          *)
(***************************************************************************)
EXTENDS GBN, SimulatorProofs

USE DEF counter

(* A packet A stored can be sent: it is sealed, has its own index as       *)
(* sequence number and carries its message (gbn.cpp:78-93).                *)
LEMMA DataPktSealed ==
  ASSUME NEW ps \in Seq(Payload), NEW k \in 0 .. Len(ps) - 1, k < 1000,
         ps[k + 1] = Text(Letter(k))
  PROVE  /\ Sealed(DataPkt(ps, k))
         /\ DataPkt(ps, k).seqnum = k
         /\ DataPkt(ps, k).payload = Text(Letter(k))
<1>. DEFINE p == [seqnum |-> k, acknum |-> 0, checksum |-> 0,
                  payload |-> ps[k + 1]]
<1>1. p \in Pkt
  BY DEF Pkt
<1>2. k \in Nat
  OBVIOUS
<1>3. Text(Letter(k)).first # CorruptByte
  BY <1>2, LetterRange
<1>4. DataPkt(ps, k) = setChecksum(p)
  BY DEF DataPkt
<1>. QED
  BY <1>1, <1>3, <1>4, SetChecksumValid DEF Sealed, CorruptNumber

LEMMA InitInvariant == Init => IInv
<1>. SUFFICES ASSUME Init PROVE IInv
  OBVIOUS
<1>1. TypeOK
  <2>1. << >> \in Seq(Pkt) /\ << >> \in Seq(Payload)
    OBVIOUS
  <2>2. nsim \in 0 .. nsimmax /\ cur_msg_recv \in Nat
    BY nsimmaxAssumption DEF Init, SimInit
  <2>3. exitcode \in {0, 52, 63} /\ timer \in BOOLEAN
    BY DEF Init, SimInit
  <2>4. toA \in Seq(Pkt) /\ toB \in Seq(Pkt)
    BY <2>1 DEF Init, SimInit
  <2>5. winbase \in Nat /\ nextseq \in Nat /\ packets \in Seq(Payload)
        /\ ack_B \in Nat
    BY <2>1 DEF Init
  <2>. QED
    BY <2>2, <2>3, <2>4, <2>5 DEF TypeOK, SimTypeOK
<1>2. NoPanic /\ WindowsAgree /\ TimerGuardsWindow
  BY winsizeAssumption
     DEF Init, SimInit, NoPanic, WindowsAgree, TimerGuardsWindow
<1>3. InFlight /\ Stored
  BY DEF Init, SimInit, InFlight, Stored
<1>. QED
  BY <1>1, <1>2, <1>3 DEF IInv

(* Layer 5 gives A a message; A sends the first unsent packet if the       *)
(* window has room.                                                        *)
LEMMA A_outputInvariant == IInv /\ A_output => IInv'
<1>. SUFFICES ASSUME IInv, A_output PROVE IInv'
  OBVIOUS
<1>. USE DEF IInv, TypeOK, SimTypeOK, NoPanic
<1>1. /\ nsim \in Nat /\ nsim < nsimmax /\ nsim' = nsim + 1 /\ nsim' <= 1000
      /\ nsim' \in 0 .. nsimmax
  BY nsimmaxAssumption DEF A_output, FromLayer5, Running
<1>2. /\ UNCHANGED <<cur_msg_recv, exitcode, toA, winbase, ack_B>>
      /\ packets' = Append(packets, Text(Letter(nsim)))
  BY DEF A_output
<1>3. /\ packets' \in Seq(Payload)
      /\ Len(packets') = Len(packets) + 1
      /\ \A k \in 0 .. Len(packets') - 1 : packets'[k + 1] = Text(Letter(k))
  BY <1>1, <1>2, LetterRange DEF Stored
<1>4. Stored'
  BY <1>1, <1>3 DEF Stored
<1>5. CASE nextseq < winbase + winsize
  <2>. DEFINE p == DataPkt(packets', nextseq)
  <2>1. /\ nextseq' = nextseq + 1 /\ timer' = (timer \/ winbase = nextseq)
        /\ toB' \in tolayer3(toB, <<p>>)
    BY <1>5, winsizeAssumption DEF A_output
  <2>2. nextseq \in 0 .. Len(packets') - 1 /\ nextseq < 1000
    BY <1>1, <1>3 DEF WindowsAgree, Stored
  <2>3. Sealed(p) /\ p.seqnum = nextseq /\ p.payload = Text(Letter(nextseq))
    <3>1. packets'[nextseq + 1] = Text(Letter(nextseq))
      BY <1>3, <2>2
    <3>. QED
      BY <1>3, <2>2, <3>1, DataPktSealed
  <2>. HIDE DEF p
  <2>4. /\ toB' \in Seq(Pkt)
        /\ \A i \in 1 .. Len(toB) : toB'[i] = toB[i]
        /\ \A i \in Len(toB) + 1 .. Len(toB') :
             isValidChecksum(toB'[i]) => toB'[i] = p
    BY <2>1, <2>3, PacketInFlight
  <2>5. TypeOK'
    BY <1>1, <1>2, <1>3, <2>1, <2>4
  <2>6. WindowsAgree' /\ TimerGuardsWindow'
    <3>1. WindowsAgree'
      BY <1>2, <1>3, <1>5, <2>1, winsizeAssumption DEF WindowsAgree
    <3>2. winbase < nextseq \/ winbase = nextseq
      BY DEF WindowsAgree
    <3>3. timer'
      BY <2>1, <3>2 DEF TimerGuardsWindow
    <3>. QED
      BY <3>1, <3>3 DEF TimerGuardsWindow
  <2>7. InFlight'
    <3>1. ASSUME NEW i \in 1 .. Len(toB'), isValidChecksum(toB'[i])
          PROVE  /\ toB'[i].seqnum \in 0 .. nextseq' - 1
                 /\ toB'[i].payload = Text(Letter(toB'[i].seqnum))
      <4>1. CASE i \in 1 .. Len(toB)
        BY <2>1, <2>4, <3>1, <4>1 DEF InFlight
      <4>2. CASE i \in Len(toB) + 1 .. Len(toB')
        BY <2>1, <2>3, <2>4, <3>1, <4>2
      <4>. QED
        BY <2>4, <4>1, <4>2
    <3>. QED
      BY <1>2, <3>1 DEF InFlight
  <2>. QED
    BY <1>2, <1>4, <2>5, <2>6, <2>7
<1>6. CASE nextseq >= winbase + winsize
  <2>1. UNCHANGED <<toB, timer, nextseq>>
    BY <1>6, winsizeAssumption DEF A_output
  <2>2. TypeOK'
    BY <1>1, <1>2, <1>3, <2>1
  <2>3. WindowsAgree' /\ TimerGuardsWindow' /\ InFlight'
    BY <1>2, <1>3, <2>1 DEF WindowsAgree, TimerGuardsWindow, InFlight
  <2>. QED
    BY <1>2, <1>4, <2>2, <2>3
<1>. QED
  BY <1>5, <1>6, winsizeAssumption

(* An acknowledgement reaches A. *)
LEMMA A_inputInvariant == IInv /\ A_input => IInv'
<1>. SUFFICES ASSUME IInv, A_input PROVE IInv'
  OBVIOUS
<1>. USE DEF IInv, TypeOK, SimTypeOK, NoPanic
<1>1. /\ UNCHANGED <<nsim, cur_msg_recv, exitcode, toB, nextseq, packets, ack_B>>
      /\ toA # << >> /\ toA' = Tail(toA)
  BY DEF A_input, FromLayer3A
<1>2. /\ toA' \in Seq(Pkt)
      /\ Len(toA) >= 1 /\ Head(toA) = toA[1]
      /\ Len(toA') = Len(toA) - 1
      /\ \A i \in 1 .. Len(toA') : toA'[i] = toA[i + 1]
  BY <1>1
<1>3. /\ winbase <= winbase' /\ winbase' <= ack_B /\ winbase' \in Nat
      /\ timer' \in BOOLEAN /\ (winbase' < nextseq => timer')
      /\ \A i \in 1 .. Len(toA') : isValidChecksum(toA'[i]) =>
           winbase' <= toA'[i].acknum
  <2>1. CASE ~isValidChecksum(Head(toA))
    <3>1. winbase' = winbase /\ timer' = timer
      BY <2>1 DEF A_input
    <3>. QED
      BY <1>2, <3>1 DEF InFlight, WindowsAgree, TimerGuardsWindow
  <2>2. CASE isValidChecksum(Head(toA))
    <3>1. winbase' = toA[1].acknum /\ timer' = TRUE
      BY <1>2, <2>2 DEF A_input
    <3>2. toA[1].acknum \in winbase .. ack_B
      BY <1>2, <2>2 DEF InFlight
    <3>3. \A i \in 1 .. Len(toA') : isValidChecksum(toA'[i]) =>
            toA[1].acknum <= toA'[i].acknum
      <4>1. SUFFICES ASSUME NEW i \in 1 .. Len(toA'), isValidChecksum(toA'[i])
                     PROVE  toA[1].acknum <= toA'[i].acknum
        OBVIOUS
      <4>2. i + 1 \in 1 .. Len(toA) /\ 1 \in 1 .. (i + 1) - 1
        BY <1>2
      <4>3. isValidChecksum(toA[i + 1]) /\ isValidChecksum(toA[1])
        BY <1>2, <2>2, <4>1
      <4>. QED
        BY <1>2, <4>2, <4>3 DEF InFlight
    <3>. QED
      BY <3>1, <3>2, <3>3
  <2>. QED
    BY <2>1, <2>2
<1>4. TypeOK' /\ NoPanic' /\ Stored'
  BY <1>1, <1>2, <1>3 DEF Stored
<1>5. WindowsAgree' /\ TimerGuardsWindow'
  BY <1>1, <1>3, winsizeAssumption DEF WindowsAgree, TimerGuardsWindow
<1>6. InFlight'
  <2>1. ASSUME NEW i \in 1 .. Len(toA'), isValidChecksum(toA'[i])
        PROVE  /\ toA'[i].acknum \in winbase' .. ack_B
               /\ \A j \in 1 .. i - 1 : isValidChecksum(toA'[j]) =>
                    toA'[j].acknum <= toA'[i].acknum
    <3>1. i + 1 \in 1 .. Len(toA) /\ toA'[i] = toA[i + 1]
      BY <1>2
    <3>2. toA'[i].acknum \in winbase .. ack_B
      BY <2>1, <3>1 DEF InFlight
    <3>3. toA'[i].acknum \in winbase' .. ack_B
      BY <1>3, <2>1, <3>2
    <3>4. ASSUME NEW j \in 1 .. i - 1, isValidChecksum(toA'[j])
          PROVE  toA'[j].acknum <= toA'[i].acknum
      <4>1. j + 1 \in 1 .. (i + 1) - 1 /\ j \in 1 .. Len(toA')
        BY <1>2
      <4>2. toA'[j] = toA[j + 1]
        BY <1>2, <4>1
      <4>. QED
        BY <2>1, <3>1, <3>4, <4>1, <4>2 DEF InFlight
    <3>. QED
      BY <3>3, <3>4
  <2>. QED
    BY <1>1, <2>1 DEF InFlight
<1>. QED
  BY <1>4, <1>5, <1>6

(* The timer goes off and A resends the window. *)
LEMMA A_timerinterruptInvariant == IInv /\ A_timerinterrupt => IInv'
<1>. SUFFICES ASSUME IInv, A_timerinterrupt PROVE IInv'
  OBVIOUS
<1>. USE DEF IInv, TypeOK, SimTypeOK, NoPanic
<1>1. /\ UNCHANGED <<nsim, cur_msg_recv, exitcode, toA,
                     winbase, nextseq, packets, ack_B>>
      /\ timer' = TRUE
      /\ toB' \in tolayer3(toB, Outstanding)
  BY DEF A_timerinterrupt
<1>. DEFINE n == nextseq - winbase
<1>2. n \in Nat /\ Outstanding = [i \in 1 .. n |-> DataPkt(packets, winbase + i - 1)]
  BY DEF WindowsAgree, Outstanding
<1>3. ASSUME NEW i \in 1 .. n
      PROVE  /\ Sealed(Outstanding[i])
             /\ Outstanding[i].seqnum \in 0 .. nextseq - 1
             /\ Outstanding[i].payload = Text(Letter(Outstanding[i].seqnum))
  <2>1. /\ winbase + i - 1 \in 0 .. Len(packets) - 1
        /\ winbase + i - 1 < 1000
        /\ winbase + i - 1 \in 0 .. nextseq - 1
    BY nsimmaxAssumption DEF WindowsAgree, Stored
  <2>2. packets[(winbase + i - 1) + 1] = Text(Letter(winbase + i - 1))
    BY <2>1 DEF Stored
  <2>3. Outstanding[i] = DataPkt(packets, winbase + i - 1)
    BY <1>2
  <2>. QED
    BY <2>1, <2>2, <2>3, DataPktSealed
<1>4. Outstanding \in Seq(Pkt) /\ Len(Outstanding) = n
  <2>1. \A i \in 1 .. n : Outstanding[i] \in Pkt
    BY <1>3 DEF Sealed
  <2>. QED
    BY <1>2, <2>1
<1>5. /\ toB' \in Seq(Pkt)
      /\ Len(toB) <= Len(toB')
      /\ \A i \in 1 .. Len(toB) : toB'[i] = toB[i]
      /\ \A i \in Len(toB) + 1 .. Len(toB') : isValidChecksum(toB'[i]) =>
           \E j \in 1 .. Len(Outstanding) : toB'[i] = Outstanding[j]
  BY <1>1, <1>3, <1>4, BurstInFlight
<1>6. TypeOK' /\ NoPanic' /\ WindowsAgree' /\ TimerGuardsWindow' /\ Stored'
  BY <1>1, <1>5 DEF WindowsAgree, TimerGuardsWindow, Stored
<1>7. InFlight'
  <2>1. ASSUME NEW i \in 1 .. Len(toB'), isValidChecksum(toB'[i])
        PROVE  /\ toB'[i].seqnum \in 0 .. nextseq - 1
               /\ toB'[i].payload = Text(Letter(toB'[i].seqnum))
    <3>1. CASE i \in 1 .. Len(toB)
      BY <1>5, <2>1, <3>1 DEF InFlight
    <3>2. CASE i \in Len(toB) + 1 .. Len(toB')
      <4>1. PICK j \in 1 .. n : toB'[i] = Outstanding[j]
        BY <1>4, <1>5, <2>1, <3>2
      <4>. QED
        BY <1>3, <4>1
    <3>. QED
      BY <1>5, <3>1, <3>2
  <2>. QED
    BY <1>1, <2>1 DEF InFlight
<1>. QED
  BY <1>6, <1>7

(* A data packet reaches B. *)
LEMMA B_inputInvariant == IInv /\ B_input => IInv'
<1>. SUFFICES ASSUME IInv, B_input PROVE IInv'
  OBVIOUS
<1>. USE DEF IInv, TypeOK, SimTypeOK, NoPanic
<1>1. /\ UNCHANGED <<nsim, timer, winbase, nextseq, packets>>
      /\ toB # << >> /\ toB' = Tail(toB)
  BY DEF B_input, FromLayer3B
<1>2. /\ toB' \in Seq(Pkt)
      /\ Len(toB) >= 1 /\ Head(toB) = toB[1]
      /\ Len(toB') = Len(toB) - 1
      /\ \A i \in 1 .. Len(toB') : toB'[i] = toB[i + 1]
  BY <1>1
<1>3. \A i \in 1 .. Len(toB') : isValidChecksum(toB'[i]) =>
        /\ toB'[i].seqnum \in 0 .. nextseq - 1
        /\ toB'[i].payload = Text(Letter(toB'[i].seqnum))
  <2>1. \A i \in 1 .. Len(toB') : i + 1 \in 1 .. Len(toB)
    BY <1>2
  <2>. QED
    BY <1>2, <2>1 DEF InFlight
<1>4. CASE ~isValidChecksum(Head(toB))
  <2>1. UNCHANGED <<cur_msg_recv, exitcode, toA, ack_B>>
    BY <1>4 DEF B_input
  <2>. QED
    BY <1>1, <1>2, <1>3, <2>1
       DEF WindowsAgree, TimerGuardsWindow, Stored, InFlight
<1>5. CASE isValidChecksum(Head(toB))
  <2>1. /\ toA' \in tolayer3(toA, <<AckPkt(ack_B)>>)
        /\ \/ /\ Head(toB).seqnum = ack_B
              /\ tolayer5(<<Head(toB).payload>>)
              /\ ack_B' = ack_B + 1
           \/ /\ Head(toB).seqnum # ack_B
              /\ UNCHANGED <<cur_msg_recv, exitcode, ack_B>>
    BY <1>5 DEF B_input
  <2>2. /\ Head(toB).seqnum \in 0 .. nextseq - 1
        /\ Head(toB).payload = Text(Letter(Head(toB).seqnum))
    BY <1>2, <1>5 DEF InFlight
  <2>3. /\ toA' \in Seq(Pkt)
        /\ Len(toA) <= Len(toA') /\ Len(toA') <= Len(toA) + 1
        /\ \A i \in 1 .. Len(toA) : toA'[i] = toA[i]
        /\ \A i \in Len(toA) + 1 .. Len(toA') :
             isValidChecksum(toA'[i]) => toA'[i].acknum = ack_B
    BY <2>1, AckPktSealed, PacketInFlight
  <2>4. /\ exitcode' = 0
        /\ ack_B' \in {ack_B, ack_B + 1} /\ ack_B' = cur_msg_recv'
        /\ ack_B' <= nextseq
    <3>1. CASE Head(toB).seqnum = ack_B
      <4>1. cur_msg_recv < nsim /\ cur_msg_recv = ack_B
            /\ cur_msg_recv \in Nat /\ nsim \in Nat
        BY <2>2, <3>1, nsimmaxAssumption DEF WindowsAgree, Stored
      <4>2. cur_msg_recv' = cur_msg_recv + 1 /\ exitcode' = exitcode
        BY <2>1, <2>2, <3>1, <4>1, Delivered
      <4>. QED
        BY <2>1, <2>2, <3>1, <4>1, <4>2
    <3>2. CASE Head(toB).seqnum # ack_B
      BY <2>1, <3>2 DEF WindowsAgree
    <3>. QED
      BY <3>1, <3>2
  <2>5. TypeOK' /\ NoPanic' /\ Stored'
    BY <1>1, <1>2, <2>3, <2>4 DEF Stored
  <2>6. WindowsAgree' /\ TimerGuardsWindow'
    BY <1>1, <2>4 DEF WindowsAgree, TimerGuardsWindow
  <2>7. InFlight'
    <3>1. ASSUME NEW i \in 1 .. Len(toA'), isValidChecksum(toA'[i])
          PROVE  /\ toA'[i].acknum \in winbase .. ack_B'
                 /\ \A j \in 1 .. i - 1 : isValidChecksum(toA'[j]) =>
                      toA'[j].acknum <= toA'[i].acknum
      <4>1. CASE i \in 1 .. Len(toA)
        <5>1. toA'[i] = toA[i] /\ \A j \in 1 .. i - 1 : toA'[j] = toA[j]
          BY <2>3, <4>1
        <5>2. toA[i].acknum \in winbase .. ack_B
          BY <3>1, <4>1, <5>1 DEF InFlight
        <5>3. \A j \in 1 .. i - 1 : isValidChecksum(toA'[j]) =>
                toA'[j].acknum <= toA'[i].acknum
          BY <3>1, <4>1, <5>1 DEF InFlight
        <5>. QED
          BY <2>4, <5>1, <5>2, <5>3
      <4>2. CASE i \in Len(toA) + 1 .. Len(toA')
        <5>1. i = Len(toA) + 1 /\ toA'[i].acknum = ack_B
          BY <2>3, <3>1, <4>2
        <5>2. ASSUME NEW j \in 1 .. i - 1, isValidChecksum(toA'[j])
              PROVE  toA'[j].acknum <= ack_B
          <6>1. j \in 1 .. Len(toA) /\ toA'[j] = toA[j]
            BY <2>3, <5>1
          <6>2. toA[j].acknum \in winbase .. ack_B
            BY <5>2, <6>1 DEF InFlight
          <6>. QED
            BY <6>1, <6>2
        <5>3. ack_B \in winbase .. ack_B'
          BY <2>4 DEF WindowsAgree
        <5>. QED
          BY <5>1, <5>2, <5>3
      <4>. QED
        BY <2>3, <4>1, <4>2
    <3>. QED
      BY <1>1, <1>3, <3>1 DEF InFlight
  <2>. QED
    BY <2>5, <2>6, <2>7
<1>. QED
  BY <1>4, <1>5

LEMMA NextInvariant == IInv /\ [Next]_vars => IInv'
<1>. SUFFICES ASSUME IInv, [Next]_vars PROVE IInv'
  OBVIOUS
<1>1. CASE A_output
  BY <1>1, A_outputInvariant
<1>2. CASE A_input
  BY <1>2, A_inputInvariant
<1>3. CASE A_timerinterrupt
  BY <1>3, A_timerinterruptInvariant
<1>4. CASE B_input
  BY <1>4, B_inputInvariant
<1>5. CASE UNCHANGED vars
  BY <1>5 DEF vars, simvars, IInv, TypeOK, SimTypeOK, NoPanic, WindowsAgree,
              TimerGuardsWindow, InFlight, Stored
<1>. QED
  BY <1>1, <1>2, <1>3, <1>4, <1>5 DEF Next

-----------------------------------------------------------------------------

(* The inductive invariant holds in every reachable state.                 *)
THEOREM Invariance == Spec => []IInv
<1>. QED
  BY InitInvariant, NextInvariant, PTL DEF Spec

(* Every variable of gbn.cpp keeps its type.                               *)
THEOREM TypeCorrect == Spec => []TypeOK
<1>1. IInv => TypeOK
  BY DEF IInv
<1>. QED
  BY <1>1, Invariance, PTL

(* No run of Go-Back-N makes layer 5 panic: messages are delivered once,   *)
(* in order and undamaged, whatever is lost or damaged                     *)
(* (simulator.cpp:594-609).                                                *)
THEOREM NoPanicEver == Spec => []NoPanic
<1>1. IInv => NoPanic
  BY DEF IInv
<1>. QED
  BY <1>1, Invariance, PTL

(* The windows of A and B agree in every reachable state.                  *)
THEOREM WindowsAlwaysAgree == Spec => []WindowsAgree
<1>1. IInv => WindowsAgree
  BY DEF IInv
<1>. QED
  BY <1>1, Invariance, PTL

(* The timer runs whenever a packet is unconfirmed.                        *)
THEOREM TimerAlwaysGuards == Spec => []TimerGuardsWindow
<1>1. IInv => TimerGuardsWindow
  BY DEF IInv
<1>. QED
  BY <1>1, Invariance, PTL

-----------------------------------------------------------------------------

(* A_input moves the window base forward or not at all, and never past     *)
(* what B delivered (gbn.cpp:102-113).                                     *)
LEMMA A_inputAdvances ==
  IInv /\ A_input => winbase' \in winbase .. cur_msg_recv
<1>. SUFFICES ASSUME IInv, A_input PROVE winbase' \in winbase .. cur_msg_recv
  OBVIOUS
<1>1. toA \in Seq(Pkt) /\ toA # << >> /\ winbase \in Nat
      /\ winbase <= ack_B /\ ack_B = cur_msg_recv /\ cur_msg_recv \in Nat
  BY DEF IInv, TypeOK, SimTypeOK, WindowsAgree, A_input, FromLayer3A
<1>2. Head(toA) = toA[1] /\ 1 \in 1 .. Len(toA)
  BY <1>1
<1>3. CASE isValidChecksum(Head(toA))
  <2>1. toA[1].acknum \in winbase .. ack_B
    BY <1>2, <1>3 DEF IInv, InFlight
  <2>. QED
    BY <1>1, <1>2, <1>3, <2>1 DEF A_input
<1>4. CASE ~isValidChecksum(Head(toA))
  BY <1>1, <1>4 DEF A_input
<1>. QED
  BY <1>3, <1>4

(* The window base never moves back.                                       *)
THEOREM WindowBaseMonotone == Spec => WindowNeverMovesBack
<1>1. IInv /\ [Next]_vars => [winbase' >= winbase]_vars
  <2>. SUFFICES ASSUME IInv, [Next]_vars PROVE [winbase' >= winbase]_vars
    OBVIOUS
  <2>1. winbase \in Nat /\ cur_msg_recv \in Nat
    BY DEF IInv, TypeOK, SimTypeOK
  <2>2. CASE A_input
    BY <2>1, <2>2, A_inputAdvances
  <2>3. CASE A_output \/ A_timerinterrupt \/ B_input
    <3>1. winbase' = winbase
      BY <2>3 DEF A_output, A_timerinterrupt, B_input
    <3>. QED
      BY <2>1, <3>1
  <2>4. CASE UNCHANGED vars
    BY <2>4
  <2>. QED
    BY <2>2, <2>3, <2>4 DEF Next
<1>. QED
  BY <1>1, Invariance, PTL DEF Spec, WindowNeverMovesBack

(* Go-Back-N implements the reliable transfer layer 5 relies on: a handler *)
(* is one step of it, or none.                                             *)
THEOREM Refinement == Spec => ImplementsReliableTransfer
<1>1. Init => RT!Init
  BY DEF Init, SimInit, RT!Init
<1>2. IInv /\ IInv' /\ [Next]_vars => [RT!Next]_RT!rtvars
  <2>. SUFFICES ASSUME IInv, IInv', [Next]_vars
                PROVE  RT!Next \/ UNCHANGED RT!rtvars
    OBVIOUS
  <2>. USE DEF RT!rtvars
  <2>1. /\ exitcode = 0 /\ exitcode' = 0
        /\ nsim \in Nat /\ cur_msg_recv \in Nat /\ winbase \in Nat
        /\ ack_B = cur_msg_recv /\ ack_B' = cur_msg_recv'
        /\ ack_B' <= nsim'
    BY nsimmaxAssumption
       DEF IInv, TypeOK, SimTypeOK, NoPanic, WindowsAgree, Stored
  <2>2. CASE A_output
    <3>1. nsim' = nsim + 1 /\ UNCHANGED <<cur_msg_recv, winbase>>
      BY <2>2 DEF A_output, FromLayer5
    <3>2. RT!Accept
      BY <2>1, <3>1 DEF RT!Accept
    <3>. QED
      BY <3>2 DEF RT!Next
  <2>3. CASE A_input
    <3>1. UNCHANGED <<nsim, cur_msg_recv>>
      BY <2>3 DEF A_input
    <3>2. winbase' \in winbase .. cur_msg_recv
      BY <2>3, A_inputAdvances
    <3>3. CASE winbase' = winbase
      BY <2>1, <3>1, <3>3
    <3>4. CASE winbase' # winbase
      <4>1. winbase' \in winbase + 1 .. cur_msg_recv
        BY <2>1, <3>2, <3>4
      <4>2. RT!Confirm
        BY <2>1, <3>1, <4>1 DEF RT!Confirm
      <4>. QED
        BY <4>2 DEF RT!Next
    <3>. QED
      BY <3>3, <3>4
  <2>4. CASE A_timerinterrupt
    BY <2>1, <2>4 DEF A_timerinterrupt
  <2>5. CASE B_input
    <3>1. /\ UNCHANGED <<nsim, winbase>>
          /\ ack_B' = ack_B \/ ack_B' = ack_B + 1
      BY <2>5 DEF B_input
    <3>2. CASE ack_B' = ack_B
      BY <2>1, <3>1, <3>2
    <3>3. CASE ack_B' = ack_B + 1
      <4>1. cur_msg_recv' \in cur_msg_recv + 1 .. nsim
        BY <2>1, <3>1, <3>3
      <4>2. RT!Deliver
        BY <2>1, <3>1, <4>1 DEF RT!Deliver
      <4>. QED
        BY <4>2 DEF RT!Next
    <3>. QED
      BY <3>1, <3>2, <3>3
  <2>6. CASE UNCHANGED vars
    BY <2>6 DEF vars, simvars
  <2>. QED
    BY <2>2, <2>3, <2>4, <2>5, <2>6 DEF Next
<1>. QED
  BY <1>1, <1>2, Invariance, PTL DEF Spec, RT!Spec, ImplementsReliableTransfer
=============================================================================
