----------------------------- MODULE ABTProofs -----------------------------
(***************************************************************************)
(* The alternating-bit protocol keeps its invariant, for every number of   *)
(* messages, every set of damages and whatever the unset fields hold: no   *)
(* run ends in a panic, the two bits stay in step, and the timer runs      *)
(* exactly while a packet is in transit.                                   *)
(***************************************************************************)
EXTENDS ABT, SimulatorProofs

USE DEF hasBuffer, started, confirmed

LEMMA Parity ==
  ASSUME NEW n \in Nat
  PROVE  n % 2 \in {0, 1} /\ (n + 1) % 2 = Flip(n % 2) /\ (n + 1) % 2 # n % 2
BY DEF Flip

(* What the conjuncts of the invariant say about the numbers.              *)
LEMMA Numbers ==
  ASSUME IInv
  PROVE  /\ nsim \in Nat /\ nsim <= 1000 /\ cur_msg_recv \in Nat
         /\ exitcode = 0
         /\ seq_A \in {0, 1} /\ ack_B \in {0, 1} /\ inTransit \in {0, 1}
         /\ Len(buffer) \in Nat /\ Len(buffer) <= nsim /\ buffCount \in Nat
         /\ buffCount <= Len(buffer)
         /\ confirmed \in Nat /\ confirmed <= cur_msg_recv
         /\ cur_msg_recv <= confirmed + inTransit
         /\ seq_A = confirmed % 2 /\ ack_B = cur_msg_recv % 2
         /\ (timer <=> inTransit = 1)
<1>. USE DEF IInv, TypeOK, SimTypeOK, NoPanic, TimerIffInTransit, BitsInStep,
             BufferHolds
<1>1. /\ nsim \in Nat /\ nsim <= 1000 /\ cur_msg_recv \in Nat /\ exitcode = 0
      /\ seq_A \in {0, 1} /\ ack_B \in {0, 1} /\ inTransit \in {0, 1}
  BY nsimmaxAssumption
<1>2. /\ Len(buffer) \in Nat /\ Len(buffer) <= nsim /\ buffCount \in Nat
      /\ buffCount <= Len(buffer)
  OBVIOUS
<1>3. started \in Int /\ confirmed \in Int
  BY <1>1, <1>2
<1>4. cur_msg_recv >= confirmed /\ cur_msg_recv <= started
  BY <1>3
<1>5. confirmed \in Nat
  BY <1>1
<1>. QED
  BY <1>1, <1>2, <1>3, <1>4, <1>5

LEMMA InitInvariant == Init => IInv
<1>. SUFFICES ASSUME Init PROVE IInv
  OBVIOUS
<1>1. /\ nsim = 0 /\ cur_msg_recv = 0 /\ exitcode = 0 /\ timer = FALSE
      /\ toA = << >> /\ toB = << >> /\ seq_A = 0 /\ inTransit = 0
      /\ buffer = << >> /\ buffCount = 0 /\ ack_B = 0
  BY DEF Init, SimInit
<1>2. Len(buffer) = 0 /\ Len(toA) = 0 /\ Len(toB) = 0
  BY <1>1
<1>3. TypeOK
  <2>1. << >> \in Seq(Pkt) /\ << >> \in Seq(Payload)
    OBVIOUS
  <2>2. nsim \in 0 .. nsimmax /\ cur_msg_recv \in Nat
    BY <1>1, nsimmaxAssumption
  <2>3. exitcode \in {0, 52, 63} /\ timer \in BOOLEAN
    BY <1>1
  <2>4. currentpkt_A \in Pkt /\ currentpkt_B \in Pkt
    BY GarbageAssumption DEF Init, Pkt, Payload, EmptyText, Text
  <2>5. /\ toA \in Seq(Pkt) /\ toB \in Seq(Pkt) /\ buffer \in Seq(Payload)
        /\ seq_A \in {0, 1} /\ inTransit \in {0, 1} /\ ack_B \in {0, 1}
        /\ buffCount \in Nat
    BY <1>1, <2>1
  <2>. QED
    BY <2>2, <2>3, <2>4, <2>5 DEF TypeOK, SimTypeOK
<1>4. NoPanic /\ TimerIffInTransit /\ BitsInStep /\ BufferAhead
  <2>1. started = 0 /\ confirmed = 0
    <3>1. nsim = 0 /\ Len(buffer) = 0 /\ buffCount = 0 /\ inTransit = 0
      BY <1>1, <1>2
    <3>. QED
      BY <3>1
  <2>2. NoPanic /\ TimerIffInTransit /\ BufferAhead
    BY <1>1, <1>2 DEF NoPanic, TimerIffInTransit, BufferAhead
  <2>. HIDE DEF started, confirmed
  <2>3. BitsInStep
    BY <1>1, <2>1 DEF BitsInStep
  <2>. QED
    BY <2>2, <2>3
<1>5. NoReplyBeforeDelivery /\ Kept /\ BufferHolds /\ RoundsInOrder
  BY <1>1, <1>2
     DEF NoReplyBeforeDelivery, Kept, BufferHolds, RoundsInOrder
<1>. QED
  BY <1>3, <1>4, <1>5 DEF IInv

(* Sending the next message while nothing is in transit.                   *)
LEMMA TransmitPreserves ==
  ASSUME IInv, inTransit = 0, Transmit(Text(Letter(confirmed))),
         confirmed' = confirmed,
         UNCHANGED <<cur_msg_recv, toA, seq_A, ack_B, currentpkt_B>>
  PROVE  /\ currentpkt_A' \in Pkt /\ toB' \in Seq(Pkt)
         /\ Kept' /\ RoundsInOrder'
<1>. DEFINE text == Text(Letter(confirmed))
            new  == [seqnum |-> seq_A, acknum |-> currentpkt_A.acknum,
                     checksum |-> 0, payload |-> text]
<1>1. /\ currentpkt_A' = setChecksum(new)
      /\ toB' \in tolayer3(toB, <<currentpkt_A'>>)
      /\ inTransit' = 1
  BY DEF Transmit
<1>2. /\ confirmed \in Nat /\ seq_A \in {0, 1} /\ ack_B = seq_A
      /\ confirmed = cur_msg_recv
  BY Numbers
<1>3. currentpkt_A \in Pkt /\ toB \in Seq(Pkt) /\ toA \in Seq(Pkt)
  BY DEF IInv, TypeOK, SimTypeOK
<1>4. text \in Payload /\ text.first # CorruptByte
  BY <1>2, LetterRange
<1>5. new \in Pkt /\ new.seqnum = seq_A /\ new.payload = text
  <2>1. seq_A \in Int
    BY <1>2
  <2>. HIDE DEF text
  <2>. QED
    BY <1>3, <1>4, <2>1 DEF Pkt
<1>6. /\ Sealed(currentpkt_A') /\ currentpkt_A'.seqnum = seq_A
      /\ currentpkt_A'.payload = text
  <2>1. seq_A < CorruptNumber
    BY <1>2, SMT DEF CorruptNumber
  <2>2. /\ currentpkt_A' \in Pkt /\ isValidChecksum(currentpkt_A')
        /\ currentpkt_A'.seqnum = seq_A /\ currentpkt_A'.payload = text
    BY <1>1, <1>5, SetChecksumValid
  <2>. QED
    BY <1>4, <2>1, <2>2 DEF Sealed
<1>7. /\ toB' \in Seq(Pkt)
      /\ Len(toB) <= Len(toB')
      /\ \A i \in 1 .. Len(toB) : toB'[i] = toB[i]
      /\ \A i \in Len(toB) + 1 .. Len(toB') :
           isValidChecksum(toB'[i]) => toB'[i] = currentpkt_A'
  BY <1>1, <1>3, <1>6, PacketInFlight
<1>8. Kept'
  BY <1>2, <1>6 DEF Kept, Sealed, IInv
<1>9. RoundsInOrder'
  <2>1. ASSUME NEW i \in 1 .. Len(toB'), isValidChecksum(toB'[i])
        PROVE  /\ toB'[i].seqnum \in {0, 1}
               /\ toB'[i].seqnum = ack_B =>
                    inTransit' = 1 /\ toB'[i] = currentpkt_A'
               /\ toB'[i].seqnum # ack_B => cur_msg_recv > 0
               /\ toB'[i].seqnum = seq_A =>
                    /\ inTransit' = 1
                    /\ \A j \in i .. Len(toB') :
                         isValidChecksum(toB'[j]) => toB'[j].seqnum = seq_A
    <3>1. CASE i \in 1 .. Len(toB)
      <4>1. toB'[i] = toB[i]
        BY <1>7, <3>1
      <4>2. /\ toB[i].seqnum \in {0, 1}
            /\ toB[i].seqnum # seq_A
            /\ toB[i].seqnum # ack_B => cur_msg_recv > 0
        BY <2>1, <3>1, <4>1 DEF IInv, RoundsInOrder
      <4>. QED
        BY <1>2, <4>1, <4>2
    <3>2. CASE i \in Len(toB) + 1 .. Len(toB')
      <4>1. toB'[i] = currentpkt_A'
        BY <1>7, <2>1, <3>2
      <4>2. \A j \in i .. Len(toB') :
              isValidChecksum(toB'[j]) => toB'[j].seqnum = seq_A
        BY <1>3, <1>6, <1>7, <3>2
      <4>. QED
        BY <1>1, <1>2, <1>6, <4>1, <4>2
    <3>. QED
      BY <1>3, <1>7, <3>1, <3>2
  <2>2. \A i \in 1 .. Len(toA) : isValidChecksum(toA[i]) =>
          toA[i].acknum \in {0, 1} /\ toA[i].acknum # seq_A
    BY <1>2 DEF IInv, RoundsInOrder
  <2>. QED
    BY <2>1, <2>2 DEF RoundsInOrder
<1>. QED
  BY <1>6, <1>7, <1>8, <1>9 DEF Sealed

(* Layer 5 gives A a message.                                              *)
LEMMA A_outputInvariant == IInv /\ A_output => IInv'
<1>. SUFFICES ASSUME IInv, A_output PROVE IInv'
  OBVIOUS
<1>. DEFINE message == Text(Letter(nsim))
<1>1. /\ nsim' = nsim + 1 /\ nsim' \in 0 .. nsimmax
      /\ UNCHANGED <<cur_msg_recv, exitcode, toA, seq_A, ack_B, currentpkt_B>>
  BY nsimmaxAssumption DEF A_output, FromLayer5, Running, IInv, TypeOK, SimTypeOK
<1>2. /\ nsim \in Nat /\ Len(buffer) \in Nat /\ buffCount \in Nat
      /\ Len(buffer) <= nsim /\ buffCount <= Len(buffer)
      /\ inTransit \in {0, 1} /\ confirmed \in Nat
  BY Numbers
<1>3. buffer \in Seq(Payload) /\ message \in Payload
  BY <1>2, LetterRange DEF IInv, TypeOK
<1>4. ASSUME buffer' = Append(buffer, message)
      PROVE  /\ buffer' \in Seq(Payload) /\ Len(buffer') = Len(buffer) + 1
             /\ \A i \in 0 .. Len(buffer') - 1 :
                  buffer'[i + 1] = Text(Letter(nsim' - Len(buffer') + i))
  <2>1. buffer' \in Seq(Payload) /\ Len(buffer') = Len(buffer) + 1
    BY <1>3, <1>4
  <2>2. ASSUME NEW i \in 0 .. Len(buffer') - 1
        PROVE  buffer'[i + 1] = Text(Letter(nsim' - Len(buffer') + i))
    <3>1. nsim' - Len(buffer') + i = nsim - Len(buffer) + i
      BY <1>1, <1>2, <2>1
    <3>2. CASE i < Len(buffer)
      <4>1. i \in 0 .. Len(buffer) - 1 /\ buffer'[i + 1] = buffer[i + 1]
        BY <1>2, <1>3, <1>4, <2>1, <3>2
      <4>. QED
        BY <3>1, <4>1 DEF IInv, BufferHolds
    <3>3. CASE i = Len(buffer)
      <4>1. buffer'[i + 1] = message /\ nsim - Len(buffer) + i = nsim
        BY <1>2, <1>3, <1>4, <2>1, <3>3
      <4>. QED
        BY <3>1, <4>1
    <3>. QED
      BY <1>2, <2>1, <3>2, <3>3
  <2>. QED
    BY <2>1, <2>2
<1>5. NoReplyBeforeDelivery' /\ NoPanic'
  BY <1>1 DEF IInv, NoReplyBeforeDelivery, NoPanic
<1>6. CASE inTransit = 0 /\ Len(buffer) > 0 /\ Transmit(Buffered(buffCount))
           /\ buffer' = Append(buffer, message) /\ buffCount' = buffCount + 1
  <2>1. /\ buffer' \in Seq(Payload) /\ Len(buffer') = Len(buffer) + 1
        /\ \A i \in 0 .. Len(buffer') - 1 :
             buffer'[i + 1] = Text(Letter(nsim' - Len(buffer') + i))
    BY <1>4, <1>6
  <2>2. buffCount < Len(buffer)
    BY <1>6 DEF IInv, BufferAhead
  <2>3. Buffered(buffCount) = Text(Letter(confirmed))
    <3>1. buffCount \in 0 .. Len(buffer) - 1
      BY <1>2, <2>2
    <3>2. buffer[buffCount + 1] = Text(Letter(nsim - Len(buffer) + buffCount))
      BY <3>1 DEF IInv, BufferHolds
    <3>3. confirmed = nsim - Len(buffer) + buffCount
      BY <1>2, <1>6
    <3>. QED
      BY <2>2, <3>2, <3>3 DEF Buffered
  <2>4. inTransit' = 1 /\ timer' = TRUE
    BY <1>6 DEF Transmit
  <2>5. confirmed' = confirmed /\ started' = started + 1
    BY <1>1, <1>2, <1>6, <2>1, <2>4
  <2>6. /\ currentpkt_A' \in Pkt /\ toB' \in Seq(Pkt)
        /\ Kept' /\ RoundsInOrder'
    BY <1>1, <1>6, <2>3, <2>5, TransmitPreserves
  <2>7. TypeOK'
    BY <1>1, <1>2, <1>6, <2>1, <2>4, <2>6 DEF IInv, TypeOK, SimTypeOK
  <2>8. TimerIffInTransit' /\ BufferAhead' /\ BufferHolds'
    <3>1. TimerIffInTransit'
      BY <2>4 DEF TimerIffInTransit
    <3>2. BufferAhead' /\ BufferHolds'
      BY <1>1, <1>2, <1>6, <2>1, <2>2 DEF BufferAhead, BufferHolds
    <3>. QED
      BY <3>1, <3>2
  <2>9. BitsInStep'
    <3>1. BitsInStep /\ started \in Int /\ cur_msg_recv \in Nat
      BY <1>2, Numbers DEF IInv
    <3>. QED
      BY <1>1, <2>5, <3>1 DEF BitsInStep
  <2>. QED
    BY <1>5, <2>6, <2>7, <2>8, <2>9 DEF IInv
<1>7. CASE inTransit = 0 /\ Len(buffer) = 0 /\ Transmit(message)
           /\ UNCHANGED <<buffer, buffCount>>
  <2>1. confirmed = nsim
    BY <1>2, <1>7
  <2>2. inTransit' = 1 /\ timer' = TRUE
    BY <1>7 DEF Transmit
  <2>3. confirmed' = confirmed /\ started' = started + 1
    BY <1>1, <1>2, <1>7, <2>2
  <2>4. /\ currentpkt_A' \in Pkt /\ toB' \in Seq(Pkt)
        /\ Kept' /\ RoundsInOrder'
    BY <1>1, <1>7, <2>1, <2>3, TransmitPreserves
  <2>5. TypeOK'
    BY <1>1, <1>2, <1>7, <2>2, <2>4 DEF IInv, TypeOK, SimTypeOK
  <2>6. TimerIffInTransit' /\ BufferAhead' /\ BufferHolds'
    <3>1. TimerIffInTransit'
      BY <2>2 DEF TimerIffInTransit
    <3>2. BufferAhead' /\ BufferHolds'
      BY <1>1, <1>2, <1>7 DEF BufferAhead, BufferHolds
    <3>. QED
      BY <3>1, <3>2
  <2>7. BitsInStep'
    <3>1. BitsInStep /\ started \in Int /\ cur_msg_recv \in Nat
      BY <1>2, Numbers DEF IInv
    <3>. QED
      BY <1>1, <2>3, <3>1 DEF BitsInStep
  <2>. QED
    BY <1>5, <2>4, <2>5, <2>6, <2>7 DEF IInv
<1>8. CASE inTransit = 1 /\ buffer' = Append(buffer, message)
           /\ UNCHANGED <<toB, timer, currentpkt_A, inTransit, buffCount>>
  <2>1. /\ buffer' \in Seq(Payload) /\ Len(buffer') = Len(buffer) + 1
        /\ \A i \in 0 .. Len(buffer') - 1 :
             buffer'[i + 1] = Text(Letter(nsim' - Len(buffer') + i))
    BY <1>4, <1>8
  <2>2. started' = started /\ confirmed' = confirmed
    BY <1>1, <1>2, <1>8, <2>1
  <2>3. TypeOK'
    BY <1>1, <1>8, <2>1 DEF IInv, TypeOK, SimTypeOK
  <2>4. TimerIffInTransit' /\ BufferAhead' /\ BufferHolds'
    <3>1. TimerIffInTransit'
      BY <1>8 DEF IInv, TimerIffInTransit
    <3>2. BufferAhead'
      <4>1. BufferAhead
        BY DEF IInv
      <4>2. buffCount < Len(buffer')
        BY <1>2, <2>1
      <4>. QED
        BY <1>8, <4>2 DEF BufferAhead
    <3>3. BufferHolds'
      BY <1>1, <1>2, <1>8, <2>1 DEF BufferHolds
    <3>. QED
      BY <3>1, <3>2, <3>3
  <2>. HIDE DEF started, confirmed
  <2>5. BitsInStep' /\ Kept' /\ RoundsInOrder'
    BY <1>1, <1>8, <2>2 DEF IInv, BitsInStep, Kept, RoundsInOrder
  <2>. QED
    BY <1>5, <2>3, <2>4, <2>5 DEF IInv
<1>. QED
  BY <1>6, <1>7, <1>8 DEF A_output

(* An acknowledgement reaches A.                                           *)
LEMMA A_inputInvariant == IInv /\ A_input => IInv'
<1>. SUFFICES ASSUME IInv, A_input PROVE IInv'
  OBVIOUS
<1>1. /\ UNCHANGED <<nsim, cur_msg_recv, exitcode, toB, currentpkt_A, buffer,
                     buffCount, ack_B, currentpkt_B>>
      /\ toA # << >> /\ toA' = Tail(toA) /\ toA \in Seq(Pkt)
  BY DEF A_input, FromLayer3A, IInv, TypeOK, SimTypeOK
<1>2. /\ toA' \in Seq(Pkt)
      /\ Len(toA) >= 1 /\ Head(toA) = toA[1]
      /\ Len(toA') = Len(toA) - 1
      /\ \A i \in 1 .. Len(toA') : toA'[i] = toA[i + 1] /\ i + 1 \in 1 .. Len(toA)
  BY <1>1
<1>3. /\ seq_A \in {0, 1} /\ ack_B \in {0, 1} /\ inTransit \in {0, 1}
      /\ nsim \in Nat /\ Len(buffer) \in Nat /\ buffCount \in Nat
      /\ confirmed \in Nat /\ cur_msg_recv \in Nat
      /\ seq_A = confirmed % 2 /\ ack_B = cur_msg_recv % 2
      /\ confirmed <= cur_msg_recv /\ cur_msg_recv <= confirmed + inTransit
  BY Numbers
<1>4. ASSUME NEW i \in 1 .. Len(toA'), isValidChecksum(toA'[i])
      PROVE  /\ toA'[i].acknum \in {0, 1}
             /\ toA'[i].acknum = seq_A =>
                  /\ ack_B # seq_A
                  /\ \A j \in i .. Len(toA') :
                       isValidChecksum(toA'[j]) => toA'[j].acknum = seq_A
  <2>1. /\ toA[i + 1].acknum \in {0, 1}
        /\ toA[i + 1].acknum = seq_A =>
             /\ ack_B # seq_A
             /\ \A j \in i + 1 .. Len(toA) :
                  isValidChecksum(toA[j]) => toA[j].acknum = seq_A
    BY <1>2, <1>4 DEF IInv, RoundsInOrder
  <2>2. \A j \in i .. Len(toA') : j + 1 \in i + 1 .. Len(toA)
                                  /\ toA'[j] = toA[j + 1]
    BY <1>2
  <2>. QED
    BY <1>2, <2>1, <2>2
<1>5. NoPanic' /\ BufferAhead' /\ BufferHolds'
  BY <1>1 DEF IInv, NoPanic, BufferAhead, BufferHolds
<1>6. NoReplyBeforeDelivery'
  BY <1>1 DEF IInv, NoReplyBeforeDelivery
<1>7. CASE isValidChecksum(Head(toA)) /\ Head(toA).acknum = seq_A /\ inTransit = 1
  <2>1. seq_A' = Flip(seq_A) /\ inTransit' = 0 /\ timer' = FALSE
    BY <1>7 DEF A_input
  <2>2. /\ ack_B # seq_A
        /\ \A j \in 1 .. Len(toA) :
             isValidChecksum(toA[j]) => toA[j].acknum = seq_A
    BY <1>2, <1>7 DEF IInv, RoundsInOrder
  <2>3. /\ seq_A' \in {0, 1} /\ seq_A' # seq_A /\ seq_A' = ack_B
    BY <1>3, <2>1, <2>2 DEF Flip
  <2>4. /\ confirmed' = confirmed + 1 /\ started' = started
        /\ started = confirmed + 1
    BY <1>1, <1>3, <1>7, <2>1
  <2>5. cur_msg_recv = confirmed + 1
    <3>1. cur_msg_recv = confirmed \/ cur_msg_recv = confirmed + 1
      BY <1>3
    <3>2. cur_msg_recv # confirmed
      BY <1>3, <2>2
    <3>. QED
      BY <3>1, <3>2
  <2>6. TypeOK'
    BY <1>1, <1>2, <2>1, <2>3 DEF IInv, TypeOK, SimTypeOK
  <2>7. TimerIffInTransit'
    BY <2>1 DEF TimerIffInTransit
  <2>8. BitsInStep'
    <3>. HIDE DEF started, confirmed
    <3>. QED
      BY <1>1, <1>3, <2>3, <2>4, <2>5 DEF BitsInStep
  <2>9. Kept'
    BY <1>1, <2>1 DEF IInv, Kept
  <2>10. RoundsInOrder'
    <3>1. ASSUME NEW i \in 1 .. Len(toB), isValidChecksum(toB[i])
          PROVE  /\ toB[i].seqnum \in {0, 1}
                 /\ toB[i].seqnum # ack_B /\ toB[i].seqnum # seq_A'
      <4>1. /\ toB[i].seqnum \in {0, 1}
            /\ toB[i].seqnum = ack_B => toB[i] = currentpkt_A
        BY <3>1 DEF IInv, RoundsInOrder
      <4>2. currentpkt_A.seqnum = seq_A
        BY <1>7 DEF IInv, Kept
      <4>. QED
        BY <2>2, <2>3, <4>1, <4>2
    <3>2. ASSUME NEW i \in 1 .. Len(toA'), isValidChecksum(toA'[i])
          PROVE  toA'[i].acknum \in {0, 1} /\ toA'[i].acknum # seq_A'
      <4>1. toA'[i].acknum = seq_A
        BY <1>2, <2>2, <3>2
      <4>. QED
        BY <1>3, <2>3, <4>1
    <3>3. cur_msg_recv > 0
      BY <1>3, <2>5
    <3>. QED
      BY <1>1, <3>1, <3>2, <3>3 DEF RoundsInOrder
  <2>. QED
    BY <1>5, <1>6, <2>6, <2>7, <2>8, <2>9, <2>10 DEF IInv
<1>8. CASE ~(isValidChecksum(Head(toA)) /\ Head(toA).acknum = seq_A
             /\ inTransit = 1)
  <2>1. UNCHANGED <<seq_A, inTransit, timer>>
    BY <1>8 DEF A_input
  <2>2. started' = started /\ confirmed' = confirmed
    BY <1>1, <2>1
  <2>. HIDE DEF started, confirmed
  <2>3. TypeOK'
    BY <1>1, <1>2, <2>1 DEF IInv, TypeOK, SimTypeOK
  <2>4. TimerIffInTransit' /\ BitsInStep' /\ Kept'
    BY <1>1, <2>1, <2>2 DEF IInv, TimerIffInTransit, BitsInStep, Kept
  <2>5. RoundsInOrder'
    BY <1>1, <1>4, <2>1 DEF IInv, RoundsInOrder
  <2>. QED
    BY <1>5, <1>6, <2>3, <2>4, <2>5 DEF IInv
<1>. QED
  BY <1>7, <1>8

(* The timer goes off and A resends the packet in transit.                 *)
LEMMA A_timerinterruptInvariant == IInv /\ A_timerinterrupt => IInv'
<1>. SUFFICES ASSUME IInv, A_timerinterrupt PROVE IInv'
  OBVIOUS
<1>1. /\ UNCHANGED <<nsim, cur_msg_recv, exitcode, toA, seq_A, inTransit,
                     currentpkt_A, buffer, buffCount, ack_B, currentpkt_B>>
      /\ timer /\ timer' = TRUE
      /\ toB' \in tolayer3(toB, <<currentpkt_A>>)
  BY DEF A_timerinterrupt, TimerEvent
<1>2. inTransit = 1
  BY <1>1, Numbers
<1>3. /\ nsim \in Nat /\ confirmed \in Nat /\ cur_msg_recv \in Nat
      /\ seq_A \in {0, 1} /\ ack_B \in {0, 1}
      /\ confirmed <= cur_msg_recv
      /\ seq_A = confirmed % 2 /\ ack_B = cur_msg_recv % 2
  BY Numbers
<1>4. Sealed(currentpkt_A) /\ currentpkt_A.seqnum = seq_A
  <2>1. /\ currentpkt_A \in Pkt /\ isValidChecksum(currentpkt_A)
        /\ currentpkt_A.seqnum = seq_A
        /\ currentpkt_A.payload = Text(Letter(confirmed))
    BY <1>2 DEF IInv, TypeOK, Kept
  <2>2. seq_A < CorruptNumber
    BY <1>3, SMT DEF CorruptNumber
  <2>3. Text(Letter(confirmed)).first # CorruptByte
    BY <1>3, LetterRange
  <2>. QED
    BY <2>1, <2>2, <2>3 DEF Sealed
<1>5. toB \in Seq(Pkt)
  BY DEF IInv, TypeOK, SimTypeOK
<1>6. /\ toB' \in Seq(Pkt)
      /\ Len(toB) <= Len(toB')
      /\ \A i \in 1 .. Len(toB) : toB'[i] = toB[i]
      /\ \A i \in Len(toB) + 1 .. Len(toB') :
           isValidChecksum(toB'[i]) => toB'[i] = currentpkt_A
  BY <1>1, <1>4, <1>5, PacketInFlight
<1>7. TypeOK' /\ NoPanic' /\ TimerIffInTransit'
  BY <1>1, <1>2, <1>6
     DEF IInv, TypeOK, SimTypeOK, NoPanic, TimerIffInTransit
<1>8. BitsInStep' /\ BufferAhead' /\ NoReplyBeforeDelivery' /\ Kept' /\ BufferHolds'
  <2>1. started' = started /\ confirmed' = confirmed
    BY <1>1
  <2>. HIDE DEF started, confirmed
  <2>. QED
    BY <1>1, <2>1 DEF IInv, BitsInStep, BufferAhead, NoReplyBeforeDelivery,
                      Kept, BufferHolds
<1>9. RoundsInOrder'
  <2>1. seq_A # ack_B => cur_msg_recv > 0
    <3>1. cur_msg_recv = 0 => confirmed = 0
      BY <1>3
    <3>. QED
      BY <1>3, <3>1
  <2>2. ASSUME NEW i \in 1 .. Len(toB'), isValidChecksum(toB'[i])
        PROVE  /\ toB'[i].seqnum \in {0, 1}
               /\ toB'[i].seqnum = ack_B =>
                    inTransit = 1 /\ toB'[i] = currentpkt_A
               /\ toB'[i].seqnum # ack_B => cur_msg_recv > 0
               /\ toB'[i].seqnum = seq_A =>
                    /\ inTransit = 1
                    /\ \A j \in i .. Len(toB') :
                         isValidChecksum(toB'[j]) => toB'[j].seqnum = seq_A
    <3>1. CASE i \in 1 .. Len(toB)
      <4>1. toB'[i] = toB[i]
        BY <1>6, <3>1
      <4>2. /\ toB[i].seqnum \in {0, 1}
            /\ toB[i].seqnum = ack_B => toB[i] = currentpkt_A
            /\ toB[i].seqnum # ack_B => cur_msg_recv > 0
            /\ toB[i].seqnum = seq_A =>
                 \A j \in i .. Len(toB) :
                   isValidChecksum(toB[j]) => toB[j].seqnum = seq_A
        BY <2>2, <3>1, <4>1 DEF IInv, RoundsInOrder
      <4>3. ASSUME toB[i].seqnum = seq_A, NEW j \in i .. Len(toB'),
                   isValidChecksum(toB'[j])
            PROVE  toB'[j].seqnum = seq_A
        <5>1. CASE j \in i .. Len(toB)
          BY <1>5, <1>6, <3>1, <4>2, <4>3, <5>1
        <5>2. CASE j \in Len(toB) + 1 .. Len(toB')
          BY <1>4, <1>6, <4>3, <5>2
        <5>. QED
          BY <1>5, <1>6, <3>1, <5>1, <5>2
      <4>. QED
        BY <1>2, <4>1, <4>2, <4>3
    <3>2. CASE i \in Len(toB) + 1 .. Len(toB')
      <4>1. toB'[i] = currentpkt_A
        BY <1>6, <2>2, <3>2
      <4>2. \A j \in i .. Len(toB') :
              isValidChecksum(toB'[j]) => toB'[j].seqnum = seq_A
        BY <1>4, <1>5, <1>6, <3>2
      <4>. QED
        BY <1>2, <1>3, <1>4, <2>1, <4>1, <4>2
    <3>. QED
      BY <1>5, <1>6, <3>1, <3>2
  <2>. QED
    BY <1>1, <2>2 DEF IInv, RoundsInOrder
<1>. QED
  BY <1>7, <1>8, <1>9 DEF IInv

(* A data packet reaches B.                                                *)
LEMMA B_inputInvariant == IInv /\ B_input => IInv'
<1>. SUFFICES ASSUME IInv, B_input PROVE IInv'
  OBVIOUS
<1>1. /\ UNCHANGED <<nsim, timer, seq_A, inTransit, currentpkt_A, buffer,
                     buffCount>>
      /\ toB # << >> /\ toB' = Tail(toB) /\ toB \in Seq(Pkt)
      /\ toA \in Seq(Pkt) /\ currentpkt_B \in Pkt
  BY DEF B_input, FromLayer3B, IInv, TypeOK, SimTypeOK
<1>2. /\ toB' \in Seq(Pkt)
      /\ Len(toB) >= 1 /\ Head(toB) = toB[1]
      /\ Len(toB') = Len(toB) - 1
      /\ \A i \in 1 .. Len(toB') : toB'[i] = toB[i + 1] /\ i + 1 \in 1 .. Len(toB)
  BY <1>1
<1>3. /\ seq_A \in {0, 1} /\ ack_B \in {0, 1} /\ inTransit \in {0, 1}
      /\ nsim \in Nat /\ Len(buffer) \in Nat /\ buffCount \in Nat
      /\ buffCount <= Len(buffer) /\ Len(buffer) <= nsim
      /\ confirmed \in Nat /\ cur_msg_recv \in Nat
      /\ seq_A = confirmed % 2 /\ ack_B = cur_msg_recv % 2
      /\ confirmed <= cur_msg_recv /\ cur_msg_recv <= confirmed + inTransit
      /\ exitcode = 0
  BY Numbers
<1>4. started' = started /\ confirmed' = confirmed
  BY <1>1
<1>5. started \in Int /\ started = confirmed + inTransit /\ started <= nsim
  BY <1>3
<1>. HIDE DEF started, confirmed
<1>6. /\ TimerIffInTransit' /\ BufferAhead' /\ BufferHolds'
  BY <1>1 DEF IInv, TimerIffInTransit, BufferAhead, BufferHolds
<1>7. ASSUME NEW i \in 1 .. Len(toB'), isValidChecksum(toB'[i])
      PROVE  /\ toB'[i].seqnum \in {0, 1}
             /\ toB'[i].seqnum = ack_B => inTransit = 1 /\ toB'[i] = currentpkt_A
             /\ toB'[i].seqnum # ack_B => cur_msg_recv > 0
             /\ toB'[i].seqnum = seq_A =>
                  /\ inTransit = 1
                  /\ \A j \in i .. Len(toB') :
                       isValidChecksum(toB'[j]) => toB'[j].seqnum = seq_A
  <2>1. /\ toB[i + 1].seqnum \in {0, 1}
        /\ toB[i + 1].seqnum = ack_B => inTransit = 1 /\ toB[i + 1] = currentpkt_A
        /\ toB[i + 1].seqnum # ack_B => cur_msg_recv > 0
        /\ toB[i + 1].seqnum = seq_A =>
             /\ inTransit = 1
             /\ \A j \in i + 1 .. Len(toB) :
                  isValidChecksum(toB[j]) => toB[j].seqnum = seq_A
    BY <1>2, <1>7 DEF IInv, RoundsInOrder
  <2>2. \A j \in i .. Len(toB') : j + 1 \in i + 1 .. Len(toB)
                                  /\ toB'[j] = toB[j + 1]
    BY <1>2
  <2>. QED
    BY <1>2, <2>1, <2>2
<1>8. CASE ~isValidChecksum(Head(toB))
  <2>1. UNCHANGED <<cur_msg_recv, exitcode, toA, ack_B, currentpkt_B>>
    BY <1>8 DEF B_input
  <2>2. TypeOK' /\ NoPanic'
    BY <1>1, <1>2, <2>1 DEF IInv, TypeOK, SimTypeOK, NoPanic
  <2>3. BitsInStep' /\ NoReplyBeforeDelivery' /\ Kept'
    BY <1>1, <1>4, <2>1 DEF IInv, BitsInStep, NoReplyBeforeDelivery, Kept
  <2>4. RoundsInOrder'
    BY <1>1, <1>7, <2>1 DEF IInv, RoundsInOrder
  <2>. QED
    BY <1>6, <2>2, <2>3, <2>4 DEF IInv
<1>9. CASE isValidChecksum(Head(toB))
  <2>1. /\ toA' \in tolayer3(toA, <<currentpkt_B'>>)
        /\ \/ /\ Head(toB).seqnum = ack_B
              /\ tolayer5(<<Head(toB).payload>>)
              /\ currentpkt_B' = AckPkt(ack_B)
              /\ ack_B' = Flip(ack_B)
           \/ /\ Head(toB).seqnum # ack_B
              /\ UNCHANGED <<cur_msg_recv, exitcode, ack_B, currentpkt_B>>
    BY <1>9 DEF B_input
  (* Either way: the reply carries the other bit than the one B expects    *)
  (* next, and B is not ahead of what A sent.                              *)
  <2>2. /\ cur_msg_recv' \in Nat /\ cur_msg_recv' > 0 /\ exitcode' = 0
        /\ ack_B' \in {0, 1} /\ ack_B' = cur_msg_recv' % 2
        /\ confirmed <= cur_msg_recv' /\ cur_msg_recv' <= started
        /\ currentpkt_B' = AckPkt(Flip(ack_B'))
        /\ ack_B' # ack_B =>
             /\ ack_B = seq_A
             /\ \A i \in 1 .. Len(toB') :
                  isValidChecksum(toB'[i]) => toB'[i].seqnum = seq_A
    <3>1. CASE Head(toB).seqnum = ack_B
      <4>1. /\ tolayer5(<<Head(toB).payload>>)
            /\ currentpkt_B' = AckPkt(ack_B)
            /\ ack_B' = Flip(ack_B)
        BY <2>1, <3>1
      <4>2. inTransit = 1 /\ Head(toB) = currentpkt_A
        BY <1>2, <1>9, <3>1 DEF IInv, RoundsInOrder
      <4>3. /\ ack_B = seq_A
            /\ Head(toB).payload = Text(Letter(confirmed))
        BY <3>1, <4>2 DEF IInv, Kept
      <4>4. cur_msg_recv = confirmed
        <5>1. cur_msg_recv = confirmed \/ cur_msg_recv = confirmed + 1
          BY <1>3, <4>2
        <5>2. (confirmed + 1) % 2 # confirmed % 2
          BY <1>3, Parity
        <5>. QED
          BY <1>3, <4>3, <5>1, <5>2
      <4>5. cur_msg_recv < nsim
        BY <1>3, <1>5, <4>2, <4>4
      <4>6. cur_msg_recv' = cur_msg_recv + 1 /\ exitcode' = exitcode
        BY <1>3, <4>1, <4>3, <4>4, <4>5, Delivered
      <4>7. /\ (cur_msg_recv + 1) % 2 = Flip(ack_B)
            /\ Flip(Flip(ack_B)) = ack_B /\ Flip(ack_B) \in {0, 1}
        BY <1>3, Parity DEF Flip
      <4>8. \A i \in 1 .. Len(toB') :
              isValidChecksum(toB'[i]) => toB'[i].seqnum = seq_A
        <5>1. \A j \in 1 .. Len(toB) :
                isValidChecksum(toB[j]) => toB[j].seqnum = seq_A
          BY <1>2, <1>9, <3>1, <4>3 DEF IInv, RoundsInOrder
        <5>. QED
          BY <1>2, <5>1
      <4>. QED
        BY <1>3, <1>5, <4>1, <4>2, <4>3, <4>4, <4>6, <4>7, <4>8
    <3>2. CASE Head(toB).seqnum # ack_B
      <4>1. UNCHANGED <<cur_msg_recv, exitcode, ack_B, currentpkt_B>>
        BY <2>1, <3>2
      <4>2. cur_msg_recv > 0
        BY <1>2, <1>9, <3>2 DEF IInv, RoundsInOrder
      <4>3. currentpkt_B = AckPkt(Flip(ack_B))
        BY <4>2 DEF IInv, Kept
      <4>. QED
        BY <1>3, <1>5, <4>1, <4>2, <4>3
    <3>. QED
      BY <3>1, <3>2
  <2>3. /\ Flip(ack_B') \in {0, 1} /\ Flip(ack_B') \in Int
        /\ Flip(ack_B') # ack_B'
        /\ (Flip(ack_B') = seq_A <=> ack_B' # seq_A)
    <3>1. ack_B' = 0 \/ ack_B' = 1
      BY <2>2
    <3>2. seq_A = 0 \/ seq_A = 1
      BY <1>3
    <3>3. CASE ack_B' = 0
      BY <3>2, <3>3 DEF Flip
    <3>4. CASE ack_B' = 1
      BY <3>2, <3>4 DEF Flip
    <3>. QED
      BY <3>1, <3>3, <3>4
  <2>4. Sealed(currentpkt_B') /\ currentpkt_B'.acknum = Flip(ack_B')
    BY <2>2, <2>3, AckPktSealed
  <2>5. /\ toA' \in Seq(Pkt)
        /\ Len(toA) <= Len(toA')
        /\ \A i \in 1 .. Len(toA) : toA'[i] = toA[i]
        /\ \A i \in Len(toA) + 1 .. Len(toA') :
             isValidChecksum(toA'[i]) => toA'[i] = currentpkt_B'
    BY <1>1, <2>1, <2>4, PacketInFlight
  <2>6. TypeOK'
    BY <1>1, <1>2, <2>2, <2>4, <2>5 DEF IInv, TypeOK, SimTypeOK, Sealed
  <2>7. NoPanic' /\ NoReplyBeforeDelivery' /\ Kept'
    BY <1>1, <1>4, <2>2 DEF IInv, NoPanic, NoReplyBeforeDelivery, Kept
  <2>8. BitsInStep'
    BY <1>1, <1>3, <1>4, <2>2 DEF BitsInStep
  <2>9. RoundsInOrder'
    <3>1. ASSUME NEW i \in 1 .. Len(toB'), isValidChecksum(toB'[i])
          PROVE  /\ toB'[i].seqnum \in {0, 1}
                 /\ toB'[i].seqnum = ack_B' =>
                      inTransit = 1 /\ toB'[i] = currentpkt_A
                 /\ toB'[i].seqnum # ack_B' => cur_msg_recv' > 0
                 /\ toB'[i].seqnum = seq_A =>
                      /\ inTransit = 1
                      /\ \A j \in i .. Len(toB') :
                           isValidChecksum(toB'[j]) => toB'[j].seqnum = seq_A
      <4>1. CASE ack_B' = ack_B
        BY <1>7, <2>2, <3>1, <4>1
      <4>2. CASE ack_B' # ack_B
        <5>1. toB'[i].seqnum = seq_A /\ seq_A # ack_B'
          BY <2>2, <3>1, <4>2
        <5>. QED
          BY <1>7, <2>2, <3>1, <5>1
      <4>. QED
        BY <4>1, <4>2
    <3>2. ASSUME NEW i \in 1 .. Len(toA'), isValidChecksum(toA'[i])
          PROVE  /\ toA'[i].acknum \in {0, 1}
                 /\ toA'[i].acknum = seq_A =>
                      /\ ack_B' # seq_A
                      /\ \A j \in i .. Len(toA') :
                           isValidChecksum(toA'[j]) => toA'[j].acknum = seq_A
      <4>1. CASE i \in 1 .. Len(toA)
        <5>1. toA'[i] = toA[i]
          BY <2>5, <4>1
        <5>2. /\ toA[i].acknum \in {0, 1}
              /\ toA[i].acknum = seq_A =>
                   /\ ack_B # seq_A
                   /\ \A j \in i .. Len(toA) :
                        isValidChecksum(toA[j]) => toA[j].acknum = seq_A
          BY <3>2, <4>1, <5>1 DEF IInv, RoundsInOrder
        <5>3. ASSUME toA[i].acknum = seq_A, NEW j \in i .. Len(toA'),
                     isValidChecksum(toA'[j])
              PROVE  toA'[j].acknum = seq_A
          <6>1. ack_B' = ack_B /\ Flip(ack_B') = seq_A
            BY <2>2, <2>3, <5>2, <5>3
          <6>2. CASE j \in i .. Len(toA)
            BY <1>1, <2>5, <4>1, <5>2, <5>3, <6>2
          <6>3. CASE j \in Len(toA) + 1 .. Len(toA')
            BY <2>4, <2>5, <5>3, <6>1, <6>3
          <6>. QED
            BY <1>1, <2>5, <4>1, <6>2, <6>3
        <5>4. toA[i].acknum = seq_A => ack_B' # seq_A
          BY <2>2, <5>2
        <5>. QED
          BY <5>1, <5>2, <5>3, <5>4
      <4>2. CASE i \in Len(toA) + 1 .. Len(toA')
        <5>1. toA'[i].acknum = Flip(ack_B')
          BY <2>4, <2>5, <3>2, <4>2
        <5>2. \A j \in i .. Len(toA') :
                isValidChecksum(toA'[j]) => toA'[j].acknum = Flip(ack_B')
          BY <1>1, <2>4, <2>5, <4>2
        <5>. QED
          BY <2>3, <5>1, <5>2
      <4>. QED
        BY <1>1, <2>5, <4>1, <4>2
    <3>. QED
      BY <1>1, <3>1, <3>2 DEF RoundsInOrder
  <2>. QED
    BY <1>6, <2>6, <2>7, <2>8, <2>9 DEF IInv
<1>. QED
  BY <1>8, <1>9

LEMMA NextInvariant == IInv /\ [Next]_vars => IInv'
<1>. SUFFICES ASSUME IInv, [Next]_vars PROVE IInv'
  OBVIOUS
<1>1. CASE A_output
  BY <1>1, A_outputInvariant
<1>2. CASE A_input
  BY <1>2, A_inputInvariant
<1>3. CASE A_timerinterrupt
  BY <1>3, A_timerinterruptInvariant
<1>4. CASE B_input
  BY <1>4, B_inputInvariant
<1>5. CASE UNCHANGED vars
  BY <1>5 DEF vars, simvars, IInv, TypeOK, SimTypeOK, NoPanic,
              TimerIffInTransit, BitsInStep, BufferAhead,
              NoReplyBeforeDelivery, Kept, BufferHolds, RoundsInOrder
<1>. QED
  BY <1>1, <1>2, <1>3, <1>4, <1>5 DEF Next

-----------------------------------------------------------------------------

(* The inductive invariant holds in every reachable state.                 *)
THEOREM Invariance == Spec => []IInv
<1>. QED
  BY InitInvariant, NextInvariant, PTL DEF Spec

(* Every variable of abt.cpp keeps its type.                               *)
THEOREM TypeCorrect == Spec => []TypeOK
<1>1. IInv => TypeOK
  BY DEF IInv
<1>. QED
  BY <1>1, Invariance, PTL

(* No run of the alternating-bit protocol makes layer 5 panic: one bit is  *)
(* enough for delivery once, in order and undamaged, over a medium that    *)
(* loses and damages but does not reorder (simulator.cpp:553-562, 594-609).*)
THEOREM NoPanicEver == Spec => []NoPanic
<1>1. IInv => NoPanic
  BY DEF IInv
<1>. QED
  BY <1>1, Invariance, PTL

(* The timer runs exactly while a packet is in transit.                    *)
THEOREM TimerAlwaysExact == Spec => []TimerIffInTransit
<1>1. IInv => TimerIffInTransit
  BY DEF IInv
<1>. QED
  BY <1>1, Invariance, PTL

(* A's and B's bits stay in step with what each side did.                  *)
THEOREM BitsAlwaysInStep == Spec => []BitsInStep
<1>1. IInv => BitsInStep
  BY DEF IInv
<1>. QED
  BY <1>1, Invariance, PTL

(* No message is read from the buffer before it was written.               *)
THEOREM OnlyWrittenIsRead == Spec => []BufferAhead
<1>1. IInv => BufferAhead
  BY DEF IInv
<1>. QED
  BY <1>1, Invariance, PTL

(* B repeats no answer before it has given one: its half-set packet is     *)
(* never sent.                                                             *)
THEOREM NothingUnsetIsSent == Spec => []NoReplyBeforeDelivery
<1>1. IInv => NoReplyBeforeDelivery
  BY DEF IInv
<1>. QED
  BY <1>1, Invariance, PTL

(* The alternating-bit protocol implements the reliable transfer layer 5   *)
(* relies on.                                                              *)
THEOREM Refinement == Spec => ImplementsReliableTransfer
<1>1. Init => RT!Init
  <2>. SUFFICES ASSUME Init PROVE RT!Init
    OBVIOUS
  <2>1. /\ nsim = 0 /\ cur_msg_recv = 0 /\ exitcode = 0 /\ inTransit = 0
        /\ buffer = << >> /\ buffCount = 0
    BY DEF Init, SimInit
  <2>2. confirmed = 0
    <3>1. nsim = 0 /\ Len(buffer) = 0 /\ buffCount = 0 /\ inTransit = 0
      BY <2>1
    <3>. QED
      BY <3>1
  <2>. HIDE DEF confirmed, started
  <2>. QED
    BY <2>1, <2>2 DEF RT!Init
<1>2. IInv /\ IInv' /\ [Next]_vars => [RT!Next]_RT!rtvars
  <2>. SUFFICES ASSUME IInv, IInv', [Next]_vars
                PROVE  RT!Next \/ UNCHANGED RT!rtvars
    OBVIOUS
  <2>. USE DEF RT!rtvars
  <2>1. /\ exitcode = 0 /\ exitcode' = 0
        /\ nsim \in Nat /\ cur_msg_recv \in Nat /\ confirmed \in Nat
        /\ Len(buffer) \in Nat /\ buffCount \in Nat /\ inTransit \in {0, 1}
        /\ Len(buffer) <= nsim /\ buffCount <= Len(buffer)
    <3>1. exitcode' = 0
      BY DEF IInv, NoPanic
    <3>. QED
      BY <3>1, Numbers
  <2>2. confirmed' <= cur_msg_recv' /\ cur_msg_recv' <= started'
        /\ started' <= nsim' /\ cur_msg_recv' \in Nat /\ nsim' \in Nat
    <3>1. BitsInStep' /\ BufferHolds' /\ TypeOK'
      BY DEF IInv
    <3>2. /\ Len(buffer') \in Nat /\ buffCount' \in Nat
          /\ buffCount' <= Len(buffer') /\ nsim' \in Nat
          /\ cur_msg_recv' \in Nat
      BY <3>1, nsimmaxAssumption DEF BufferHolds, TypeOK, SimTypeOK
    <3>3. confirmed' \in Nat /\ confirmed' <= cur_msg_recv'
          /\ cur_msg_recv' <= started'
      BY <3>1, <3>2 DEF BitsInStep
    <3>. QED
      BY <3>2, <3>3
  <2>3. CASE A_output
    <3>1. nsim' = nsim + 1 /\ UNCHANGED <<cur_msg_recv, exitcode>>
      BY <2>3 DEF A_output, FromLayer5
    <3>2. confirmed' = confirmed
      <4>. DEFINE message == Text(Letter(nsim))
      <4>1. buffer' = Append(buffer, message) => Len(buffer') = Len(buffer) + 1
        <5>1. buffer \in Seq(Payload)
          BY DEF IInv, TypeOK
        <5>2. message \in Payload
          BY <2>1, LetterRange
        <5>. QED
          BY <5>1, <5>2
      <4>2. CASE inTransit = 0 /\ inTransit' = 1
                 /\ buffer' = Append(buffer, message)
                 /\ buffCount' = buffCount + 1
        BY <2>1, <3>1, <4>1, <4>2
      <4>3. CASE inTransit = 0 /\ inTransit' = 1 /\ UNCHANGED <<buffer, buffCount>>
        BY <2>1, <3>1, <4>3
      <4>4. CASE inTransit = 1 /\ buffer' = Append(buffer, message)
                 /\ UNCHANGED <<inTransit, buffCount>>
        BY <2>1, <3>1, <4>1, <4>4
      <4>. QED
        BY <2>3, <4>2, <4>3, <4>4 DEF A_output, Transmit
    <3>3. RT!Accept
      BY <2>1, <3>1, <3>2 DEF RT!Accept
    <3>. QED
      BY <3>3 DEF RT!Next
  <2>4. CASE A_input
    <3>1. UNCHANGED <<nsim, cur_msg_recv, buffer, buffCount>>
      BY <2>4 DEF A_input
    <3>2. CASE inTransit = 1 /\ inTransit' = 0
      <4>1. confirmed' = confirmed + 1
        BY <2>1, <3>1, <3>2
      <4>2. confirmed' \in confirmed + 1 .. cur_msg_recv
        BY <2>1, <2>2, <3>1, <4>1
      <4>. HIDE DEF confirmed, started
      <4>3. RT!Confirm
        BY <2>1, <3>1, <4>2 DEF RT!Confirm
      <4>. QED
        BY <4>3 DEF RT!Next
    <3>3. CASE inTransit' = inTransit
      BY <2>1, <3>1, <3>3
    <3>. QED
      BY <2>4, <3>2, <3>3 DEF A_input
  <2>5. CASE A_timerinterrupt
    BY <2>1, <2>5 DEF A_timerinterrupt
  <2>6. CASE B_input
    <3>1. UNCHANGED <<nsim, buffer, buffCount, inTransit>>
      BY <2>6 DEF B_input
    <3>2. confirmed' = confirmed
      BY <3>1
    <3>3. cur_msg_recv' = cur_msg_recv \/ cur_msg_recv' = cur_msg_recv + 1
      <4>1. cur_msg_recv' = cur_msg_recv \/ tolayer5(<<Head(toB).payload>>)
        BY <2>6 DEF B_input
      <4>. QED
        BY <2>1, <4>1, Counted
    <3>. HIDE DEF confirmed, started
    <3>4. CASE cur_msg_recv' = cur_msg_recv
      BY <2>1, <3>1, <3>2, <3>4
    <3>5. CASE cur_msg_recv' = cur_msg_recv + 1
      <4>1. cur_msg_recv' <= nsim
        <5>1. started' \in Int
          BY <2>1, <3>1 DEF started
        <5>. QED
          BY <2>2, <3>1, <5>1
      <4>2. cur_msg_recv' \in cur_msg_recv + 1 .. nsim
        BY <2>1, <3>5, <4>1
      <4>3. RT!Deliver
        BY <2>1, <3>1, <3>2, <4>2 DEF RT!Deliver
      <4>. QED
        BY <4>3 DEF RT!Next
    <3>. QED
      BY <3>3, <3>4, <3>5
  <2>7. CASE UNCHANGED vars
    BY <2>7 DEF vars, simvars
  <2>. QED
    BY <2>3, <2>4, <2>5, <2>6, <2>7 DEF Next
<1>. QED
  BY <1>1, <1>2, Invariance, PTL DEF Spec, RT!Spec, ImplementsReliableTransfer
=============================================================================
