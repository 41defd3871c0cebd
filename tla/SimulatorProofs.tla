-------------------------- MODULE SimulatorProofs --------------------------
(***************************************************************************)
(* What the medium and the checksum do, and the calls a protocol makes     *)
(* into simulator.cpp, as lemmas for the proofs about the protocols.       *)
(***************************************************************************)
EXTENDS Simulator, TLAPS

-----------------------------------------------------------------------------
(* The checksum and the medium *)


(* A packet whose two header numbers and whose letters are ones a sender   *)
(* uses, and whose checksum was set: what tolayer3 is handed.              *)
Sealed(p) ==
  /\ p \in Pkt
  /\ isValidChecksum(p)
  /\ p.seqnum < CorruptNumber
  /\ p.payload.first # CorruptByte

(* The letters of layer 5 are lower-case letters, never the byte the       *)
(* medium writes over a damaged payload (simulator.cpp:337-339, 570).      *)
LEMMA LetterRange ==
  ASSUME NEW k \in Nat
  PROVE  /\ Letter(k) \in 97 .. 122 /\ Letter(k) # 0
         /\ Text(Letter(k)) \in Payload
         /\ Text(Letter(k)).first # CorruptByte
<1>1. k % 26 \in 0 .. 25
  OBVIOUS
<1>2. Letter(k) \in 97 .. 122
  BY <1>1 DEF Letter
<1>. QED
  BY <1>2 DEF Text, Payload, CorruptByte

(* setChecksum makes a packet valid and touches no other field             *)
(* (abt.cpp:48-55).                                                        *)
LEMMA SetChecksumValid ==
  ASSUME NEW p \in Pkt
  PROVE  /\ setChecksum(p) \in Pkt
         /\ isValidChecksum(setChecksum(p))
         /\ setChecksum(p).seqnum = p.seqnum
         /\ setChecksum(p).acknum = p.acknum
         /\ setChecksum(p).payload = p.payload
<1>1. getChecksum(p) \in Int
  BY DEF getChecksum, Pkt, Payload
<1>2. setChecksum(p) = [seqnum |-> p.seqnum, acknum |-> p.acknum,
                        checksum |-> getChecksum(p), payload |-> p.payload]
  BY DEF setChecksum, Pkt
<1>. QED
  BY <1>1, <1>2 DEF isValidChecksum, getChecksum, Pkt

(* The acknowledgement for n is a sealed packet (gbn.cpp:150-155).         *)
LEMMA AckPktSealed ==
  ASSUME NEW n \in Int
  PROVE  Sealed(AckPkt(n)) /\ AckPkt(n).acknum = n
<1>. DEFINE p == [seqnum |-> 0, acknum |-> n, checksum |-> 0,
                  payload |-> EmptyText]
<1>1. p \in Pkt
  BY DEF Pkt, Payload, EmptyText, Text
<1>. QED
  BY <1>1, SetChecksumValid
     DEF AckPkt, Sealed, CorruptNumber, CorruptByte, EmptyText, Text

(* Whatever the medium does to a sealed packet, the receiver sees the      *)
(* packet itself or one whose checksum does not match: no damage goes      *)
(* unnoticed, and none is mistaken for another packet.                     *)
LEMMA DamageDetected ==
  ASSUME NEW p, Sealed(p), NEW how \in Fates,
         isValidChecksum(Damage(p, how))
  PROVE  Damage(p, how) = p
<1>. USE DEF Sealed
<1>1. how \in {"payload", "seqnum", "acknum", "intact"}
  BY CorruptKindsAssumption DEF Fates
<1>2. p.seqnum \in Int /\ p.acknum \in Int /\ p.checksum \in Int
      /\ p.payload.first \in Int /\ p.payload.rest \in Int
  BY DEF Pkt, Payload
<1>3. p = [seqnum |-> p.seqnum, acknum |-> p.acknum,
           checksum |-> p.checksum, payload |-> p.payload]
  BY DEF Pkt
<1>4. CASE how = "payload"
  <2>1. Damage(p, how) =
          [seqnum |-> p.seqnum, acknum |-> p.acknum, checksum |-> p.checksum,
           payload |-> [first |-> CorruptByte, rest |-> p.payload.rest]]
    BY <1>3, <1>4 DEF Damage, Pkt, Payload
  <2>2. p.payload.first < CorruptByte \/ p.payload.first > CorruptByte
    BY <1>2 DEF CorruptByte
  <2>. QED
    BY <1>2, <2>1, <2>2 DEF isValidChecksum, getChecksum, CorruptByte
<1>5. CASE how = "seqnum"
  <2>1. Damage(p, how) = [p EXCEPT !.seqnum = CorruptNumber]
    BY <1>5 DEF Damage
  <2>. QED
    BY <1>2, <1>3, <2>1 DEF isValidChecksum, getChecksum, CorruptNumber
<1>6. CASE how = "acknum"
  <2>1. Damage(p, how) = [p EXCEPT !.acknum = CorruptNumber]
    BY <1>6 DEF Damage
  <2>. QED
    BY <1>2, <1>3, <2>1 DEF isValidChecksum, getChecksum, CorruptNumber
<1>7. CASE how = "intact"
  BY <1>7 DEF Damage
<1>. QED
  BY <1>1, <1>4, <1>5, <1>6, <1>7

(* Damage keeps the shape of a packet.                                     *)
LEMMA DamageType ==
  ASSUME NEW p \in Pkt, NEW how \in Fates
  PROVE  Damage(p, how) \in Pkt
<1>1. how \in {"payload", "seqnum", "acknum", "intact"}
  BY CorruptKindsAssumption DEF Fates
<1>. QED
  BY <1>1 DEF Damage, Pkt, Payload, CorruptByte, CorruptNumber

(* What comes out of the medium when the packets s go in: no more packets, *)
(* each of them one of s, whole or damaged.                                *)
LEMMA CarriedFrom ==
  ASSUME NEW s \in Seq(Pkt), NEW r \in Carried(s)
  PROVE  /\ r \in Seq(Pkt)
         /\ Len(r) <= Len(s)
         /\ \A i \in 1 .. Len(r) :
              \E j \in 1 .. Len(s), how \in Fates : r[i] = Damage(s[j], how)
<1>. DEFINE Outcomes(m) == { [i \in 1 .. m |-> Damage(s[f[i]], d[i])] :
                  f \in Survivors(Len(s), m), d \in [1 .. m -> Fates] }
<1>0. PICK m \in 0 .. Len(s) : r \in Outcomes(m)
  <2>1. Carried(s) = UNION {Outcomes(m) : m \in 0 .. Len(s)}
    BY DEF Carried
  <2>. HIDE DEF Outcomes
  <2>. QED
    BY <2>1
<1>1. PICK f \in Survivors(Len(s), m), d \in [1 .. m -> Fates] :
        r = [i \in 1 .. m |-> Damage(s[f[i]], d[i])]
  BY <1>0
<1>2. f \in [1 .. m -> 1 .. Len(s)]
  BY DEF Survivors
<1>3. \A i \in 1 .. m : f[i] \in 1 .. Len(s) /\ d[i] \in Fates
                        /\ s[f[i]] \in Pkt
  BY <1>2
<1>4. \A i \in 1 .. m : r[i] \in Pkt
  BY <1>1, <1>3, DamageType
<1>5. r \in Seq(Pkt) /\ Len(r) = m
  BY <1>1, <1>4
<1>. QED
  BY <1>1, <1>3, <1>5

(* A single packet handed to the medium is lost or arrives, whole or       *)
(* damaged.                                                                *)
LEMMA CarriedOne ==
  ASSUME NEW p \in Pkt, NEW r \in Carried(<<p>>)
  PROVE  \/ r = << >>
         \/ \E how \in Fates : r = <<Damage(p, how)>>
<1>1. <<p>> \in Seq(Pkt) /\ Len(<<p>>) = 1
  OBVIOUS
<1>2. /\ r \in Seq(Pkt) /\ Len(r) <= 1
      /\ \A i \in 1 .. Len(r) : \E how \in Fates : r[i] = Damage(p, how)
  <2>. DEFINE s == <<p>>
  <2>1. s \in Seq(Pkt) /\ Len(s) = 1 /\ s[1] = p /\ r \in Carried(s)
    BY <1>1
  <2>. HIDE DEF s
  <2>2. /\ r \in Seq(Pkt)
        /\ Len(r) <= Len(s)
        /\ \A i \in 1 .. Len(r) :
             \E j \in 1 .. Len(s), how \in Fates : r[i] = Damage(s[j], how)
    BY <2>1, CarriedFrom
  <2>. QED
    BY <2>1, <2>2
<1>3. CASE Len(r) = 0
  BY <1>2, <1>3
<1>4. CASE Len(r) = 1
  <2>1. r = <<r[1]>>
    BY <1>2, <1>4
  <2>. QED
    BY <1>2, <1>4, <2>1
<1>. QED
  BY <1>2, <1>3, <1>4

-----------------------------------------------------------------------------
(* Calls into the simulator *)


(* tolayer3 leaves the packets under way alone and appends only packets of *)
(* the burst, each whole or visibly damaged (simulator.cpp:511-582).       *)
LEMMA BurstInFlight ==
  ASSUME NEW q \in Seq(Pkt), NEW s \in Seq(Pkt), NEW qq \in tolayer3(q, s),
         \A j \in 1 .. Len(s) : Sealed(s[j])
  PROVE  /\ qq \in Seq(Pkt)
         /\ Len(q) <= Len(qq) /\ Len(qq) <= Len(q) + Len(s)
         /\ \A i \in 1 .. Len(q) : qq[i] = q[i]
         /\ \A i \in Len(q) + 1 .. Len(qq) : isValidChecksum(qq[i]) =>
              \E j \in 1 .. Len(s) : qq[i] = s[j]
<1>1. PICK r \in Carried(s) : qq = q \o r
  BY DEF tolayer3
<1>2. /\ r \in Seq(Pkt)
      /\ Len(r) <= Len(s)
      /\ \A i \in 1 .. Len(r) :
           \E j \in 1 .. Len(s), how \in Fates : r[i] = Damage(s[j], how)
  BY CarriedFrom
<1>3. /\ qq \in Seq(Pkt)
      /\ Len(qq) = Len(q) + Len(r)
      /\ \A i \in 1 .. Len(q) : qq[i] = q[i]
      /\ \A i \in Len(q) + 1 .. Len(qq) : qq[i] = r[i - Len(q)]
  BY <1>1, <1>2
<1>4. ASSUME NEW i \in Len(q) + 1 .. Len(qq), isValidChecksum(qq[i])
      PROVE  \E j \in 1 .. Len(s) : qq[i] = s[j]
  <2>1. i - Len(q) \in 1 .. Len(r)
    BY <1>2, <1>3
  <2>2. PICK j \in 1 .. Len(s), how \in Fates : qq[i] = Damage(s[j], how)
    BY <1>2, <1>3, <2>1
  <2>3. qq[i] = s[j]
    BY <1>4, <2>2, DamageDetected
  <2>. QED
    BY <2>3
<1>. QED
  BY <1>2, <1>3, <1>4

(* The same for a single packet.                                           *)
LEMMA PacketInFlight ==
  ASSUME NEW q \in Seq(Pkt), NEW p, Sealed(p), NEW qq \in tolayer3(q, <<p>>)
  PROVE  /\ qq \in Seq(Pkt)
         /\ Len(q) <= Len(qq) /\ Len(qq) <= Len(q) + 1
         /\ \A i \in 1 .. Len(q) : qq[i] = q[i]
         /\ \A i \in Len(q) + 1 .. Len(qq) : isValidChecksum(qq[i]) => qq[i] = p
<1>. DEFINE s == <<p>>
<1>1. s \in Seq(Pkt) /\ Len(s) = 1 /\ s[1] = p /\ qq \in tolayer3(q, s)
  BY DEF Sealed
<1>2. \A j \in 1 .. Len(s) : Sealed(s[j])
  BY <1>1
<1>. HIDE DEF s
<1>3. /\ qq \in Seq(Pkt)
      /\ Len(q) <= Len(qq) /\ Len(qq) <= Len(q) + Len(s)
      /\ \A i \in 1 .. Len(q) : qq[i] = q[i]
      /\ \A i \in Len(q) + 1 .. Len(qq) : isValidChecksum(qq[i]) =>
           \E j \in 1 .. Len(s) : qq[i] = s[j]
  BY <1>1, <1>2, BurstInFlight
<1>. QED
  BY <1>1, <1>3

(* tolayer5 accepts the message layer 5 at B waits for                     *)
(* (simulator.cpp:594-617).                                                *)
LEMMA Delivered ==
  ASSUME NEW d, cur_msg_recv \in Nat, nsim \in Nat, cur_msg_recv < nsim,
         d = Text(Letter(cur_msg_recv)), tolayer5(<<d>>)
  PROVE  cur_msg_recv' = cur_msg_recv + 1 /\ exitcode' = exitcode
<1>1. ApplicationMsg(cur_msg_recv) = Letter(cur_msg_recv)
  BY DEF ApplicationMsg
<1>2. Letter(cur_msg_recv) # 0
  BY LetterRange
<1>3. Len(<<d>>) = 1 /\ <<d>>[1] = d /\ cur_msg_recv + 1 - 1 = cur_msg_recv
  OBVIOUS
<1>4. Verdict(<<d>>, 1) = 0
  BY <1>1, <1>2, <1>3 DEF Verdict
<1>5. {j \in 1 .. Len(<<d>>) : Verdict(<<d>>, j) # 0} = {}
  BY <1>3, <1>4
<1>. QED
  BY <1>3, <1>5 DEF tolayer5

(* If layer 5 did not make the process exit, it counted the message        *)
(* (simulator.cpp:594-617).                                                *)
LEMMA Counted ==
  ASSUME NEW d, tolayer5(<<d>>), exitcode' = 0
  PROVE  cur_msg_recv' = cur_msg_recv + 1
<1>. DEFINE bad == {j \in 1 .. Len(<<d>>) : Verdict(<<d>>, j) # 0}
<1>1. bad = {}
  BY DEF tolayer5
<1>. QED
  BY <1>1 DEF tolayer5

(* Layer 5 accepts a run of the messages it waits for, one after the       *)
(* other.                                                                  *)
LEMMA DeliveredAll ==
  ASSUME NEW n \in Nat, cur_msg_recv \in Nat, nsim \in Nat,
         cur_msg_recv + n <= nsim,
         tolayer5([j \in 1 .. n |-> Text(Letter(cur_msg_recv + j - 1))])
  PROVE  cur_msg_recv' = cur_msg_recv + n /\ exitcode' = exitcode
<1>. DEFINE ds == [j \in 1 .. n |-> Text(Letter(cur_msg_recv + j - 1))]
<1>1. Len(ds) = n
  OBVIOUS
<1>2. ASSUME NEW j \in 1 .. n PROVE Verdict(ds, j) = 0
  <2>. DEFINE k == cur_msg_recv + j - 1
  <2>1. k \in Nat /\ k < nsim
    OBVIOUS
  <2>2. ds[j] = Text(Letter(k))
    OBVIOUS
  <2>. HIDE DEF ds, k
  <2>3. ApplicationMsg(k) = Letter(k)
    BY <2>1 DEF ApplicationMsg
  <2>4. Letter(k) # 0
    BY <2>1, LetterRange
  <2>. QED
    BY <2>2, <2>3, <2>4 DEF Verdict, k
<1>3. {j \in 1 .. Len(ds) : Verdict(ds, j) # 0} = {}
  BY <1>1, <1>2
<1>4. tolayer5(ds)
  OBVIOUS
<1>. HIDE DEF ds
<1>. QED
  BY <1>1, <1>3, <1>4 DEF tolayer5
=============================================================================
