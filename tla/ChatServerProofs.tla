-------------------------- MODULE ChatServerProofs --------------------------
(***************************************************************************)
(* Proofs about ChatServer, for any number of clients up to the length of  *)
(* a block list and any number of entries.                                 *)
(***************************************************************************)
EXTENDS ChatServer, FiniteSetTheorems, WellFoundedInduction, TLAPS

-----------------------------------------------------------------------------
(* Descriptors, entries and lists *)

LEMMA FirstIn ==
  ASSUME NEW S, S \subseteq Nat, S # {}
  PROVE  First(S) \in S /\ \A j \in S : First(S) <= j
<1>1. PICK i \in S : \A j \in S : ~(<<j, i>> \in OpToRel(<, Nat))
  BY WFMin, NatLessThanWellFounded
<1>2. ASSUME NEW j \in S PROVE i <= j
  <2>1. ~(j < i)
    BY <1>1 DEF OpToRel
  <2> QED
    BY <2>1
<1> QED
  BY <1>2 DEF First

LEMMA SlotsType == Slots \subseteq Nat
BY DEF Slots

LEMMA HowMany == Cardinality(Clients) \in Nat
BY ChatAssumption, FS_CardinalityType

(* accept finds a descriptor: each of the other clients has at most one. *)
LEMMA FreeDescriptor ==
  ASSUME ServerTypeOK, NEW c \in Clients, fd[c] = 0
  PROVE  LET free == (1 .. Cardinality(Clients)) \ {fd[d] : d \in Clients}
         IN  First(free) \in free
<1> DEFINE n == Cardinality(Clients)
           S == 1 .. n
           T == Clients \ {c}
           free == S \ {fd[d] : d \in Clients}
<1>1. n \in Nat
  BY HowMany
<1> HIDE DEF n
<1>2. free # {}
  <2> SUFFICES ASSUME free = {} PROVE FALSE
    OBVIOUS
  <2>1. \A s \in S : \E d \in T : fd[d] = s
    <3> SUFFICES ASSUME NEW s \in S PROVE \E d \in T : fd[d] = s
      OBVIOUS
    <3>1. PICK d \in Clients : fd[d] = s
      OBVIOUS
    <3>2. d # c
      BY <1>1, <3>1
    <3> QED
      BY <3>1, <3>2
  <2> DEFINE owner == [s \in S |-> CHOOSE d \in T : fd[d] = s]
  <2>2. \A s \in S : owner[s] \in T /\ fd[owner[s]] = s
    BY <2>1
  <2>3. owner \in [S -> T]
    BY <2>2
  <2>4. IsFiniteSet(S) /\ Cardinality(S) = n
    BY <1>1, FS_Interval
  <2>5. IsFiniteSet(T) /\ Cardinality(T) = n - 1
    BY ChatAssumption, FS_RemoveElement DEF n
  <2>6. Cardinality(T) < Cardinality(S)
    BY <1>1, <2>4, <2>5
  <2> HIDE DEF owner, S, T
  <2>7. PICK x \in S, y \in S : x # y /\ owner[x] = owner[y]
    BY <2>3, <2>4, <2>5, <2>6, FS_PigeonHole
  <2> QED
    BY <2>2, <2>7
<1>3. free \subseteq Nat
  BY <1>1
<1> HIDE DEF free
<1>4. First(free) \in free
  BY <1>2, <1>3, FirstIn
<1> QED
  BY <1>4 DEF free, n

(* What a set of entries counts. *)
LEMMA SlotCount ==
  ASSUME NEW S \in SUBSET Slots
  PROVE  Cardinality(S) \in Nat /\ (S = {} => Cardinality(S) = 0)
<1>1. IsFiniteSet(Slots)
  BY ChatAssumption, FS_Interval DEF Slots
<1> QED
  BY <1>1, FS_Subset, FS_CardinalityType, FS_EmptySet

(* As many copies of one message. *)
LEMMA Repeated ==
  ASSUME NEW n \in Nat, NEW m \in Message
  PROVE  /\ [k \in 1 .. n |-> m] \in Seq(Message)
         /\ Len([k \in 1 .. n |-> m]) = n
         /\ \A k \in DOMAIN [k \in 1 .. n |-> m] : [k1 \in 1 .. n |-> m][k] = m
  OBVIOUS

(* The sender a message is given is its client's IP, or nobody's. *)
LEMMA HostSent ==
  ASSUME ServerOK, NEW c \in Clients, fd[c] # 0
  PROVE  /\ HostIP(c) \in Clients \cup {Garbage}
         /\ ~wasReset => HostIP(c) \in {c, Garbage}
<1>1. CASE Mine(c) = {}
  BY <1>1 DEF HostIP
<1>2. CASE Mine(c) # {}
  <2>1. First(Mine(c)) \in Mine(c)
    BY <1>2, SlotsType, FirstIn DEF Mine
  <2>2. PICK i \in Slots : i = First(Mine(c)) /\ allClients[i].socket = fd[c]
    BY <2>1 DEF Mine
  <2>3. HostIP(c) = allClients[i].IP
    BY <1>2, <2>2 DEF HostIP
  <2>4. allClients[i].IP \in Clients
    BY <2>2 DEF ServerOK, OneDescriptorEach
  <2>5. ~wasReset => allClients[i].IP = c
    <3> SUFFICES ASSUME ~wasReset PROVE allClients[i].IP = c
      OBVIOUS
    <3>1. PICK d \in Clients : allClients[i].socket = fd[d] /\ allClients[i].IP = d
      BY <2>2 DEF ServerOK, EntriesAreOpen
    <3> QED
      BY <2>2, <3>1 DEF ServerOK, OneDescriptorEach
  <2> QED
    BY <2>3, <2>4, <2>5
<1> QED
  BY <1>1, <1>2

(* Under its own sender's name. *)
IsNamed(m) == m.from \in {m.by, Garbage}

LEMMA ReplyNamed ==
  ASSUME NEW type \in Types, NEW c \in Clients, NEW ips \in SUBSET Clients
  PROVE  /\ Reply(type, c, ips) \in Message /\ IsNamed(Reply(type, c, ips))
         /\ Reply(type, c, ips).type = type
BY DEF Reply, Msg, Message, IsNamed

LEMMA RelayedNamed ==
  ASSUME ServerOK, NEW type \in Types, NEW c \in Clients, fd[c] # 0
  PROVE  /\ Relayed(type, c) \in Message
         /\ ~wasReset => IsNamed(Relayed(type, c))
         /\ Relayed(type, c).type = type /\ Relayed(type, c).from = HostIP(c)
BY HostSent DEF Relayed, Msg, Message, IsNamed

(* The list of the clients online. *)
LEMMA ListType ==
  ASSUME NEW table \in [Slots -> Entry],
         \A i \in Slots : table[i].socket # 0 => table[i].IP \in Clients
  PROVE  ListOf(table) \in SUBSET Clients
BY DEF ListOf

-----------------------------------------------------------------------------
(* What writing and what a change of the table keep *)

LEMMA Joined ==
  ASSUME NEW s \in Seq(Message), NEW t \in Seq(Message)
  PROVE  /\ s \o t \in Seq(Message) /\ Len(s \o t) = Len(s) + Len(t)
         /\ \A k \in DOMAIN s : (s \o t)[k] = s[k]
         /\ \A k \in DOMAIN t : (s \o t)[Len(s) + k] = t[k]
         /\ \A k \in DOMAIN (s \o t) : k \in DOMAIN s \/ (k - Len(s) \in DOMAIN t)
         /\ \A k \in DOMAIN (s \o t) : (s \o t)[k] = IF k \in DOMAIN s THEN s[k] ELSE t[k - Len(s)]
  OBVIOUS

LEMMA WriteKeeps ==
  ASSUME ServerOK, NEW ms \in [Clients -> Seq(Message)], Write(ms),
         \A d \in Clients : \A k \in DOMAIN ms[d] : ~wasReset => IsNamed(ms[d][k])
  PROVE  /\ up' \in BOOLEAN /\ toClient' \in [Clients -> Seq(Message)]
         /\ \A d \in Clients : \A k \in DOMAIN toClient'[d] :
              ~wasReset => IsNamed(toClient'[d][k])
<1>1. up' \in BOOLEAN
  BY DEF Write
<1>2. toClient \in [Clients -> Seq(Message)]
  BY DEF ServerOK, ServerTypeOK
<1>3. toClient' = [d \in Clients |-> IF phase[d] = "gone" THEN << >> ELSE toClient[d] \o ms[d]]
  BY DEF Write
<1>4. ASSUME NEW d \in Clients
      PROVE  /\ toClient'[d] \in Seq(Message)
             /\ \A k \in DOMAIN toClient'[d] : ~wasReset => IsNamed(toClient'[d][k])
  <2>1. CASE phase[d] = "gone"
    <3>1. toClient'[d] = << >>
      BY <1>3, <2>1
    <3> QED
      BY <3>1
  <2>2. CASE phase[d] # "gone"
    <3>1. PICK s \in Seq(Message), t \in Seq(Message) : s = toClient[d] /\ t = ms[d]
      BY <1>2
    <3>2. toClient'[d] = s \o t
      BY <1>3, <2>2, <3>1
    <3>3. \A k \in DOMAIN s : ~wasReset => IsNamed(s[k])
      BY <3>1 DEF ServerOK, NamedSenderSent, IsNamed
    <3>4. \A k \in DOMAIN t : ~wasReset => IsNamed(t[k])
      BY <3>1
    <3>5. ASSUME NEW k \in DOMAIN (s \o t), ~wasReset PROVE IsNamed((s \o t)[k])
      <4>1. CASE k \in DOMAIN s
        BY <3>3, <3>5, <4>1, Joined
      <4>2. CASE k \notin DOMAIN s
        <5>1. k - Len(s) \in DOMAIN t /\ (s \o t)[k] = t[k - Len(s)]
          BY <4>2, Joined
        <5> QED
          BY <3>4, <3>5, <5>1
      <4> QED
        BY <4>1, <4>2
    <3>6. s \o t \in Seq(Message)
      BY Joined
    <3> QED
      BY <3>2, <3>5, <3>6
  <2> QED
    BY <2>1, <2>2
<1>5. toClient' \in [Clients -> Seq(Message)]
  BY <1>3, <1>4
<1> QED
  BY <1>1, <1>4, <1>5

(* What a client is written last. *)
LEMMA WrittenLast ==
  ASSUME ServerOK, NEW ms \in [Clients -> Seq(Message)], Write(ms),
         NEW d \in Clients, Len(toClient'[d]) > Len(toClient[d])
  PROVE  /\ Len(ms[d]) \in DOMAIN ms[d]
         /\ toClient'[d][Len(toClient'[d])] = ms[d][Len(ms[d])]
<1>1. PICK s \in Seq(Message), t \in Seq(Message) : s = toClient[d] /\ t = ms[d]
  BY DEF ServerOK, ServerTypeOK
<1>2. toClient'[d] = << >> \/ toClient'[d] = s \o t
  BY <1>1 DEF Write
<1>3. Len(<< >>) = 0 /\ Len(s) \in Nat /\ Len(t) \in Nat
  OBVIOUS
<1>4. toClient'[d] = s \o t
  BY <1>1, <1>2, <1>3
<1>5. Len(s \o t) = Len(s) + Len(t) /\ \A k \in DOMAIN t : (s \o t)[Len(s) + k] = t[k]
  BY Joined
<1>6. Len(t) \in DOMAIN t
  BY <1>1, <1>3, <1>4, <1>5
<1> QED
  BY <1>1, <1>4, <1>5, <1>6

(* One message for each of these entries. *)
LEMMA CopiesType ==
  ASSUME NEW S \in SUBSET Slots, NEW m \in Message
  PROVE  /\ Copies(S, m) \in [Clients -> Seq(Message)]
         /\ \A d \in Clients : \A k \in DOMAIN Copies(S, m)[d] :
              /\ Copies(S, m)[d][k] = m
              /\ fd[d] # 0 /\ \E i \in S : allClients[i].socket = fd[d]
<1> SUFFICES ASSUME NEW d \in Clients
             PROVE  /\ Copies(S, m)[d] \in Seq(Message)
                    /\ \A k \in DOMAIN Copies(S, m)[d] :
                         /\ Copies(S, m)[d][k] = m
                         /\ fd[d] # 0 /\ \E i \in S : allClients[i].socket = fd[d]
  BY DEF Copies
<1> DEFINE R == {i \in S : fd[d] # 0 /\ allClients[i].socket = fd[d]}
           n == Cardinality(R)
<1>1. n \in Nat /\ (R = {} => n = 0)
  BY SlotCount
<1>2. Copies(S, m)[d] = [k \in 1 .. n |-> m]
  BY DEF Copies
<1>3. R # {} => fd[d] # 0 /\ \E i \in S : allClients[i].socket = fd[d]
  OBVIOUS
<1> HIDE DEF n, R
<1>4. [k \in 1 .. n |-> m] \in Seq(Message)
  BY <1>1, Repeated
<1>5. ASSUME NEW k \in DOMAIN [k \in 1 .. n |-> m]
      PROVE  [k1 \in 1 .. n |-> m][k] = m /\ R # {}
  BY <1>1, <1>5
<1> QED
  BY <1>2, <1>3, <1>4, <1>5

(* Replies go to c alone. *)
LEMMA ToType ==
  ASSUME NEW c \in Clients, NEW s \in Seq(Message)
  PROVE  /\ To(c, s) \in [Clients -> Seq(Message)]
         /\ To(c, s)[c] = s /\ \A d \in Clients : d # c => To(c, s)[d] = << >>
BY DEF To

LEMMA RepliesType ==
  ASSUME NEW c \in Clients, NEW S \in SUBSET Slots, NEW type \in Types
  PROVE  /\ Replies(c, S, type) \in Seq(Message)
         /\ \A k \in DOMAIN Replies(c, S, type) :
              IsNamed(Replies(c, S, type)[k]) /\ Replies(c, S, type)[k].type = type
<1>1. PICK m \in Message : m = Reply(type, c, {}) /\ IsNamed(m) /\ m.type = type
  BY ReplyNamed
<1>2. PICK n \in Nat : n = Cardinality(S)
  BY SlotCount
<1>3. Replies(c, S, type) = [k \in 1 .. n |-> m]
  BY <1>1, <1>2 DEF Replies
<1>4. [k \in 1 .. n |-> m] \in Seq(Message)
  BY Repeated
<1>5. \A k \in DOMAIN [k \in 1 .. n |-> m] : [k1 \in 1 .. n |-> m][k] = m
  OBVIOUS
<1> QED
  BY <1>1, <1>3, <1>4, <1>5

(* A handler that leaves every entry its socket and IP. *)
LEMMA TableKeeps ==
  ASSUME ServerOK, UNCHANGED <<fd, wasReset>>,
         up' \in BOOLEAN, toClient' \in [Clients -> Seq(Message)],
         \A d \in Clients : \A k \in DOMAIN toClient'[d] : ~wasReset => IsNamed(toClient'[d][k]),
         promised' \in [Clients -> SUBSET Clients],
         allClients' \in [Slots -> Entry],
         \A i \in Slots : allClients'[i].socket = allClients[i].socket /\
                          allClients'[i].IP = allClients[i].IP,
         \A i \in Slots : \A k \in DOMAIN allClients'[i].bufferMsg :
           ~wasReset => IsNamed(allClients'[i].bufferMsg[k]),
         BlockedOnce', PromisesKept'
  PROVE  ServerOK'
<1>1. ServerTypeOK'
  BY DEF ServerOK, ServerTypeOK
<1>2. OneDescriptorEach'
  BY DEF ServerOK, OneDescriptorEach
<1>3. EntriesAreOpen'
  BY DEF ServerOK, EntriesAreOpen
<1>4. NamedSenderSent'
  BY DEF NamedSenderSent, IsNamed
<1> QED
  BY <1>1, <1>2, <1>3, <1>4 DEF ServerOK

(* The lists stay as they are. *)
LEMMA SameLists ==
  ASSUME ServerOK, UNCHANGED <<fd, wasReset, promised>>,
         \A i \in Slots : allClients'[i].socket = allClients[i].socket /\
                          allClients'[i].blockedUser = allClients[i].blockedUser
  PROVE  BlockedOnce' /\ PromisesKept'
<1>1. BlockedOnce'
  BY DEF ServerOK, BlockedOnce
<1>2. PromisesKept'
  BY DEF ServerOK, PromisesKept, Holds
<1> QED
  BY <1>1, <1>2

LEMMA SameBuffers ==
  ASSUME ServerOK,
         \A i \in Slots : allClients'[i].bufferMsg = allClients[i].bufferMsg
  PROVE  \A i \in Slots : \A k \in DOMAIN allClients'[i].bufferMsg :
           ~wasReset => IsNamed(allClients'[i].bufferMsg[k])
BY DEF ServerOK, NamedSenderSent, IsNamed

LEMMA SameWire ==
  ASSUME ServerOK, UNCHANGED toClient
  PROVE  /\ toClient' \in [Clients -> Seq(Message)]
         /\ \A d \in Clients : \A k \in DOMAIN toClient'[d] :
              ~wasReset => IsNamed(toClient'[d][k])
BY DEF ServerOK, ServerTypeOK, NamedSenderSent, IsNamed

-----------------------------------------------------------------------------
(* The event handlers *)

(* What BlockStands says of a step. *)
Heeded ==
  \A d \in Clients : Len(toClient'[d]) > Len(toClient[d]) =>
    LET m == toClient'[d][Len(toClient'[d])]
    IN  ~wasReset /\ m.type = "SEND" => m.from \notin promised[d]

(* Nobody else's connection or promises are touched. *)
Framed(c) == \A d \in Clients \ {c} : fd'[d] = fd[d] /\ promised'[d] = promised[d]

LEMMA SilentHeeded ==
  ASSUME ServerOK, UNCHANGED toClient
  PROVE  Heeded
BY DEF ServerOK, ServerTypeOK, Heeded

LEMMA Answer ==
  ASSUME ServerOK, NEW c \in Clients, NEW s \in Seq(Message), Write(To(c, s)),
         \A k \in DOMAIN s : IsNamed(s[k]) /\ s[k].type # "SEND"
  PROVE  /\ up' \in BOOLEAN /\ toClient' \in [Clients -> Seq(Message)]
         /\ \A d \in Clients : \A k \in DOMAIN toClient'[d] :
              ~wasReset => IsNamed(toClient'[d][k])
         /\ Heeded
<1>1. PICK ms \in [Clients -> Seq(Message)] : ms = To(c, s)
  BY ToType
<1>2. \A d \in Clients : \A k \in DOMAIN ms[d] : IsNamed(ms[d][k]) /\ ms[d][k].type # "SEND"
  <2> SUFFICES ASSUME NEW d \in Clients, NEW k \in DOMAIN ms[d]
               PROVE  IsNamed(ms[d][k]) /\ ms[d][k].type # "SEND"
    OBVIOUS
  <2>1. CASE d = c
    BY <1>1, <2>1, ToType
  <2>2. CASE d # c
    BY <1>1, <2>2, ToType
  <2> QED
    BY <2>1, <2>2
<1>3. Heeded
  <2> SUFFICES ASSUME NEW d \in Clients, Len(toClient'[d]) > Len(toClient[d])
               PROVE  toClient'[d][Len(toClient'[d])].type # "SEND"
    BY DEF Heeded
  <2> QED
    BY <1>1, <1>2, WrittenLast
<1> QED
  BY <1>1, <1>2, <1>3, WriteKeeps

LEMMA StatusSet ==
  ASSUME ServerOK, NEW c \in Clients, NEW status \in {"logged-in", "logged-out"},
         IF Mine(c) # {}
         THEN allClients' = [allClients EXCEPT ![First(Mine(c))].status = status]
         ELSE UNCHANGED allClients
  PROVE  /\ allClients' \in [Slots -> Entry]
         /\ \A i \in Slots :
              /\ allClients'[i].socket = allClients[i].socket /\ allClients'[i].IP = allClients[i].IP
              /\ allClients'[i].bufferMsg = allClients[i].bufferMsg
              /\ allClients'[i].blockedUser = allClients[i].blockedUser
<1>1. allClients \in [Slots -> Entry]
  BY DEF ServerOK, ServerTypeOK
<1>2. CASE Mine(c) = {}
  BY <1>1, <1>2
<1>3. CASE Mine(c) # {}
  <2>1. First(Mine(c)) \in Mine(c)
    BY <1>3, SlotsType, FirstIn DEF Mine
  <2>2. PICK f \in Slots : f = First(Mine(c))
    BY <2>1 DEF Mine
  <2>3. allClients' = [allClients EXCEPT ![f].status = status]
    BY <1>3, <2>2
  <2>4. PICK e : e = [allClients[f] EXCEPT !.status = status]
    OBVIOUS
  <2>5. /\ e \in Entry /\ e.socket = allClients[f].socket /\ e.IP = allClients[f].IP
        /\ e.bufferMsg = allClients[f].bufferMsg /\ e.blockedUser = allClients[f].blockedUser
    BY <1>1, <2>4 DEF Entry
  <2>6. allClients' = [allClients EXCEPT ![f] = e]
    BY <1>1, <2>3, <2>4
  <2> QED
    BY <1>1, <2>5, <2>6
<1> QED
  BY <1>2, <1>3

(* The reply to a login. *)
LEMMA LoginReply ==
  ASSUME ServerOK, NEW c \in Clients, allClients' \in [Slots -> Entry],
         \A i \in Slots : allClients'[i].socket # 0 => allClients'[i].IP \in Clients,
         serverLoginEvent(c)
  PROVE  /\ up' \in BOOLEAN /\ toClient' \in [Clients -> Seq(Message)]
         /\ \A d \in Clients : \A k \in DOMAIN toClient'[d] :
              ~wasReset => IsNamed(toClient'[d][k])
         /\ Heeded
<1>1. PICK ips \in SUBSET Clients : ips = ListOf(allClients')
  BY ListType
<1>2. PICK m \in Message : m = Reply("LOGINSUCCESS", c, ips) /\ IsNamed(m) /\ m.type # "SEND"
  <2>1. PICK type \in Types : type = "LOGINSUCCESS"
    BY DEF Types
  <2>2. type # "SEND"
    BY <2>1
  <2>3. Reply(type, c, ips) \in Message /\ IsNamed(Reply(type, c, ips)) /\ Reply(type, c, ips).type = type
    BY ReplyNamed
  <2> QED
    BY <2>1, <2>2, <2>3
<1>3. Write(To(c, <<m>>))
  BY <1>1, <1>2 DEF serverLoginEvent
<1>4. <<m>> \in Seq(Message) /\ \A k \in DOMAIN <<m>> : <<m>>[k] = m
  OBVIOUS
<1> QED
  BY <1>2, <1>3, <1>4, Answer

LEMMA LoginKeeps ==
  ASSUME ServerOK, NEW c \in Clients, fd[c] # 0, loginAgain(c)
  PROVE  ServerOK' /\ Framed(c) /\ Heeded
<1>1. /\ allClients' \in [Slots -> Entry]
      /\ \A i \in Slots :
              /\ allClients'[i].socket = allClients[i].socket /\ allClients'[i].IP = allClients[i].IP
              /\ allClients'[i].bufferMsg = allClients[i].bufferMsg
              /\ allClients'[i].blockedUser = allClients[i].blockedUser
  BY StatusSet DEF loginAgain
<1>2. UNCHANGED <<fd, promised, wasReset>>
  BY DEF loginAgain
<1>3. \A i \in Slots : allClients'[i].socket # 0 => allClients'[i].IP \in Clients
  BY <1>1 DEF ServerOK, OneDescriptorEach
<1>8. /\ up' \in BOOLEAN /\ toClient' \in [Clients -> Seq(Message)]
      /\ \A d \in Clients : \A k \in DOMAIN toClient'[d] :
              ~wasReset => IsNamed(toClient'[d][k])
      /\ Heeded
  BY <1>1, <1>3, LoginReply DEF loginAgain
<1>9. BlockedOnce' /\ PromisesKept'
  BY <1>1, <1>2, SameLists
<1>10. \A i \in Slots : \A k \in DOMAIN allClients'[i].bufferMsg :
           ~wasReset => IsNamed(allClients'[i].bufferMsg[k])
  BY <1>1, SameBuffers
<1>11. promised' \in [Clients -> SUBSET Clients]
  BY <1>2 DEF ServerOK, ServerTypeOK
<1>12. ServerOK'
  BY <1>1, <1>2, <1>8, <1>9, <1>10, <1>11, TableKeeps
<1> QED
  BY <1>2, <1>8, <1>12 DEF Framed

LEMMA RefreshKeeps ==
  ASSUME ServerOK, NEW c \in Clients, fd[c] # 0, serverRefreshEvent(c)
  PROVE  ServerOK' /\ Framed(c) /\ Heeded
<1>1. UNCHANGED <<allClients, fd, promised, wasReset>>
  BY DEF serverRefreshEvent
<1>2. PICK ips \in SUBSET Clients : ips = ListOf(allClients)
  BY ListType DEF ServerOK, ServerTypeOK, OneDescriptorEach
<1>3. PICK m \in Message : m = Reply("REFRESHSUCCESS", c, ips) /\ IsNamed(m) /\ m.type # "SEND"
  <2>1. PICK type \in Types : type = "REFRESHSUCCESS"
    BY DEF Types
  <2>2. type # "SEND"
    BY <2>1
  <2>3. Reply(type, c, ips) \in Message /\ IsNamed(Reply(type, c, ips)) /\ Reply(type, c, ips).type = type
    BY ReplyNamed
  <2> QED
    BY <2>1, <2>2, <2>3
<1>4. Write(To(c, <<m>>))
  BY <1>2, <1>3 DEF serverRefreshEvent
<1>5. <<m>> \in Seq(Message) /\ \A k \in DOMAIN <<m>> : <<m>>[k] = m
  OBVIOUS
<1>6. /\ up' \in BOOLEAN /\ toClient' \in [Clients -> Seq(Message)]
      /\ \A d \in Clients : \A k \in DOMAIN toClient'[d] :
              ~wasReset => IsNamed(toClient'[d][k])
      /\ Heeded
  BY <1>3, <1>4, <1>5, Answer
<1>7. BlockedOnce' /\ PromisesKept'
  BY <1>1, SameLists
<1>8. \A i \in Slots : \A k \in DOMAIN allClients'[i].bufferMsg :
           ~wasReset => IsNamed(allClients'[i].bufferMsg[k])
  BY <1>1, SameBuffers
<1>9. promised' \in [Clients -> SUBSET Clients] /\ allClients' \in [Slots -> Entry]
  BY <1>1 DEF ServerOK, ServerTypeOK
<1>10. ServerOK'
  BY <1>1, <1>6, <1>7, <1>8, <1>9, TableKeeps
<1> QED
  BY <1>1, <1>6, <1>10 DEF Framed

LEMMA LogoutKeeps ==
  ASSUME ServerOK, NEW c \in Clients, fd[c] # 0, serverLogoutEvent(c)
  PROVE  ServerOK' /\ Framed(c) /\ Heeded
<1>1. /\ allClients' \in [Slots -> Entry]
      /\ \A i \in Slots :
              /\ allClients'[i].socket = allClients[i].socket /\ allClients'[i].IP = allClients[i].IP
              /\ allClients'[i].bufferMsg = allClients[i].bufferMsg
              /\ allClients'[i].blockedUser = allClients[i].blockedUser
  BY StatusSet DEF serverLogoutEvent
<1>2. UNCHANGED <<up, fd, toClient, promised, wasReset>>
  BY DEF serverLogoutEvent
<1>3. BlockedOnce' /\ PromisesKept'
  BY <1>1, <1>2, SameLists
<1>4. \A i \in Slots : \A k \in DOMAIN allClients'[i].bufferMsg :
           ~wasReset => IsNamed(allClients'[i].bufferMsg[k])
  BY <1>1, SameBuffers
<1>5. promised' \in [Clients -> SUBSET Clients] /\ up' \in BOOLEAN
  BY <1>2 DEF ServerOK, ServerTypeOK
<1>6. ServerOK'
  BY <1>1, <1>2, <1>3, <1>4, <1>5, SameWire, TableKeeps
<1> QED
  BY <1>2, <1>6, SilentHeeded DEF Framed

(* The client's entries and its descriptor are free together. *)
LEMMA ExitKeeps ==
  ASSUME ServerOK, NEW c \in Clients, fd[c] # 0, serverExitEvent(c)
  PROVE  ServerOK' /\ Framed(c) /\ Heeded
<1>1. /\ fd' = [fd EXCEPT ![c] = 0]
      /\ UNCHANGED <<up, toClient, promised, wasReset>>
  BY DEF serverExitEvent
<1>2. allClients \in [Slots -> Entry] /\ fd \in [Clients -> 0 .. Cardinality(Clients)]
      /\ 0 \in 0 .. Cardinality(Clients)
  BY HowMany DEF ServerOK, ServerTypeOK
<1>3. ASSUME NEW i \in Slots
      PROVE  /\ allClients'[i] \in Entry
             /\ allClients'[i].IP = allClients[i].IP
             /\ allClients'[i].bufferMsg = allClients[i].bufferMsg
             /\ allClients'[i].blockedUser = allClients[i].blockedUser
             /\ allClients'[i].socket = IF allClients[i].socket = fd[c] THEN 0
                                        ELSE allClients[i].socket
  <2>1. CASE allClients[i].socket = fd[c]
    <3>1. PICK e \in Entry : e = allClients[i]
      BY <1>2
    <3>2. allClients'[i] = [e EXCEPT !.socket = 0]
      BY <2>1, <3>1 DEF serverExitEvent, Mine
    <3>3. PICK e2 : e2 = [e EXCEPT !.socket = 0]
      OBVIOUS
    <3>4. /\ e2 \in Entry /\ e2.socket = 0 /\ e2.IP = e.IP /\ e2.bufferMsg = e.bufferMsg
          /\ e2.blockedUser = e.blockedUser
      BY <1>2, <3>3 DEF Entry
    <3> QED
      BY <2>1, <3>1, <3>2, <3>3, <3>4
  <2>2. CASE allClients[i].socket # fd[c]
    <3>1. allClients'[i] = allClients[i]
      BY <2>2 DEF serverExitEvent, Mine
    <3> QED
      BY <1>2, <2>2, <3>1
  <2> QED
    BY <2>1, <2>2
<1>4. \A d \in Clients : fd'[d] = IF d = c THEN 0 ELSE fd[d]
  BY <1>1, <1>2
<1>5. ServerTypeOK'
  <2>1. allClients' \in [Slots -> Entry]
    BY <1>3 DEF serverExitEvent
  <2>2. fd' \in [Clients -> 0 .. Cardinality(Clients)]
    BY <1>1, <1>2
  <2> QED
    BY <1>1, <2>1, <2>2 DEF ServerOK, ServerTypeOK
<1>6. OneDescriptorEach'
  BY <1>3, <1>4 DEF ServerOK, OneDescriptorEach
<1>7. BlockedOnce'
  BY <1>3 DEF ServerOK, BlockedOnce
<1>8. EntriesAreOpen'
  <2> SUFFICES ASSUME ~wasReset, NEW i \in Slots, allClients'[i].socket # 0
               PROVE  /\ \E d \in Clients : allClients'[i].socket = fd'[d] /\ allClients'[i].IP = d
                      /\ \A j \in Slots \ {i} : allClients'[j].socket # allClients'[i].socket
    BY <1>1 DEF EntriesAreOpen
  <2>1. allClients[i].socket # fd[c] /\ allClients'[i].socket = allClients[i].socket
    BY <1>3
  <2>2. PICK d \in Clients : allClients[i].socket = fd[d] /\ allClients[i].IP = d
    BY <2>1 DEF ServerOK, EntriesAreOpen
  <2>3. fd'[d] = fd[d]
    BY <1>4, <2>1, <2>2
  <2>4. \A j \in Slots \ {i} : allClients[j].socket # allClients[i].socket
    BY <2>1 DEF ServerOK, EntriesAreOpen
  <2>5. \A j \in Slots \ {i} : allClients'[j].socket # allClients'[i].socket
    BY <1>3, <2>1, <2>4
  <2> QED
    BY <1>3, <2>1, <2>2, <2>3, <2>5
<1>9. NamedSenderSent'
  BY <1>1, <1>3 DEF ServerOK, NamedSenderSent
<1>10. PromisesKept'
  <2> SUFFICES ASSUME ~wasReset, NEW i \in Slots, NEW d \in Clients,
                      allClients'[i].socket = fd'[d], fd'[d] # 0, NEW ip \in promised[d]
               PROVE  Holds(i, ip)'
    BY <1>1 DEF PromisesKept
  <2>1. allClients[i].socket = fd[d] /\ fd[d] # 0
    BY <1>3, <1>4
  <2>2. Holds(i, ip)
    BY <2>1 DEF ServerOK, PromisesKept
  <2> QED
    BY <1>3, <2>2 DEF Holds
<1> QED
  BY <1>1, <1>4, <1>5, <1>6, <1>7, <1>8, <1>9, <1>10, SilentHeeded DEF ServerOK, Framed

LEMMA CrashKeeps ==
  ASSUME ServerOK, Crash
  PROVE  ServerOK' /\ Heeded /\ UNCHANGED <<fd, promised>>
<1>1. up' = FALSE /\ UNCHANGED <<allClients, fd, toClient, promised, wasReset>>
  BY DEF Crash
<1>2. ServerTypeOK' /\ OneDescriptorEach' /\ BlockedOnce'
  BY <1>1 DEF ServerOK, ServerTypeOK, OneDescriptorEach, BlockedOnce
<1>3. EntriesAreOpen' /\ NamedSenderSent' /\ PromisesKept'
  BY <1>1 DEF ServerOK, EntriesAreOpen, NamedSenderSent, PromisesKept, Holds
<1> QED
  BY <1>1, <1>2, <1>3, SilentHeeded DEF ServerOK

LEMMA StaysPut ==
  ASSUME ServerOK, UNCHANGED server
  PROVE  ServerOK' /\ Heeded /\ UNCHANGED <<fd, promised>>
<1>1. UNCHANGED <<up, allClients, fd, toClient, promised, wasReset>>
  BY DEF server
<1>2. ServerTypeOK' /\ OneDescriptorEach' /\ BlockedOnce'
  BY <1>1 DEF ServerOK, ServerTypeOK, OneDescriptorEach, BlockedOnce
<1>3. EntriesAreOpen' /\ NamedSenderSent' /\ PromisesKept'
  BY <1>1 DEF ServerOK, EntriesAreOpen, NamedSenderSent, PromisesKept, Holds
<1> QED
  BY <1>1, <1>2, <1>3, SilentHeeded DEF ServerOK

LEMMA BufferedEntry ==
  ASSUME ServerOK, NEW i \in Slots, NEW m \in Message, ~wasReset => IsNamed(m)
  PROVE  LET e == Buffered(allClients[i], m)
         IN  /\ e \in Entry
             /\ e.socket = allClients[i].socket /\ e.IP = allClients[i].IP
             /\ e.blockedUser = allClients[i].blockedUser
             /\ \A k \in DOMAIN e.bufferMsg : ~wasReset => IsNamed(e.bufferMsg[k])
<1>1. PICK o \in Entry : o = allClients[i]
  BY DEF ServerOK, ServerTypeOK
<1>2. PICK s \in Seq(Message) : s = o.bufferMsg
  BY <1>1 DEF Entry
<1>3. /\ Append(s, m) \in Seq(Message)
      /\ \A k \in DOMAIN Append(s, m) :
           (k \in DOMAIN s /\ Append(s, m)[k] = s[k]) \/ Append(s, m)[k] = m
  OBVIOUS
<1>4. \A k \in DOMAIN s : ~wasReset => IsNamed(s[k])
  BY <1>1, <1>2 DEF ServerOK, NamedSenderSent, IsNamed
<1>5. PICK e : e = [o EXCEPT !.bufferMsg = Append(s, m)]
  OBVIOUS
<1>6. /\ e \in Entry /\ e.socket = o.socket /\ e.IP = o.IP /\ e.blockedUser = o.blockedUser
      /\ e.bufferMsg = Append(s, m)
  BY <1>3, <1>5 DEF Entry
<1>7. \A k \in DOMAIN e.bufferMsg : ~wasReset => IsNamed(e.bufferMsg[k])
  BY <1>3, <1>4, <1>6
<1>8. Buffered(allClients[i], m) = e
  BY <1>1, <1>2, <1>5 DEF Buffered
<1> QED
  BY <1>1, <1>6, <1>7, <1>8

LEMMA SendKeeps ==
  ASSUME ServerOK, NEW c \in Clients, fd[c] # 0, NEW ip, serverSendEvent(c, ip)
  PROVE  ServerOK' /\ Framed(c) /\ Heeded
<1> DEFINE dest == First(Named(ip))
<1>1. PICK m \in Message : m = Relayed("SEND", c) /\ (~wasReset => IsNamed(m))
  <2>1. "SEND" \in Types
    BY DEF Types
  <2> QED
    BY <2>1, RelayedNamed
<1>2. CASE Crash \/ UNCHANGED server
  BY <1>2, CrashKeeps, StaysPut DEF Framed
<1>3. CASE /\ Named(ip) # {}
           /\ IF Holds(dest, m.from)
              THEN UNCHANGED <<up, allClients, toClient>>
              ELSE IF allClients[dest].status = "logged-in"
              THEN Write(Copies({dest}, m)) /\ UNCHANGED allClients
              ELSE /\ allClients' = [allClients EXCEPT ![dest] = Buffered(@, m)]
                   /\ UNCHANGED <<up, toClient>>
           /\ UNCHANGED <<fd, promised, wasReset>>
  <2>1. PICK j \in Slots : j = dest
    BY <1>3, SlotsType, FirstIn DEF Named
  <2>2. CASE UNCHANGED <<up, allClients, toClient>>
    BY <1>3, <2>2, StaysPut DEF Framed, server
  <2>3. CASE ~Holds(j, m.from) /\ Write(Copies({j}, m)) /\ UNCHANGED allClients
    <3>1. PICK S \in SUBSET Slots : S = {j}
      OBVIOUS
    <3>2. PICK ms \in [Clients -> Seq(Message)] : ms = Copies(S, m)
      BY CopiesType
    <3>3. \A d \in Clients : \A k \in DOMAIN ms[d] :
            ms[d][k] = m /\ fd[d] # 0 /\ allClients[j].socket = fd[d]
      <4>1. \A d \in Clients : \A k \in DOMAIN Copies(S, m)[d] :
              /\ Copies(S, m)[d][k] = m
              /\ fd[d] # 0 /\ \E i \in S : allClients[i].socket = fd[d]
        BY CopiesType
      <4> QED
        BY <3>1, <3>2, <4>1
    <3>4. /\ up' \in BOOLEAN /\ toClient' \in [Clients -> Seq(Message)]
          /\ \A d \in Clients : \A k \in DOMAIN toClient'[d] :
              ~wasReset => IsNamed(toClient'[d][k])
      BY <1>1, <2>3, <3>1, <3>2, <3>3, WriteKeeps
    <3>5. Heeded
      <4> SUFFICES ASSUME NEW d \in Clients, Len(toClient'[d]) > Len(toClient[d]), ~wasReset
                   PROVE  toClient'[d][Len(toClient'[d])].from \notin promised[d]
        BY DEF Heeded
      <4>1. /\ toClient'[d][Len(toClient'[d])] = m
            /\ fd[d] # 0 /\ allClients[j].socket = fd[d]
        <5>1. Write(ms)
          BY <2>3, <3>1, <3>2
        <5>2. /\ Len(ms[d]) \in DOMAIN ms[d]
              /\ toClient'[d][Len(toClient'[d])] = ms[d][Len(ms[d])]
          BY <5>1, WrittenLast
        <5> QED
          BY <3>3, <5>2
      <4>2. \A b \in promised[d] : Holds(j, b)
        BY <4>1 DEF ServerOK, PromisesKept
      <4> QED
        BY <2>3, <4>1, <4>2
    <3>6. BlockedOnce' /\ PromisesKept'
      BY <1>3, <2>3, SameLists
    <3>7. \A i \in Slots : \A k \in DOMAIN allClients'[i].bufferMsg :
           ~wasReset => IsNamed(allClients'[i].bufferMsg[k])
      BY <2>3, SameBuffers
    <3>8. promised' \in [Clients -> SUBSET Clients] /\ allClients' \in [Slots -> Entry]
      BY <1>3, <2>3 DEF ServerOK, ServerTypeOK
    <3>9. ServerOK'
      BY <1>3, <2>3, <3>4, <3>6, <3>7, <3>8, TableKeeps
    <3> QED
      BY <1>3, <3>5, <3>9 DEF Framed
  <2>4. CASE /\ allClients' = [allClients EXCEPT ![j] = Buffered(@, m)]
             /\ UNCHANGED <<up, toClient>>
    <3>1. PICK e : e = Buffered(allClients[j], m)
      OBVIOUS
    <3>2. /\ e \in Entry
          /\ e.socket = allClients[j].socket /\ e.IP = allClients[j].IP
          /\ e.blockedUser = allClients[j].blockedUser
          /\ \A k \in DOMAIN e.bufferMsg : ~wasReset => IsNamed(e.bufferMsg[k])
      BY <1>1, <3>1, BufferedEntry
    <3>3. allClients \in [Slots -> Entry]
      BY DEF ServerOK, ServerTypeOK
    <3>4. allClients' = [allClients EXCEPT ![j] = e]
      BY <2>4, <3>1, <3>3
    <3>5. /\ allClients' \in [Slots -> Entry] /\ allClients'[j] = e
          /\ \A i \in Slots : i # j => allClients'[i] = allClients[i]
      BY <3>2, <3>3, <3>4
    <3>6. BlockedOnce' /\ PromisesKept'
      <4>1. \A i \in Slots : allClients'[i].socket = allClients[i].socket /\
                          allClients'[i].blockedUser = allClients[i].blockedUser
        BY <3>2, <3>5
      <4> QED
        BY <1>3, <4>1, SameLists
    <3>7. \A i \in Slots : \A k \in DOMAIN allClients'[i].bufferMsg :
           ~wasReset => IsNamed(allClients'[i].bufferMsg[k])
      <4> SUFFICES ASSUME NEW i \in Slots, NEW k \in DOMAIN allClients'[i].bufferMsg, ~wasReset
                   PROVE  IsNamed(allClients'[i].bufferMsg[k])
        OBVIOUS
      <4>1. CASE i = j
        BY <3>2, <3>5, <4>1
      <4>2. CASE i # j
        BY <3>5, <4>2 DEF ServerOK, NamedSenderSent, IsNamed
      <4> QED
        BY <4>1, <4>2
    <3>8. promised' \in [Clients -> SUBSET Clients] /\ up' \in BOOLEAN
      BY <1>3, <2>4 DEF ServerOK, ServerTypeOK
    <3>9. \A i \in Slots : allClients'[i].socket = allClients[i].socket /\
                          allClients'[i].IP = allClients[i].IP
      BY <3>2, <3>5
    <3>10. ServerOK'
      BY <1>3, <2>4, <3>5, <3>6, <3>7, <3>8, <3>9, SameWire, TableKeeps
    <3> QED
      BY <1>3, <2>4, <3>10, SilentHeeded DEF Framed
  <2> QED
    BY <1>3, <2>1, <2>2, <2>3, <2>4
<1> QED
  BY <1>1, <1>2, <1>3 DEF serverSendEvent

LEMMA BroadcastKeeps ==
  ASSUME ServerOK, NEW c \in Clients, fd[c] # 0, serverBroadcastEvent(c)
  PROVE  ServerOK' /\ Framed(c) /\ Heeded
<1> DEFINE others == Slots \ Mine(c)
           online == {i \in others : allClients[i].status = "logged-in"}
<1>1. PICK m \in Message : m = Relayed("BROADCAST", c) /\ (~wasReset => IsNamed(m))
                           /\ m.type # "SEND"
  <2>1. PICK type \in Types : type = "BROADCAST"
    BY DEF Types
  <2>2. type # "SEND"
    BY <2>1
  <2> QED
    BY <2>1, <2>2, RelayedNamed
<1>2. CASE Crash
  BY <1>2, CrashKeeps DEF Framed
<1>3. CASE /\ Write(Copies(online, m))
           /\ allClients' = [i \in Slots |-> IF i \in others \ online
                                             THEN Buffered(allClients[i], m)
                                             ELSE allClients[i]]
           /\ UNCHANGED <<fd, promised, wasReset>>
  <2>1. online \in SUBSET Slots
    OBVIOUS
  <2>2. PICK ms \in [Clients -> Seq(Message)] : ms = Copies(online, m)
    BY <2>1, CopiesType
  <2>3. \A d \in Clients : \A k \in DOMAIN ms[d] : ms[d][k] = m
    BY <2>1, <2>2, CopiesType
  <2>4. /\ up' \in BOOLEAN /\ toClient' \in [Clients -> Seq(Message)]
        /\ \A d \in Clients : \A k \in DOMAIN toClient'[d] :
              ~wasReset => IsNamed(toClient'[d][k])
    BY <1>1, <1>3, <2>2, <2>3, WriteKeeps
  <2>5. Heeded
    <3> SUFFICES ASSUME NEW d \in Clients, Len(toClient'[d]) > Len(toClient[d])
                 PROVE  toClient'[d][Len(toClient'[d])].type # "SEND"
      BY DEF Heeded
    <3> QED
      BY <1>1, <1>3, <2>2, <2>3, WrittenLast
  <2>6. ASSUME NEW i \in Slots
        PROVE  /\ allClients'[i] \in Entry
               /\ allClients'[i].socket = allClients[i].socket
               /\ allClients'[i].IP = allClients[i].IP
               /\ allClients'[i].blockedUser = allClients[i].blockedUser
               /\ \A k \in DOMAIN allClients'[i].bufferMsg :
                    ~wasReset => IsNamed(allClients'[i].bufferMsg[k])
    <3>1. CASE allClients'[i] = allClients[i]
      BY <3>1 DEF ServerOK, ServerTypeOK, NamedSenderSent, IsNamed
    <3>2. CASE allClients'[i] = Buffered(allClients[i], m)
      BY <1>1, <3>2, BufferedEntry
    <3> QED
      BY <1>3, <3>1, <3>2
  <2>7. allClients' \in [Slots -> Entry]
    BY <1>3, <2>6
  <2>8. BlockedOnce' /\ PromisesKept'
    BY <1>3, <2>6, SameLists
  <2>9. promised' \in [Clients -> SUBSET Clients]
    BY <1>3 DEF ServerOK, ServerTypeOK
  <2>10. ServerOK'
    BY <1>3, <2>4, <2>6, <2>7, <2>8, <2>9, TableKeeps
  <2> QED
    BY <1>3, <2>5, <2>10 DEF Framed
<1> QED
  BY <1>1, <1>2, <1>3 DEF serverBroadcastEvent

(* A list with one host more, that was not on it. *)
LEMMA Added ==
  ASSUME ServerOK, NEW i \in Slots, NEW ip \in Clients, ~Holds(i, ip)
  PROVE  LET e == AddTo(i, ip)
         IN  /\ e \in Entry
             /\ e.socket = allClients[i].socket /\ e.IP = allClients[i].IP
             /\ e.bufferMsg = allClients[i].bufferMsg
             /\ \A j, k \in DOMAIN e.blockedUser : j # k => e.blockedUser[j] # e.blockedUser[k]
             /\ \A b : Holds(i, b) \/ b = ip => \E j \in DOMAIN e.blockedUser : e.blockedUser[j] = b
<1>1. PICK o \in Entry : o = allClients[i]
  BY DEF ServerOK, ServerTypeOK
<1>2. PICK s \in Seq(Clients) : s = o.blockedUser
  BY <1>1 DEF Entry
<1>3. PICK t : t = Append(s, ip) /\ t \in Seq(Clients)
  <2>1. Append(s, ip) \in Seq(Clients)
    OBVIOUS
  <2> QED
    BY <2>1
<1>4. /\ \A k \in DOMAIN t :
           (k \in DOMAIN s /\ t[k] = s[k]) \/ (k = Len(s) + 1 /\ t[k] = ip)
      /\ \A k \in DOMAIN s : k \in DOMAIN t /\ t[k] = s[k]
      /\ Len(s) + 1 \in DOMAIN t /\ t[Len(s) + 1] = ip
  BY <1>3
<1>5. /\ \A j, k \in DOMAIN s : j # k => s[j] # s[k]
      /\ \A j \in DOMAIN s : s[j] # ip
      /\ \A b : Holds(i, b) <=> \E j \in DOMAIN s : s[j] = b
  BY <1>1, <1>2 DEF ServerOK, BlockedOnce, Holds
<1>6. PICK e : e = [o EXCEPT !.blockedUser = t]
  OBVIOUS
<1>7. /\ e \in Entry /\ e.socket = o.socket /\ e.IP = o.IP /\ e.bufferMsg = o.bufferMsg
      /\ e.blockedUser = t
  <2>1. t \in Seq(Clients)
    BY <1>3
  <2> QED
    BY <1>6, <2>1 DEF Entry
<1>8. AddTo(i, ip) = e
  BY <1>1, <1>2, <1>3, <1>6 DEF AddTo
<1>9. \A j, k \in DOMAIN t : j # k => t[j] # t[k]
  BY <1>4, <1>5
<1>10. \A b : Holds(i, b) \/ b = ip => \E j \in DOMAIN t : t[j] = b
  BY <1>4, <1>5
<1> QED
  BY <1>1, <1>7, <1>8, <1>9, <1>10

(* A list without a host that was on it: it was there once. *)
LEMMA Removed ==
  ASSUME ServerOK, NEW i \in Slots, NEW ip \in Clients, Holds(i, ip)
  PROVE  LET e == Without(i, ip)
         IN  /\ e \in Entry
             /\ e.socket = allClients[i].socket /\ e.IP = allClients[i].IP
             /\ e.bufferMsg = allClients[i].bufferMsg
             /\ \A j, k \in DOMAIN e.blockedUser : j # k => e.blockedUser[j] # e.blockedUser[k]
             /\ \A b : Holds(i, b) /\ b # ip => \E j \in DOMAIN e.blockedUser : e.blockedUser[j] = b
<1>1. PICK o \in Entry : o = allClients[i]
  BY DEF ServerOK, ServerTypeOK
<1>2. PICK s \in Seq(Clients) : s = o.blockedUser
  BY <1>1 DEF Entry
<1>3. /\ \A j, k \in DOMAIN s : j # k => s[j] # s[k]
      /\ \A b : Holds(i, b) <=> \E j \in DOMAIN s : s[j] = b
  BY <1>1, <1>2 DEF ServerOK, BlockedOnce, Holds
<1> DEFINE R == {j \in DOMAIN s : s[j] = ip}
<1>4. PICK place \in DOMAIN s : place = First(R) /\ s[place] = ip
  <2>1. R \subseteq Nat /\ R # {}
    BY <1>3
  <2> HIDE DEF R
  <2>2. First(R) \in R
    BY <2>1, FirstIn
  <2> QED
    BY <2>2 DEF R
<1>5. PICK n \in Nat : n = Len(s) /\ DOMAIN s = 1 .. n /\ place \in 1 .. n
  OBVIOUS
<1>6. PICK t : t = [j \in 1 .. n - 1 |-> IF j < place THEN s[j] ELSE s[j + 1]]
  OBVIOUS
<1>7. \A j \in 1 .. n - 1 : j \in 1 .. n /\ j + 1 \in 1 .. n
  BY <1>5
<1>8. t \in Seq(Clients) /\ DOMAIN t = 1 .. n - 1
  <2>1. \A j \in 1 .. n - 1 : t[j] \in Clients
    BY <1>5, <1>6, <1>7
  <2>2. n - 1 \in Nat
    BY <1>5
  <2> QED
    BY <1>6, <2>1, <2>2
<1>9. ASSUME NEW j \in DOMAIN t, NEW k \in DOMAIN t, t[j] = t[k] PROVE j = k
  <2>1. j \in 1 .. n - 1 /\ k \in 1 .. n - 1
    BY <1>8
  <2>2. PICK x \in 1 .. n : x = (IF j < place THEN j ELSE j + 1) /\ t[j] = s[x]
    BY <1>6, <1>7, <2>1
  <2>3. PICK y \in 1 .. n : y = (IF k < place THEN k ELSE k + 1) /\ t[k] = s[y]
    BY <1>6, <1>7, <2>1
  <2>4. x = y
    BY <1>3, <1>5, <1>9, <2>2, <2>3
  <2> QED
    BY <1>5, <2>1, <2>2, <2>3, <2>4
<1>10. ASSUME NEW b, Holds(i, b), b # ip PROVE \E j \in DOMAIN t : t[j] = b
  <2>1. PICK j \in 1 .. n : s[j] = b
    BY <1>3, <1>5, <1>10
  <2>2. j # place
    BY <1>4, <1>10, <2>1
  <2>3. CASE j < place
    <3>1. j \in 1 .. n - 1 /\ t[j] = b
      BY <1>5, <1>6, <2>1, <2>3
    <3> QED
      BY <1>8, <3>1
  <2>4. CASE j > place
    <3>1. j - 1 \in 1 .. n - 1 /\ ~(j - 1 < place) /\ (j - 1) + 1 = j
      BY <1>5, <2>1, <2>4
    <3>2. t[j - 1] = b
      BY <1>6, <2>1, <3>1
    <3> QED
      BY <1>8, <3>1, <3>2
  <2> QED
    BY <1>5, <2>1, <2>2, <2>3, <2>4
<1>11. PICK e : e = [o EXCEPT !.blockedUser = t]
  OBVIOUS
<1>12. /\ e \in Entry /\ e.socket = o.socket /\ e.IP = o.IP /\ e.bufferMsg = o.bufferMsg
       /\ e.blockedUser = t
  BY <1>8, <1>11 DEF Entry
<1>13. Without(i, ip) = e
  <2>1. Without(i, ip) = [o EXCEPT !.blockedUser =
           [j \in 1 .. n - 1 |-> IF j < place THEN s[j] ELSE s[j + 1]]]
    BY <1>1, <1>2, <1>4, <1>5 DEF Without
  <2> QED
    BY <1>6, <1>11, <2>1
<1> QED
  BY <1>1, <1>9, <1>10, <1>12, <1>13

(* Of c's entries: those before the first that lacks ip hold it. *)
LEMMA LackingHolding ==
  ASSUME NEW c \in Clients, NEW ip
  PROVE  /\ Lacking(c, ip) \in SUBSET Slots /\ Holding(c, ip) \in SUBSET Slots
         /\ Lacking(c, ip) # {} => First(Lacking(c, ip)) \in Lacking(c, ip)
         /\ \A i \in Lacking(c, ip) : i \in Mine(c) /\ ~Holds(i, ip)
         /\ \A i \in Holding(c, ip) : i \in Mine(c) /\ Holds(i, ip)
<1>1. Lacking(c, ip) \subseteq Slots /\ Lacking(c, ip) \subseteq Nat
  BY SlotsType DEF Lacking, Mine
<1>2. Lacking(c, ip) # {} => First(Lacking(c, ip)) \in Lacking(c, ip)
  BY <1>1, FirstIn
<1>3. ASSUME NEW i \in Holding(c, ip) PROVE i \in Mine(c) /\ Holds(i, ip)
  <2>1. i \in Mine(c) /\ \A j \in Lacking(c, ip) : i < j
    BY DEF Holding
  <2>2. i \in Nat
    BY <2>1, SlotsType DEF Mine
  <2>3. i \notin Lacking(c, ip)
    <3> SUFFICES ASSUME i \in Lacking(c, ip) PROVE FALSE
      OBVIOUS
    <3>1. i < i
      BY <2>1
    <3> QED
      BY <2>2, <3>1
  <2> QED
    BY <2>1, <2>3 DEF Lacking
<1>4. Holding(c, ip) \subseteq Slots
  BY DEF Holding, Mine
<1> QED
  BY <1>1, <1>2, <1>3, <1>4 DEF Lacking

(* Until a recv fails a client has one entry at most, and nobody else's. *)
LEMMA OneEntry ==
  ASSUME ServerOK, ~wasReset, NEW i \in Slots, NEW j \in Slots, NEW c \in Clients,
         allClients[i].socket = fd[c], fd[c] # 0, allClients[j].socket = fd[c]
  PROVE  i = j
BY DEF ServerOK, EntriesAreOpen

(* At most the list of i changes, if i is c's, and as it should. *)
Listed(c, i) ==
  /\ allClients'[i] \in Entry
  /\ allClients'[i].socket = allClients[i].socket /\ allClients'[i].IP = allClients[i].IP
  /\ allClients'[i].bufferMsg = allClients[i].bufferMsg
  /\ \A j, k \in DOMAIN allClients'[i].blockedUser : j # k =>
       allClients'[i].blockedUser[j] # allClients'[i].blockedUser[k]
  /\ i \notin Mine(c) => allClients'[i] = allClients[i]
  /\ ~wasReset /\ i \in Mine(c) => \A b \in promised'[c] : Holds(i, b)'

(* A handler that changes lists of c's entries only. *)
LEMMA ListsKeep ==
  ASSUME ServerOK, NEW c \in Clients, fd[c] # 0, NEW s \in Seq(Message), Write(To(c, s)),
         \A k \in DOMAIN s : IsNamed(s[k]) /\ s[k].type # "SEND",
         UNCHANGED <<fd, wasReset>>,
         promised' \in [Clients -> SUBSET Clients],
         \A d \in Clients \ {c} : promised'[d] = promised[d],
         allClients' = [i \in Slots |-> allClients'[i]],
         \A i \in Slots : Listed(c, i)
  PROVE  ServerOK' /\ Framed(c) /\ Heeded
<1> USE DEF Listed
<1>1. /\ up' \in BOOLEAN /\ toClient' \in [Clients -> Seq(Message)]
      /\ \A d \in Clients : \A k \in DOMAIN toClient'[d] :
              ~wasReset => IsNamed(toClient'[d][k])
      /\ Heeded
  BY Answer
<1>2. allClients' \in [Slots -> Entry]
  <2>1. \A i \in Slots : allClients'[i] \in Entry
    OBVIOUS
  <2>2. allClients' = [i \in Slots |-> allClients'[i]]
    OBVIOUS
  <2> QED
    BY <2>1, <2>2
<1>3. BlockedOnce'
  BY DEF BlockedOnce
<1>4. PromisesKept'
  <2> SUFFICES ASSUME ~wasReset, NEW i \in Slots, NEW d \in Clients,
                      allClients'[i].socket = fd'[d], fd'[d] # 0, NEW ip \in promised'[d]
               PROVE  Holds(i, ip)'
    BY DEF PromisesKept
  <2>1. allClients[i].socket = fd[d] /\ fd[d] # 0
    OBVIOUS
  <2>2. CASE d = c
    <3>1. i \in Mine(c)
      BY <2>1, <2>2 DEF Mine
    <3> QED
      BY <2>2, <3>1
  <2>3. CASE d # c
    <3>1. i \notin Mine(c)
      BY <2>1, <2>3 DEF Mine, ServerOK, OneDescriptorEach
    <3>2. ip \in promised[d]
      BY <2>3
    <3>3. Holds(i, ip)
      BY <2>1, <3>2 DEF ServerOK, PromisesKept
    <3> QED
      BY <3>1, <3>3 DEF Holds
  <2> QED
    BY <2>2, <2>3
<1>5. \A i \in Slots : \A k \in DOMAIN allClients'[i].bufferMsg :
           ~wasReset => IsNamed(allClients'[i].bufferMsg[k])
  BY SameBuffers
<1>6. ServerOK'
  BY <1>1, <1>2, <1>3, <1>4, <1>5, TableKeeps
<1> QED
  BY <1>1, <1>6 DEF Framed

LEMMA TwoReplies ==
  ASSUME NEW r \in Seq(Message), NEW t \in Seq(Message),
         \A k \in DOMAIN r : IsNamed(r[k]) /\ r[k].type # "SEND",
         \A k \in DOMAIN t : IsNamed(t[k]) /\ t[k].type # "SEND"
  PROVE  /\ r \o t \in Seq(Message)
         /\ \A k \in DOMAIN (r \o t) : IsNamed((r \o t)[k]) /\ (r \o t)[k].type # "SEND"
<1>1. ASSUME NEW k \in DOMAIN (r \o t)
      PROVE  IsNamed((r \o t)[k]) /\ (r \o t)[k].type # "SEND"
  <2>1. CASE k \in DOMAIN r
    BY <1>1, <2>1, Joined
  <2>2. CASE k \notin DOMAIN r
    <3>1. k - Len(r) \in DOMAIN t /\ (r \o t)[k] = t[k - Len(r)]
      BY <1>1, <2>2, Joined
    <3> QED
      BY <3>1
  <2> QED
    BY <2>1, <2>2
<1> QED
  BY <1>1, Joined

LEMMA BlockKeeps ==
  ASSUME ServerOK, NEW c \in Clients, fd[c] # 0, NEW ip \in Clients, serverBlockEvent(c, ip)
  PROVE  ServerOK' /\ Framed(c) /\ Heeded
<1> DEFINE lacking == Lacking(c, ip)
           added   == IF lacking = {} THEN {} ELSE {First(lacking)}
<1>1. /\ lacking \in SUBSET Slots /\ Holding(c, ip) \in SUBSET Slots
      /\ lacking # {} => First(lacking) \in lacking
      /\ \A i \in lacking : i \in Mine(c) /\ ~Holds(i, ip)
      /\ \A i \in Holding(c, ip) : i \in Mine(c) /\ Holds(i, ip)
  BY LackingHolding
<1>2. /\ added \in SUBSET Slots /\ \A i \in added : i \in Mine(c) /\ ~Holds(i, ip)
  BY <1>1
<1>3. /\ allClients' = [i \in Slots |-> IF i \in added THEN AddTo(i, ip) ELSE allClients[i]]
      /\ Write(To(c, Replies(c, Holding(c, ip), "EBLOCK") \o Replies(c, added, "SBLOCK")))
      /\ promised' = IF added = {} THEN promised
                     ELSE [promised EXCEPT ![c] = @ \cup {ip}]
      /\ UNCHANGED <<fd, wasReset>>
  BY DEF serverBlockEvent
<1> HIDE DEF lacking, added
<1>4. PICK s \in Seq(Message) :
        /\ s = Replies(c, Holding(c, ip), "EBLOCK") \o Replies(c, added, "SBLOCK")
        /\ \A k \in DOMAIN s : IsNamed(s[k]) /\ s[k].type # "SEND"
  <2>1. PICK r \in Seq(Message) : /\ r = Replies(c, Holding(c, ip), "EBLOCK")
                                  /\ \A k \in DOMAIN r : IsNamed(r[k]) /\ r[k].type # "SEND"
    <3>1. PICK type \in Types : type = "EBLOCK"
      BY DEF Types
    <3> QED
      BY <1>1, <3>1, RepliesType
  <2>2. PICK t \in Seq(Message) : /\ t = Replies(c, added, "SBLOCK")
                                  /\ \A k \in DOMAIN t : IsNamed(t[k]) /\ t[k].type # "SEND"
    <3>1. PICK type \in Types : type = "SBLOCK"
      BY DEF Types
    <3> QED
      BY <1>2, <3>1, RepliesType
  <2> QED
    BY <2>1, <2>2, TwoReplies
<1>5. promised \in [Clients -> SUBSET Clients] /\ allClients \in [Slots -> Entry]
  BY DEF ServerOK, ServerTypeOK
<1>6. /\ promised' \in [Clients -> SUBSET Clients]
      /\ \A d \in Clients \ {c} : promised'[d] = promised[d]
      /\ promised'[c] = IF added = {} THEN promised[c] ELSE promised[c] \cup {ip}
  BY <1>3, <1>5
<1>7. ASSUME NEW i \in Slots PROVE Listed(c, i)
  <2> USE DEF Listed
  <2>1. CASE i \in added
    <3>1. allClients'[i] = AddTo(i, ip)
      BY <1>3, <2>1
    <3>2. PICK e : e = AddTo(i, ip)
      OBVIOUS
    <3>3. /\ e \in Entry
          /\ e.socket = allClients[i].socket /\ e.IP = allClients[i].IP
          /\ e.bufferMsg = allClients[i].bufferMsg
          /\ \A j, k \in DOMAIN e.blockedUser : j # k => e.blockedUser[j] # e.blockedUser[k]
          /\ \A b : Holds(i, b) \/ b = ip => \E j \in DOMAIN e.blockedUser : e.blockedUser[j] = b
      BY <1>2, <2>1, <3>2, Added
    <3>4. i \in Mine(c)
      BY <1>2, <2>1
    <3>5. ~wasReset => \A b \in promised'[c] : Holds(i, b)'
      <4> SUFFICES ASSUME ~wasReset, NEW b \in promised'[c]
                   PROVE  \E j \in DOMAIN e.blockedUser : e.blockedUser[j] = b
        BY <3>1, <3>2 DEF Holds
      <4>1. b \in promised[c] => Holds(i, b)
        BY <3>4 DEF ServerOK, PromisesKept, Mine
      <4>2. b \in promised[c] \/ b = ip
        BY <1>6
      <4> QED
        BY <3>3, <4>1, <4>2
    <3> QED
      BY <3>1, <3>2, <3>3, <3>4, <3>5
  <2>2. CASE i \notin added
    <3>1. allClients'[i] = allClients[i]
      BY <1>3, <2>2
    <3>2. ASSUME ~wasReset, i \in Mine(c), NEW b \in promised'[c] PROVE Holds(i, b)'
      <4>1. added = {}
        <5> SUFFICES ASSUME NEW j \in added PROVE FALSE
          OBVIOUS
        <5>1. j \in Slots /\ j \in Mine(c)
          BY <1>2
        <5>2. i = j
          BY <3>2, <5>1, OneEntry DEF Mine
        <5> QED
          BY <2>2, <5>2
      <4>2. b \in promised[c]
        BY <1>6, <3>2, <4>1
      <4>3. Holds(i, b)
        BY <3>2, <4>2 DEF ServerOK, PromisesKept, Mine
      <4> QED
        BY <3>1, <4>3 DEF Holds
    <3> QED
      BY <1>5, <3>1, <3>2 DEF ServerOK, BlockedOnce
  <2> QED
    BY <2>1, <2>2
<1>8. allClients' = [i \in Slots |-> allClients'[i]]
  BY <1>3
<1> QED
  BY <1>3, <1>4, <1>6, <1>7, <1>8, ListsKeep

LEMMA UnblockKeeps ==
  ASSUME ServerOK, NEW c \in Clients, fd[c] # 0, NEW ip \in Clients, serverUnblockEvent(c, ip)
  PROVE  ServerOK' /\ Framed(c) /\ Heeded
<1> DEFINE lacking == Lacking(c, ip)
           removed == Holding(c, ip)
           added   == IF lacking = {} THEN {} ELSE {First(lacking)}
<1>1. /\ lacking \in SUBSET Slots /\ removed \in SUBSET Slots
      /\ lacking # {} => First(lacking) \in lacking
      /\ \A i \in lacking : i \in Mine(c) /\ ~Holds(i, ip)
      /\ \A i \in removed : i \in Mine(c) /\ Holds(i, ip)
  BY LackingHolding
<1>2. /\ added \in SUBSET Slots /\ \A i \in added : i \in Mine(c) /\ ~Holds(i, ip)
  BY <1>1
<1>3. /\ allClients' = [i \in Slots |-> CASE i \in removed -> Without(i, ip)
                                          [] i \in added   -> AddTo(i, ip)
                                          [] OTHER         -> allClients[i]]
      /\ Write(To(c, Replies(c, removed, "SUNBLOCK") \o Replies(c, added, "EUNBLOCK")))
      /\ promised' = IF removed = {} THEN promised
                     ELSE [promised EXCEPT ![c] = @ \ {ip}]
      /\ UNCHANGED <<fd, wasReset>>
  BY DEF serverUnblockEvent
<1> HIDE DEF lacking, added, removed
<1>4. PICK s \in Seq(Message) :
        /\ s = Replies(c, removed, "SUNBLOCK") \o Replies(c, added, "EUNBLOCK")
        /\ \A k \in DOMAIN s : IsNamed(s[k]) /\ s[k].type # "SEND"
  <2>1. PICK r \in Seq(Message) : /\ r = Replies(c, removed, "SUNBLOCK")
                                  /\ \A k \in DOMAIN r : IsNamed(r[k]) /\ r[k].type # "SEND"
    <3>1. PICK type \in Types : type = "SUNBLOCK"
      BY DEF Types
    <3> QED
      BY <1>1, <3>1, RepliesType
  <2>2. PICK t \in Seq(Message) : /\ t = Replies(c, added, "EUNBLOCK")
                                  /\ \A k \in DOMAIN t : IsNamed(t[k]) /\ t[k].type # "SEND"
    <3>1. PICK type \in Types : type = "EUNBLOCK"
      BY DEF Types
    <3> QED
      BY <1>2, <3>1, RepliesType
  <2> QED
    BY <2>1, <2>2, TwoReplies
<1>5. promised \in [Clients -> SUBSET Clients] /\ allClients \in [Slots -> Entry]
  BY DEF ServerOK, ServerTypeOK
<1>6. /\ promised' \in [Clients -> SUBSET Clients]
      /\ \A d \in Clients \ {c} : promised'[d] = promised[d]
      /\ promised'[c] = IF removed = {} THEN promised[c] ELSE promised[c] \ {ip}
  BY <1>3, <1>5
<1>7. ASSUME NEW i \in Slots, ~wasReset, i \in Mine(c), NEW b \in promised'[c]
      PROVE  Holds(i, b) /\ (i \in removed => b # ip)
  <2>1. b \in promised[c] /\ (removed # {} => b # ip)
    BY <1>6, <1>7
  <2>2. Holds(i, b)
    BY <1>7, <2>1 DEF ServerOK, PromisesKept, Mine
  <2> QED
    BY <2>1, <2>2
<1>8. ASSUME NEW i \in Slots PROVE Listed(c, i)
  <2> USE DEF Listed
  <2>1. CASE i \in removed
    <3>1. PICK e : e = Without(i, ip)
      OBVIOUS
    <3>2. allClients'[i] = e
      <4>1. i \notin added
        BY <1>1, <1>2, <2>1
      <4> QED
        BY <1>3, <2>1, <3>1, <4>1
    <3>3. /\ e \in Entry
          /\ e.socket = allClients[i].socket /\ e.IP = allClients[i].IP
          /\ e.bufferMsg = allClients[i].bufferMsg
          /\ \A j, k \in DOMAIN e.blockedUser : j # k => e.blockedUser[j] # e.blockedUser[k]
          /\ \A b : Holds(i, b) /\ b # ip => \E j \in DOMAIN e.blockedUser : e.blockedUser[j] = b
      BY <1>1, <2>1, <3>1, Removed
    <3>4. i \in Mine(c)
      BY <1>1, <2>1
    <3>5. ~wasReset => \A b \in promised'[c] : Holds(i, b)'
      BY <1>7, <2>1, <3>2, <3>3, <3>4 DEF Holds
    <3> QED
      BY <3>2, <3>3, <3>4, <3>5
  <2>2. CASE i \in added
    <3>1. PICK e : e = AddTo(i, ip)
      OBVIOUS
    <3>2. allClients'[i] = e
      <4>1. i \notin removed
        BY <1>1, <1>2, <2>2
      <4> QED
        BY <1>3, <2>2, <3>1, <4>1
    <3>3. /\ e \in Entry
          /\ e.socket = allClients[i].socket /\ e.IP = allClients[i].IP
          /\ e.bufferMsg = allClients[i].bufferMsg
          /\ \A j, k \in DOMAIN e.blockedUser : j # k => e.blockedUser[j] # e.blockedUser[k]
          /\ \A b : Holds(i, b) \/ b = ip => \E j \in DOMAIN e.blockedUser : e.blockedUser[j] = b
      BY <1>2, <2>2, <3>1, Added
    <3>4. i \in Mine(c)
      BY <1>2, <2>2
    <3>5. ~wasReset => \A b \in promised'[c] : Holds(i, b)'
      BY <1>7, <3>2, <3>3, <3>4 DEF Holds
    <3> QED
      BY <3>2, <3>3, <3>4, <3>5
  <2>3. CASE i \notin added /\ i \notin removed
    <3>1. allClients'[i] = allClients[i]
      BY <1>3, <2>3
    <3>2. ~wasReset /\ i \in Mine(c) => \A b \in promised'[c] : Holds(i, b)'
      BY <1>7, <3>1 DEF Holds
    <3> QED
      BY <1>5, <3>1, <3>2 DEF ServerOK, BlockedOnce
  <2> QED
    BY <2>1, <2>2, <2>3
<1>9. allClients' = [i \in Slots |-> allClients'[i]]
  BY <1>3
<1> QED
  BY <1>3, <1>4, <1>6, <1>8, <1>9, ListsKeep

(* Any command on a connection, whoever typed it and when. *)
LEMMA EventsKeep ==
  ASSUME ServerOK, NEW c \in Clients, fd[c] # 0, NEW k, k.cmd \in Words,
         k.cmd \in {"SEND", "BLOCK", "UNBLOCK"} => k.ip \in Clients,
         serverEvents(c, k)
  PROVE  ServerOK' /\ Framed(c) /\ Heeded
<1>1. \/ loginAgain(c) \/ serverRefreshEvent(c) \/ serverLogoutEvent(c) \/ serverExitEvent(c)
      \/ serverSendEvent(c, k.ip) \/ serverBroadcastEvent(c)
      \/ k.ip \in Clients /\ serverBlockEvent(c, k.ip)
      \/ k.ip \in Clients /\ serverUnblockEvent(c, k.ip)
  BY DEF Words, serverEvents
<1> QED
  BY <1>1, LoginKeeps, RefreshKeeps, LogoutKeeps, ExitKeeps, SendKeeps, BroadcastKeeps,
     BlockKeeps, UnblockKeeps

-----------------------------------------------------------------------------
(* The select loop *)

(* A new connection gets a descriptor nobody has and at most one entry. *)
LEMMA AcceptKeeps ==
  ASSUME ServerOK, NEW c \in Clients, fd[c] = 0, promised[c] = {},
         NEW free, free = {i \in Slots : allClients[i].socket = 0},
         NEW socket, socket = First((1 .. Cardinality(Clients)) \ {fd[d] : d \in Clients}),
         allClients' = (IF free = {} THEN allClients
                        ELSE [allClients EXCEPT ![First(free)] = newClient(@, socket, c)]),
         fd' = [fd EXCEPT ![c] = socket],
         serverLoginEvent(c), UNCHANGED <<promised, wasReset>>
  PROVE  ServerOK' /\ Framed(c) /\ Heeded
<1> DEFINE n == Cardinality(Clients)
           used == {fd[d] : d \in Clients}
<1>1. /\ socket \in 1 .. Cardinality(Clients) /\ socket # 0
      /\ socket \in 0 .. Cardinality(Clients) /\ \A d \in Clients : fd[d] # socket
  <2>1. socket \in (1 .. n) \ used
    BY FreeDescriptor DEF ServerOK
  <2>2. \A d \in Clients : fd[d] \in used
    OBVIOUS
  <2>3. n \in Nat
    BY HowMany
  <2> HIDE DEF n, used
  <2>4. socket \in 1 .. n /\ socket \in 0 .. n /\ socket # 0
    BY <2>1, <2>3
  <2> QED
    BY <2>1, <2>2, <2>4 DEF n
<1>2. allClients \in [Slots -> Entry] /\ fd \in [Clients -> 0 .. Cardinality(Clients)]
  BY DEF ServerOK, ServerTypeOK
<1>3. \A d \in Clients : fd'[d] = IF d = c THEN socket ELSE fd[d]
  BY <1>2
<1>4. PICK taken : /\ taken \in SUBSET Slots
                   /\ \A i \in taken : allClients[i].socket = 0
                   /\ \A i, j \in taken : i = j
                   /\ allClients' = [i \in Slots |-> IF i \in taken
                                                     THEN newClient(allClients[i], socket, c)
                                                     ELSE allClients[i]]
  <2>1. CASE free = {}
    <3>1. allClients' = [i \in Slots |-> IF i \in {} THEN newClient(allClients[i], socket, c)
                                         ELSE allClients[i]]
      BY <1>2, <2>1
    <3> WITNESS {}
    <3> QED
      BY <3>1
  <2>2. CASE free # {}
    <3>1. free \subseteq Nat
      BY SlotsType
    <3>2. PICK f \in Slots : f = First(free) /\ allClients[f].socket = 0
      <4>1. First(free) \in free
        BY <2>2, <3>1, FirstIn
      <4> QED
        BY <4>1
    <3>3. allClients' = [i \in Slots |-> IF i \in {f} THEN newClient(allClients[i], socket, c)
                                         ELSE allClients[i]]
      BY <1>2, <2>2, <3>2
    <3> WITNESS {f}
    <3> QED
      BY <3>2, <3>3
  <2> QED
    BY <2>1, <2>2
<1>5. ASSUME NEW i \in Slots
      PROVE  /\ allClients'[i] \in Entry
             /\ allClients'[i].bufferMsg = allClients[i].bufferMsg
             /\ allClients'[i].blockedUser = allClients[i].blockedUser
             /\ i \in taken => allClients'[i].socket = socket /\ allClients'[i].IP = c
             /\ i \notin taken => /\ allClients'[i].socket = allClients[i].socket
                                  /\ allClients'[i].IP = allClients[i].IP
  <2>1. CASE i \in taken
    <3>1. PICK e \in Entry : e = allClients[i]
      BY <1>2
    <3>2. allClients'[i] = newClient(e, socket, c)
      BY <1>4, <2>1, <3>1
    <3>3. PICK e2 : e2 = [e EXCEPT !.socket = socket, !.IP = c, !.status = "logged-in"]
      OBVIOUS
    <3>4. /\ e2 \in Entry /\ e2.socket = socket /\ e2.IP = c
          /\ e2.bufferMsg = e.bufferMsg /\ e2.blockedUser = e.blockedUser
      BY <1>1, <3>3 DEF Entry
    <3>5. allClients'[i] = e2
      BY <3>2, <3>3 DEF newClient
    <3> QED
      BY <2>1, <3>1, <3>4, <3>5
  <2>2. CASE i \notin taken
    BY <1>2, <1>4, <2>2
  <2> QED
    BY <2>1, <2>2
<1>6. allClients' \in [Slots -> Entry]
  BY <1>4, <1>5
<1>7. \A i \in Slots : allClients'[i].socket # 0 => allClients'[i].IP \in Clients
  BY <1>5 DEF ServerOK, OneDescriptorEach
<1>8. /\ up' \in BOOLEAN /\ toClient' \in [Clients -> Seq(Message)]
      /\ \A d \in Clients : \A k \in DOMAIN toClient'[d] :
              ~wasReset => IsNamed(toClient'[d][k])
      /\ Heeded
  BY <1>6, <1>7, LoginReply
<1>9. ServerTypeOK'
  <2>1. fd' \in [Clients -> 0 .. Cardinality(Clients)]
    BY <1>1, <1>2
  <2> QED
    BY <1>6, <1>8, <2>1 DEF ServerOK, ServerTypeOK
<1>10. OneDescriptorEach'
  <2>1. \A d, e \in Clients : fd'[d] = fd'[e] /\ fd'[d] # 0 => d = e
    BY <1>1, <1>3 DEF ServerOK, OneDescriptorEach
  <2> QED
    BY <1>7, <2>1 DEF OneDescriptorEach
<1>11. BlockedOnce'
  BY <1>5 DEF ServerOK, BlockedOnce
<1>12. EntriesAreOpen'
  <2> SUFFICES ASSUME ~wasReset, NEW i \in Slots, allClients'[i].socket # 0
               PROVE  /\ \E d \in Clients : allClients'[i].socket = fd'[d] /\ allClients'[i].IP = d
                      /\ \A j \in Slots \ {i} : allClients'[j].socket # allClients'[i].socket
    BY DEF EntriesAreOpen
  <2>1. \A j \in Slots : allClients[j].socket # socket
    BY <1>1 DEF ServerOK, EntriesAreOpen
  <2>2. CASE i \in taken
    <3>1. \A j \in Slots \ {i} : allClients'[j].socket # socket
      BY <1>4, <1>5, <2>1, <2>2
    <3> QED
      BY <1>3, <1>5, <2>2, <3>1
  <2>3. CASE i \notin taken
    <3>1. allClients'[i].socket = allClients[i].socket /\ allClients[i].socket # 0
      BY <1>5, <2>3
    <3>2. PICK d \in Clients : allClients[i].socket = fd[d] /\ allClients[i].IP = d
      BY <3>1 DEF ServerOK, EntriesAreOpen
    <3>3. d # c /\ fd'[d] = fd[d]
      BY <1>3, <3>1, <3>2
    <3>4. \A j \in Slots \ {i} : allClients[j].socket # allClients[i].socket
      BY <3>1 DEF ServerOK, EntriesAreOpen
    <3>5. \A j \in Slots \ {i} : allClients'[j].socket # allClients'[i].socket
      BY <1>5, <2>1, <3>1, <3>4
    <3> QED
      BY <1>5, <2>3, <3>1, <3>2, <3>3, <3>5
  <2> QED
    BY <2>2, <2>3
<1>13. NamedSenderSent'
  BY <1>5, <1>8 DEF ServerOK, NamedSenderSent, IsNamed
<1>14. PromisesKept'
  <2> SUFFICES ASSUME ~wasReset, NEW i \in Slots, NEW d \in Clients,
                      allClients'[i].socket = fd'[d], fd'[d] # 0, NEW ip \in promised[d]
               PROVE  Holds(i, ip)'
    BY DEF PromisesKept
  <2>1. d # c /\ fd'[d] = fd[d]
    BY <1>3
  <2>2. i \notin taken
    BY <1>1, <1>5, <2>1
  <2>3. allClients[i].socket = fd[d] /\ fd[d] # 0
    BY <1>5, <2>1, <2>2
  <2>4. Holds(i, ip)
    BY <2>3 DEF ServerOK, PromisesKept
  <2> QED
    BY <1>5, <2>4 DEF Holds
<1>15. Framed(c)
  BY <1>3 DEF Framed
<1> QED
  BY <1>8, <1>9, <1>10, <1>11, <1>12, <1>13, <1>14, <1>15 DEF ServerOK

Queued == [cmd : Words \cup {"HELLO"}, ip : Clients \cup {NoIP}]

(* What is left of a queue of which the first n elements are gone. *)
LEMMA Suffix ==
  ASSUME NEW T, NEW q \in Seq(T), NEW n \in Received(q)
  PROVE  /\ SubSeq(q, n + 1, Len(q)) \in Seq(T)
         /\ Len(SubSeq(q, n + 1, Len(q))) < Len(q)
         /\ \A i \in DOMAIN SubSeq(q, n + 1, Len(q)) :
              /\ i + n \in DOMAIN q /\ i + n # 1
              /\ SubSeq(q, n + 1, Len(q))[i] = q[i + n]
<1>1. n \in 1 .. Len(q) /\ Len(q) \in Nat
  BY ChatAssumption DEF Received
<1>2. Len(SubSeq(q, n + 1, Len(q))) = Len(q) - n
  BY <1>1
<1> QED
  BY <1>1, <1>2

(* What the first command in a queue may be. *)
LEMMA HeadCommand ==
  ASSUME TypeOK, HelloFirst, NEW c \in Clients, toServer[c] # << >>
  PROVE  LET k == Head(toServer[c])
         IN  /\ k.cmd = "HELLO" => fd[c] = 0 /\ promised[c] = {}
             /\ k.cmd # "HELLO" => k.cmd \in Words
             /\ k.cmd \in {"SEND", "BLOCK", "UNBLOCK"} => k.ip \in Clients
             /\ phase[c] # "new"
<1>1. PICK q \in Seq(Queued) : q = toServer[c]
  BY DEF TypeOK, Queued
<1>2. 1 \in DOMAIN q /\ Head(q) = q[1] /\ q[1] \in Queued
  BY <1>1
<1>3. q[1].cmd # "HELLO" => q[1].cmd \in Words
  BY <1>2 DEF Queued
<1> QED
  BY <1>1, <1>2, <1>3 DEF HelloFirst

(* Whatever the server does with the first of the commands it received. *)
LEMMA Consumed ==
  ASSUME IInv, NEW c \in Clients, toServer[c] # << >>, NEW n \in Received(toServer[c]),
         toServer' = [toServer EXCEPT ![c] = SubSeq(@, n + 1, Len(@))],
         ServerOK', Framed(c), UNCHANGED <<phase, isLoggedIn, typed, view>>
  PROVE  IInv'
<1>1. toServer \in [Clients -> Seq(Queued)]
  BY DEF IInv, TypeOK, Queued
<1>2. PICK q \in Seq(Queued) : q = toServer[c]
  BY <1>1
<1>3. PICK r \in Seq(Queued) :
        /\ r = SubSeq(q, n + 1, Len(q))
        /\ \A i \in DOMAIN r : i + n \in DOMAIN q /\ i + n # 1 /\ r[i] = q[i + n]
  <2>1. n \in Received(q)
    BY <1>2
  <2>2. PICK r : r = SubSeq(q, n + 1, Len(q))
    OBVIOUS
  <2>3. r \in Seq(Queued) /\ \A i \in DOMAIN r : i + n \in DOMAIN q /\ i + n # 1 /\ r[i] = q[i + n]
    BY <2>1, <2>2, Suffix
  <2> QED
    BY <2>2, <2>3
<1>4. toServer' = [toServer EXCEPT ![c] = r]
  BY <1>1, <1>2, <1>3
<1>5. TypeOK'
  <2>1. toServer' \in [Clients -> Seq(Queued)]
    BY <1>1, <1>4
  <2> QED
    BY <2>1 DEF IInv, TypeOK, ServerOK, Queued
<1>6. ASSUME NEW d \in Clients
      PROVE  /\ phase[d] = "new" => toServer'[d] = << >> /\ fd'[d] = 0 /\ promised'[d] = {}
             /\ \A i \in DOMAIN toServer'[d] :
                  /\ toServer'[d][i].cmd = "HELLO" => i = 1 /\ fd'[d] = 0 /\ promised'[d] = {}
                  /\ toServer'[d][i].cmd \in {"SEND", "BLOCK", "UNBLOCK"} =>
                       toServer'[d][i].ip \in Clients
  <2>1. CASE d # c
    BY <1>1, <1>4, <2>1 DEF IInv, HelloFirst, Framed
  <2>2. CASE d = c
    <3>1. phase[c] # "new"
      BY HeadCommand DEF IInv
    <3>2. \A i \in DOMAIN q :
            /\ q[i].cmd = "HELLO" => i = 1
            /\ q[i].cmd \in {"SEND", "BLOCK", "UNBLOCK"} => q[i].ip \in Clients
      BY <1>2 DEF IInv, HelloFirst
    <3>3. toServer'[c] = r
      BY <1>1, <1>4
    <3>4. \A i \in DOMAIN r :
            /\ r[i].cmd # "HELLO"
            /\ r[i].cmd \in {"SEND", "BLOCK", "UNBLOCK"} => r[i].ip \in Clients
      BY <1>3, <3>2
    <3> QED
      BY <2>2, <3>1, <3>3, <3>4
  <2> QED
    BY <2>1, <2>2
<1>7. HelloFirst'
  BY <1>6 DEF HelloFirst
<1> QED
  BY <1>5, <1>7 DEF IInv

LEMMA AcceptStep ==
  ASSUME IInv, NEW c \in Clients, acceptClient(c)
  PROVE  IInv' /\ Heeded
<1> DEFINE free   == {i \in Slots : allClients[i].socket = 0}
           socket == First((1 .. Cardinality(Clients)) \ {fd[d] : d \in Clients})
<1>1. /\ toServer[c] # << >> /\ Head(toServer[c]).cmd = "HELLO"
      /\ UNCHANGED <<phase, isLoggedIn, typed, view>>
  BY DEF acceptClient, users
<1>2. PICK n \in Received(toServer[c]) :
           /\ toServer' = [toServer EXCEPT ![c] = SubSeq(@, n + 1, Len(@))]
           /\ \/ /\ allClients' = IF free = {} THEN allClients
                                  ELSE [allClients EXCEPT
                                          ![First(free)] = newClient(@, socket, c)]
                 /\ fd' = [fd EXCEPT ![c] = socket]
                 /\ serverLoginEvent(c)
                 /\ UNCHANGED <<promised, wasReset>>
              \/ Crash
  BY DEF acceptClient
<1> HIDE DEF free, socket
<1>3. ServerOK /\ fd[c] = 0 /\ promised[c] = {}
  BY <1>1, HeadCommand DEF IInv
<1>4. ServerOK' /\ Framed(c) /\ Heeded
  <2>1. CASE Crash
    BY <1>3, <2>1, CrashKeeps DEF Framed
  <2>2. CASE ~Crash
    <3>1. /\ allClients' = (IF free = {} THEN allClients
                            ELSE [allClients EXCEPT ![First(free)] = newClient(@, socket, c)])
          /\ fd' = [fd EXCEPT ![c] = socket]
          /\ serverLoginEvent(c)
          /\ UNCHANGED <<promised, wasReset>>
      BY <1>2, <2>2
    <3>2. /\ free = {i \in Slots : allClients[i].socket = 0}
          /\ socket = First((1 .. Cardinality(Clients)) \ {fd[d] : d \in Clients})
      BY DEF free, socket
    <3> QED
      BY <1>3, <3>1, <3>2, AcceptKeeps
  <2> QED
    BY <2>1, <2>2
<1> QED
  BY <1>1, <1>2, <1>4, Consumed

LEMMA ServeStep ==
  ASSUME IInv, NEW c \in Clients, serve(c)
  PROVE  IInv' /\ Heeded
<1>1. /\ fd[c] # 0 /\ toServer[c] # << >> /\ UNCHANGED <<phase, isLoggedIn, typed, view>>
  BY DEF serve, users
<1>2. PICK n \in Received(toServer[c]) :
        /\ toServer' = [toServer EXCEPT ![c] = SubSeq(@, n + 1, Len(@))]
        /\ UNCHANGED server \/ serverEvents(c, Head(toServer[c]))
  BY DEF serve
<1>3. PICK k : k = Head(toServer[c])
  OBVIOUS
<1>4. k.cmd \in Words /\ (k.cmd \in {"SEND", "BLOCK", "UNBLOCK"} => k.ip \in Clients)
  BY <1>1, <1>3, HeadCommand DEF IInv
<1>5. ServerOK' /\ Framed(c) /\ Heeded
  <2>1. CASE UNCHANGED server
    BY <2>1, StaysPut DEF IInv, Framed
  <2>2. CASE serverEvents(c, k)
    BY <1>1, <1>4, <2>2, EventsKeep DEF IInv
  <2> QED
    BY <1>2, <1>3, <2>1, <2>2
<1> QED
  BY <1>1, <1>2, <1>5, Consumed

LEMMA ClosedStep ==
  ASSUME IInv, NEW c \in Clients, serveClosed(c)
  PROVE  IInv' /\ Heeded
<1>1. fd[c] # 0 /\ UNCHANGED <<toServer, phase, isLoggedIn, view>> /\ phase[c] = "gone"
      /\ toServer[c] = << >>
  BY DEF serveClosed
<1>2. /\ typed' \in 0 .. MaxTyped
      /\ ServerOK' /\ Framed(c) /\ Heeded
  <2>1. CASE Crash /\ UNCHANGED typed
    BY <2>1, CrashKeeps DEF IInv, TypeOK, Framed
  <2>2. CASE /\ typed < MaxTyped /\ typed' = typed + 1
             /\ \E cmd \in Words, ip \in Clients : serverEvents(c, Command(cmd, ip))
    <3>1. PICK cmd \in Words, ip \in Clients : serverEvents(c, Command(cmd, ip))
      BY <2>2
    <3>2. PICK k : k = Command(cmd, ip)
      OBVIOUS
    <3>3. k.cmd \in Words /\ k.ip \in Clients
      BY <3>2 DEF Command
    <3>4. ServerOK' /\ Framed(c) /\ Heeded
      BY <1>1, <3>1, <3>2, <3>3, EventsKeep DEF IInv
    <3>5. typed' \in 0 .. MaxTyped
      BY <2>2, ChatAssumption DEF IInv, TypeOK
    <3> QED
      BY <3>4, <3>5
  <2> QED
    BY <2>1, <2>2 DEF serveClosed
<1>3. TypeOK'
  BY <1>1, <1>2 DEF IInv, TypeOK, ServerOK
<1>4. HelloFirst'
  <2>1. ASSUME NEW d \in Clients
        PROVE  /\ phase[d] = "new" => toServer[d] = << >> /\ fd'[d] = 0 /\ promised'[d] = {}
               /\ \A i \in DOMAIN toServer[d] :
                    /\ toServer[d][i].cmd = "HELLO" => i = 1 /\ fd'[d] = 0 /\ promised'[d] = {}
                    /\ toServer[d][i].cmd \in {"SEND", "BLOCK", "UNBLOCK"} =>
                         toServer[d][i].ip \in Clients
    <3>1. CASE d = c
      BY <1>1, <3>1
    <3>2. CASE d # c
      BY <1>2, <3>2 DEF IInv, HelloFirst, Framed
    <3> QED
      BY <3>1, <3>2
  <2> QED
    BY <1>1, <2>1 DEF HelloFirst
<1> QED
  BY <1>2, <1>3, <1>4 DEF IInv

LEMMA ResetStep ==
  ASSUME IInv, NEW c \in Clients, serveReset(c)
  PROVE  IInv' /\ Heeded
<1>1. /\ fd' = [fd EXCEPT ![c] = 0] /\ wasReset' = TRUE
      /\ UNCHANGED <<up, allClients, toClient, promised, toServer, phase, isLoggedIn, typed, view>>
  BY DEF serveReset, users
<1>2. fd \in [Clients -> 0 .. Cardinality(Clients)] /\ 0 \in 0 .. Cardinality(Clients)
  BY HowMany DEF IInv, ServerOK, ServerTypeOK
<1>3. /\ fd' \in [Clients -> 0 .. Cardinality(Clients)]
      /\ \A d \in Clients : fd'[d] = IF d = c THEN 0 ELSE fd[d]
  BY <1>1, <1>2
<1>4. ServerTypeOK'
  BY <1>1, <1>3 DEF IInv, ServerOK, ServerTypeOK
<1>5. OneDescriptorEach'
  BY <1>1, <1>3 DEF IInv, ServerOK, OneDescriptorEach
<1>6. BlockedOnce'
  BY <1>1 DEF IInv, ServerOK, BlockedOnce
<1>7. EntriesAreOpen' /\ NamedSenderSent' /\ PromisesKept'
  BY <1>1 DEF EntriesAreOpen, NamedSenderSent, PromisesKept
<1>8. ServerOK'
  BY <1>4, <1>5, <1>6, <1>7 DEF ServerOK
<1>9. TypeOK'
  BY <1>1, <1>4 DEF IInv, TypeOK
<1>10. HelloFirst'
  BY <1>1, <1>3 DEF IInv, HelloFirst
<1> QED
  BY <1>1, <1>8, <1>9, <1>10, SilentHeeded DEF IInv

-----------------------------------------------------------------------------
(* The client processes *)

(* A command one client more has typed. *)
LEMMA Said ==
  ASSUME IInv, NEW c \in Clients, NEW k \in Queued, Type(c, k),
         k.cmd = "HELLO" => phase[c] = "new",
         k.cmd \in {"SEND", "BLOCK", "UNBLOCK"} => k.ip \in Clients,
         ServerOK', UNCHANGED <<fd, promised>>,
         phase' \in [Clients -> {"new", "connected", "gone"}],
         isLoggedIn' \in [Clients -> BOOLEAN], view' \in [Clients -> SUBSET Clients],
         \A d \in Clients : phase'[d] = "new" => phase[d] = "new" /\ d # c
  PROVE  IInv'
<1>1. toServer \in [Clients -> Seq(Queued)]
  BY DEF IInv, TypeOK, Queued
<1>2. PICK q \in Seq(Queued) : q = toServer[c]
  BY <1>1
<1>3. PICK r : r = Append(q, k) /\ r \in Seq(Queued)
  <2>1. Append(q, k) \in Seq(Queued)
    OBVIOUS
  <2> QED
    BY <2>1
<1>4. \A i \in DOMAIN r : (i \in DOMAIN q /\ r[i] = q[i]) \/ (i = Len(q) + 1 /\ r[i] = k)
  BY <1>3
<1>5. toServer' = [toServer EXCEPT ![c] = r]
  BY <1>1, <1>2, <1>3 DEF Type
<1>6. toServer' \in [Clients -> Seq(Queued)]
  BY <1>1, <1>3, <1>5
<1>7. typed' \in 0 .. MaxTyped
  BY ChatAssumption DEF Type, IInv, TypeOK
<1>8. TypeOK'
  BY <1>6, <1>7 DEF TypeOK, ServerOK, Queued
<1>9. ASSUME NEW d \in Clients
      PROVE  /\ phase'[d] = "new" => toServer'[d] = << >> /\ fd'[d] = 0 /\ promised'[d] = {}
             /\ \A i \in DOMAIN toServer'[d] :
                  /\ toServer'[d][i].cmd = "HELLO" => i = 1 /\ fd'[d] = 0 /\ promised'[d] = {}
                  /\ toServer'[d][i].cmd \in {"SEND", "BLOCK", "UNBLOCK"} =>
                       toServer'[d][i].ip \in Clients
  <2>1. CASE d # c
    BY <1>1, <1>5, <2>1 DEF IInv, HelloFirst
  <2>2. CASE d = c
    <3>1. toServer'[c] = r
      BY <1>1, <1>5
    <3>2. k.cmd = "HELLO" => q = << >> /\ fd[c] = 0 /\ promised[c] = {}
      BY <1>2 DEF IInv, HelloFirst
    <3>3. \A i \in DOMAIN q :
            /\ q[i].cmd = "HELLO" => i = 1 /\ fd[c] = 0 /\ promised[c] = {}
            /\ q[i].cmd \in {"SEND", "BLOCK", "UNBLOCK"} => q[i].ip \in Clients
      BY <1>2 DEF IInv, HelloFirst
    <3>4. k.cmd = "HELLO" => Len(q) = 0
      BY <3>2
    <3>5. \A i \in DOMAIN r :
            /\ r[i].cmd = "HELLO" => i = 1 /\ fd[c] = 0 /\ promised[c] = {}
            /\ r[i].cmd \in {"SEND", "BLOCK", "UNBLOCK"} => r[i].ip \in Clients
      BY <1>4, <3>2, <3>3, <3>4
    <3> QED
      BY <2>2, <3>1, <3>5
  <2> QED
    BY <2>1, <2>2
<1>10. HelloFirst'
  BY <1>9 DEF HelloFirst
<1> QED
  BY <1>8, <1>10 DEF IInv

(* A client has read or dropped some of what it was sent. *)
LEMMA LessWire ==
  ASSUME ServerOK, NEW c \in Clients, NEW r \in Seq(Message),
         toClient' = [toClient EXCEPT ![c] = r],
         Len(r) <= Len(toClient[c]),
         \A i \in DOMAIN r : \E j \in DOMAIN toClient[c] : r[i] = toClient[c][j],
         UNCHANGED <<up, allClients, fd, promised, wasReset>>
  PROVE  ServerOK' /\ Heeded
<1>1. toClient \in [Clients -> Seq(Message)]
  BY DEF ServerOK, ServerTypeOK
<1>2. /\ toClient' \in [Clients -> Seq(Message)]
      /\ \A d \in Clients : toClient'[d] = IF d = c THEN r ELSE toClient[d]
  BY <1>1
<1>3. ASSUME NEW d \in Clients, NEW i \in DOMAIN toClient'[d], ~wasReset
      PROVE  IsNamed(toClient'[d][i])
  <2>1. PICK j \in DOMAIN toClient[d] : toClient'[d][i] = toClient[d][j]
    BY <1>2, <1>3
  <2> QED
    BY <1>3, <2>1 DEF ServerOK, NamedSenderSent, IsNamed
<1>4. BlockedOnce' /\ PromisesKept'
  BY SameLists
<1>5. \A i \in Slots : \A k \in DOMAIN allClients'[i].bufferMsg :
           ~wasReset => IsNamed(allClients'[i].bufferMsg[k])
  BY SameBuffers
<1>6. /\ up' \in BOOLEAN /\ promised' \in [Clients -> SUBSET Clients]
      /\ allClients' \in [Slots -> Entry]
  BY DEF ServerOK, ServerTypeOK
<1>7. ServerOK'
  BY <1>2, <1>3, <1>4, <1>5, <1>6, TableKeeps
<1>8. Heeded
  <2> SUFFICES ASSUME NEW d \in Clients, Len(toClient'[d]) > Len(toClient[d]) PROVE FALSE
    BY DEF Heeded
  <2>1. Len(toClient[d]) \in Nat /\ Len(r) \in Nat /\ Len(toClient[c]) \in Nat
    BY <1>1
  <2> QED
    BY <1>2, <2>1
<1> QED
  BY <1>7, <1>8

LEMMA ClientStep ==
  ASSUME IInv, NEW c \in Clients,
         LOGIN(c) \/ LOGOUT(c) \/ EXIT(c) \/ Talk(c)
  PROVE  IInv' /\ Heeded
<1>1. /\ phase \in [Clients -> {"new", "connected", "gone"}]
      /\ isLoggedIn \in [Clients -> BOOLEAN] /\ view \in [Clients -> SUBSET Clients]
  BY DEF IInv, TypeOK
<1>2. CASE LOGIN(c)
  <2>1. PICK k : k = Command(IF phase[c] = "new" THEN "HELLO" ELSE "LOGIN", NoIP)
    OBVIOUS
  <2>2. /\ k \in Queued /\ (k.cmd = "HELLO" => phase[c] = "new")
        /\ k.cmd \notin {"SEND", "BLOCK", "UNBLOCK"}
    BY <2>1 DEF Command, Queued, Words
  <2>3. /\ Type(c, k) /\ UNCHANGED <<server, view>>
        /\ phase' = [phase EXCEPT ![c] = "connected"]
        /\ isLoggedIn' = [isLoggedIn EXCEPT ![c] = TRUE]
    BY <1>2, <2>1 DEF LOGIN
  <2>4. ServerOK' /\ Heeded /\ UNCHANGED <<fd, promised>>
    BY <2>3, StaysPut DEF IInv
  <2>5. /\ phase' \in [Clients -> {"new", "connected", "gone"}]
        /\ \A d \in Clients : phase'[d] = "new" => phase[d] = "new" /\ d # c
        /\ isLoggedIn' \in [Clients -> BOOLEAN] /\ view' \in [Clients -> SUBSET Clients]
    BY <1>1, <2>3
  <2> QED
    BY <2>2, <2>3, <2>4, <2>5, Said
<1>3. CASE LOGOUT(c)
  <2>1. PICK k : k = Command("LOGOUT", NoIP)
    OBVIOUS
  <2>2. k \in Queued /\ k.cmd \notin {"SEND", "BLOCK", "UNBLOCK", "HELLO"}
    BY <2>1 DEF Command, Queued, Words
  <2>3. /\ Type(c, k) /\ UNCHANGED <<server, phase, view>> /\ phase[c] = "connected"
        /\ isLoggedIn' = [isLoggedIn EXCEPT ![c] = FALSE]
    BY <1>3, <2>1 DEF LOGOUT
  <2>4. ServerOK' /\ Heeded /\ UNCHANGED <<fd, promised>>
    BY <2>3, StaysPut DEF IInv
  <2>5. /\ phase' \in [Clients -> {"new", "connected", "gone"}]
        /\ \A d \in Clients : phase'[d] = "new" => phase[d] = "new" /\ d # c
        /\ isLoggedIn' \in [Clients -> BOOLEAN] /\ view' \in [Clients -> SUBSET Clients]
    BY <1>1, <2>3
  <2> QED
    BY <2>2, <2>3, <2>4, <2>5, Said
<1>4. CASE EXIT(c)
  <2>1. PICK k : k = Command("EXIT", NoIP)
    OBVIOUS
  <2>2. k \in Queued /\ k.cmd \notin {"SEND", "BLOCK", "UNBLOCK", "HELLO"}
    BY <2>1 DEF Command, Queued, Words
  <2>3. /\ Type(c, k) /\ UNCHANGED <<up, allClients, fd, promised, wasReset>>
        /\ phase' = [phase EXCEPT ![c] = "gone"]
        /\ isLoggedIn' = [isLoggedIn EXCEPT ![c] = FALSE]
        /\ view' = [view EXCEPT ![c] = {}]
        /\ toClient' = [toClient EXCEPT ![c] = << >>]
    BY <1>4, <2>1 DEF EXIT
  <2>4. ServerOK' /\ Heeded
    <3>1. PICK r : r = << >> /\ r \in Seq(Message)
      <4>1. << >> \in Seq(Message)
        OBVIOUS
      <4> QED
        BY <4>1
    <3>2. Len(toClient[c]) \in Nat
      BY DEF IInv, ServerOK, ServerTypeOK
    <3>3. Len(r) <= Len(toClient[c]) /\ DOMAIN r = {}
      BY <3>1, <3>2
    <3> QED
      BY <2>3, <3>1, <3>3, LessWire DEF IInv
  <2>5. /\ phase' \in [Clients -> {"new", "connected", "gone"}]
        /\ \A d \in Clients : phase'[d] = "new" => phase[d] = "new" /\ d # c
        /\ isLoggedIn' \in [Clients -> BOOLEAN] /\ view' \in [Clients -> SUBSET Clients]
    BY <1>1, <2>3
  <2> QED
    BY <2>2, <2>3, <2>4, <2>5, Said
<1>5. CASE Talk(c)
  <2>1. PICK k : k \in Queued /\ Type(c, k) /\ k.cmd # "HELLO"
                 /\ (k.cmd \in {"SEND", "BLOCK", "UNBLOCK"} => k.ip \in Clients)
    <3>1. CASE \E cmd \in {"REFRESH", "BROADCAST"} : Type(c, Command(cmd, NoIP))
      BY <3>1 DEF Command, Queued, Words
    <3>2. CASE \E cmd \in {"SEND", "BLOCK", "UNBLOCK"}, ip \in view[c] : Type(c, Command(cmd, ip))
      BY <1>1, <3>2 DEF Command, Queued, Words
    <3> QED
      BY <1>5, <3>1, <3>2 DEF Talk
  <2>2. UNCHANGED <<server, phase, isLoggedIn, view>> /\ phase[c] = "connected"
    BY <1>5 DEF Talk
  <2>3. ServerOK' /\ Heeded /\ UNCHANGED <<fd, promised>>
    BY <2>2, StaysPut DEF IInv
  <2>4. /\ phase' \in [Clients -> {"new", "connected", "gone"}]
        /\ \A d \in Clients : phase'[d] = "new" => phase[d] = "new" /\ d # c
        /\ isLoggedIn' \in [Clients -> BOOLEAN] /\ view' \in [Clients -> SUBSET Clients]
    BY <1>1, <2>2
  <2> QED
    BY <2>1, <2>2, <2>3, <2>4, Said
<1> QED
  BY <1>2, <1>3, <1>4, <1>5

LEMMA ReceiveStep ==
  ASSUME IInv, NEW c \in Clients, receive(c)
  PROVE  IInv' /\ Heeded
<1>1. /\ toClient[c] # << >> /\ UNCHANGED <<up, allClients, fd, promised, wasReset>>
      /\ UNCHANGED <<toServer, phase, isLoggedIn, typed>>
  BY DEF receive, users
<1>2. toClient \in [Clients -> Seq(Message)]
  BY DEF IInv, ServerOK, ServerTypeOK
<1>3. PICK q \in Seq(Message) : q = toClient[c]
  BY <1>2
<1>4. PICK n \in Received(q) : toClient' = [toClient EXCEPT ![c] = SubSeq(q, n + 1, Len(q))]
  BY <1>2, <1>3 DEF receive
<1>5. PICK r : r = SubSeq(q, n + 1, Len(q))
  OBVIOUS
<1>6. /\ r \in Seq(Message) /\ Len(r) < Len(q)
      /\ \A i \in DOMAIN r : i + n \in DOMAIN q /\ r[i] = q[i + n]
  BY <1>5, Suffix
<1>7. /\ Len(r) <= Len(toClient[c])
      /\ \A i \in DOMAIN r : \E j \in DOMAIN toClient[c] : r[i] = toClient[c][j]
  BY <1>3, <1>6
<1>8. ServerOK' /\ Heeded
  BY <1>1, <1>4, <1>5, <1>6, <1>7, LessWire DEF IInv
<1>9. view' \in [Clients -> SUBSET Clients]
  <2>1. PICK m : m = Head(q)
    OBVIOUS
  <2>2. m \in Message
    BY <1>1, <1>3, <2>1
  <2>3. m.ips \in SUBSET Clients
    BY <2>2 DEF Message
  <2>4. view' = view \/ view' = [view EXCEPT ![c] = m.ips]
    BY <1>3, <2>1 DEF receive
  <2> QED
    BY <2>3, <2>4 DEF IInv, TypeOK
<1>10. TypeOK'
  BY <1>1, <1>8, <1>9 DEF IInv, TypeOK, ServerOK
<1>11. HelloFirst'
  BY <1>1 DEF IInv, HelloFirst
<1> QED
  BY <1>8, <1>10, <1>11 DEF IInv

-----------------------------------------------------------------------------
(* The specification *)

LEMMA InitIInv == Init => IInv
<1> SUFFICES ASSUME Init PROVE IInv
  OBVIOUS
<1>1. /\ up = TRUE /\ wasReset = FALSE /\ typed = 0
      /\ fd = [c \in Clients |-> 0]
      /\ toServer = [c \in Clients |-> << >>] /\ toClient = [c \in Clients |-> << >>]
      /\ phase = [c \in Clients |-> "new"] /\ isLoggedIn = [c \in Clients |-> FALSE]
      /\ view = [c \in Clients |-> {}] /\ promised = [c \in Clients |-> {}]
  BY DEF Init
<1>2. PICK e : e = [socket |-> 0, IP |-> NoIP, status |-> "unset",
                    bufferMsg |-> << >>, blockedUser |-> << >>]
  OBVIOUS
<1>3. allClients = [i \in Slots |-> e]
  BY <1>2 DEF Init
<1>4. 0 \in 0 .. Cardinality(Clients) /\ 0 \in 0 .. MaxTyped
  BY HowMany, ChatAssumption
<1>5. << >> \in Seq(Message) /\ << >> \in Seq(Clients) /\ << >> \in Seq(Queued)
  OBVIOUS
<1>6. e \in Entry
  BY <1>2, <1>4, <1>5 DEF Entry
<1>7. e.socket = 0 /\ e.bufferMsg = << >> /\ e.blockedUser = << >>
  BY <1>2
<1>8. \A i \in Slots : allClients[i] = e
  BY <1>3
<1>9. \A c \in Clients : /\ fd[c] = 0 /\ toServer[c] = << >> /\ toClient[c] = << >>
                         /\ promised[c] = {}
  BY <1>1
<1>10. ServerTypeOK
  <2>1. toClient \in [Clients -> Seq(Message)] /\ allClients \in [Slots -> Entry]
    BY <1>1, <1>3, <1>5, <1>6
  <2>2. promised \in [Clients -> SUBSET Clients] /\ fd \in [Clients -> 0 .. Cardinality(Clients)]
    BY <1>1, <1>4
  <2> QED
    BY <1>1, <2>1, <2>2 DEF ServerTypeOK
<1>11. ServerOK
  <2>1. OneDescriptorEach /\ EntriesAreOpen /\ PromisesKept
    BY <1>7, <1>8, <1>9 DEF OneDescriptorEach, EntriesAreOpen, PromisesKept
  <2>2. NamedSenderSent /\ BlockedOnce
    BY <1>7, <1>8, <1>9 DEF NamedSenderSent, BlockedOnce
  <2> QED
    BY <1>10, <2>1, <2>2 DEF ServerOK
<1>12. TypeOK
  <2>1. toServer \in [Clients -> Seq(Queued)]
    BY <1>1, <1>5
  <2> QED
    BY <1>1, <1>4, <1>10, <2>1 DEF TypeOK, Queued
<1>13. HelloFirst
  BY <1>9 DEF HelloFirst
<1> QED
  BY <1>11, <1>12, <1>13 DEF IInv

LEMMA StepKeeps == IInv /\ [Next]_vars => IInv' /\ Heeded
<1> SUFFICES ASSUME IInv, [Next]_vars PROVE IInv' /\ Heeded
  OBVIOUS
<1>1. CASE UNCHANGED vars
  <2>1. UNCHANGED server /\ UNCHANGED <<phase, isLoggedIn, typed, toServer, view, fd, promised>>
    BY <1>1 DEF vars, users, server
  <2>2. ServerOK' /\ Heeded
    BY <2>1, StaysPut DEF IInv
  <2>3. TypeOK' /\ HelloFirst'
    BY <2>1, <2>2 DEF IInv, TypeOK, HelloFirst, ServerOK
  <2> QED
    BY <2>2, <2>3 DEF IInv
<1>2. CASE Next
  <2>1. PICK c \in Clients :
          \/ LOGIN(c) \/ LOGOUT(c) \/ EXIT(c) \/ Talk(c) \/ receive(c)
          \/ acceptClient(c) \/ serve(c) \/ serveClosed(c) \/ serveReset(c)
    BY <1>2 DEF Next
  <2>2. CASE LOGIN(c) \/ LOGOUT(c) \/ EXIT(c) \/ Talk(c)
    BY <2>2, ClientStep
  <2>3. CASE receive(c)
    BY <2>3, ReceiveStep
  <2>4. CASE acceptClient(c)
    BY <2>4, AcceptStep
  <2>5. CASE serve(c)
    BY <2>5, ServeStep
  <2>6. CASE serveClosed(c)
    BY <2>6, ClosedStep
  <2>7. CASE serveReset(c)
    BY <2>7, ResetStep
  <2> QED
    BY <2>1, <2>2, <2>3, <2>4, <2>5, <2>6, <2>7
<1> QED
  BY <1>1, <1>2

(* The types hold, descriptors and entries belong together, and lists hold *)
(* what was promised, whoever comes, goes, talks and blocks in what order. *)
THEOREM Invariance == Spec => []IInv
<1>1. Init => IInv
  BY InitIInv
<1>2. IInv /\ [Next]_vars => IInv'
  BY StepKeeps
<1> QED
  BY <1>1, <1>2, PTL DEF Spec

(* No message carries another client's name until a recv fails, though the *)
(* sender is looked up by a descriptor that is used again.                 *)
THEOREM NamedAlways == Spec => []NamedSenderSent
<1>1. IInv => NamedSenderSent
  BY DEF IInv, ServerOK
<1> QED
  BY <1>1, Invariance, PTL

(* Until a recv fails no entry outlives its connection.                    *)
THEOREM OpenAlways == Spec => []EntriesAreOpen
<1>1. IInv => EntriesAreOpen
  BY DEF IInv, ServerOK
<1> QED
  BY <1>1, Invariance, PTL

(* No block list holds a host twice, in an entry's second use either.      *)
THEOREM OnceAlways == Spec => []BlockedOnce
<1>1. IInv => BlockedOnce
  BY DEF IInv, ServerOK
<1> QED
  BY <1>1, Invariance, PTL

(* A confirmed block stands until it is lifted: no step relays a message   *)
(* of the blocked host to the client.                                      *)
THEOREM BlocksStand == Spec => BlockStands
<1>1. IInv /\ [Next]_vars =>
        [\A c \in Clients : Len(toClient'[c]) > Len(toClient[c]) =>
           LET m == toClient'[c][Len(toClient'[c])]
           IN  ~wasReset /\ m.type = "SEND" => m.from \notin promised[c]]_vars
  BY StepKeeps DEF Heeded
<1> QED
  BY <1>1, Invariance, PTL DEF Spec, BlockStands
=============================================================================
