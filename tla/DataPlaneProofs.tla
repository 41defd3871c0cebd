-------------------------- MODULE DataPlaneProofs --------------------------
(***************************************************************************)
(* What holds of the data plane for every network, every set of transfers  *)
(* and any routes: types, that failures spread only along connections,     *)
(* that a destination's statistics agree with its files, and, as long as   *)
(* no route and no connection in use is replaced, the order of the packets *)
(* in the files and of those a router remembers.                           *)
(*                                                                         *)
(* The first part keeps types, links and failures (IInv).  The second      *)
(* counts where packets lie and what records list (StatsInv).  The third   *)
(* follows the packets of a transfer from router to router (FlowInv).      *)
(***************************************************************************)
EXTENDS DataPlane, FiniteSetTheorems, SequenceTheorems, WellFoundedInduction, TLAPS

-----------------------------------------------------------------------------
(* Failures *)

(* What a step may do to the routers that are down and their links: none   *)
(* comes up, no link goes, and a router that goes down is a first one or   *)
(* linked with one that was down before.                                   *)
Downwards ==
  /\ \A n \in Router : ~Running(n) => ~Running(n)'
  /\ \A m, n \in Router : Linked(m, n) => Linked(m, n)'
  /\ first \subseteq first'
  /\ \A n \in Router : ~Running(n)' =>
       ~Running(n) \/ n \in first' \/ \E p \in Router : ~Running(p) /\ Linked(n, p)'

(* Take a group that is down and linked after the step, without first ones. *)
(* The routers of it that were down before are a group that was down and    *)
(* linked before the step, and there is at least one.                       *)
LEMMA SpreadKept ==
  ASSUME FailuresSpread, Downwards
  PROVE  FailuresSpread'
<1>1. SUFFICES ASSUME NEW S \in SUBSET {r \in Router : ~Running(r)'},
                      S # {},
                      \A r \in S, n \in Router : ~Running(n)' /\ Linked(r, n)' => n \in S,
                      S \cap first' = {}
               PROVE  FALSE
  BY DEF FailuresSpread
<1> DEFINE WereDown == {r \in S : ~Running(r)}
<1>2. WereDown \in SUBSET {r \in Router : ~Running(r)}
  BY <1>1
<1>3. ASSUME NEW r \in WereDown, NEW n \in Router, ~Running(n), Linked(r, n)
      PROVE  n \in WereDown
  BY <1>1, <1>3 DEF Downwards
<1>4. WereDown # {}
  <2>1. PICK s \in S : TRUE
    BY <1>1
  <2>2. CASE ~Running(s)
    BY <2>1, <2>2
  <2>3. CASE Running(s)
    <3>1. PICK p \in Router : ~Running(p) /\ Linked(s, p)'
      BY <1>1, <2>1, <2>3 DEF Downwards
    <3>2. ~Running(p)'
      BY <3>1 DEF Downwards
    <3>3. p \in S
      BY <1>1, <2>1, <3>1, <3>2
    <3>. QED
      BY <3>1, <3>3
  <2>. QED
    BY <2>2, <2>3
<1>5. WereDown \cap first # {}
  BY <1>2, <1>3, <1>4 DEF FailuresSpread
<1>. QED
  BY <1>1, <1>5 DEF Downwards

(* A step that stops no router and keeps the links. *)
LEMMA SpreadStays ==
  ASSUME up' = up, first' = first,
         \A m, n \in Router : Linked(m, n) => Linked(m, n)'
  PROVE  Downwards
BY DEF Downwards, Running

-----------------------------------------------------------------------------
(* Connections *)

LEMMA LinkedSymmetric ==
  ASSUME NEW m, NEW n
  PROVE  Linked(m, n) <=> Linked(n, m)
BY DEF Linked

(* The connections of r's descriptors and of its outbox are links of r. *)
LEMMA OutboxLinked ==
  ASSUME IInv, NEW r \in Router, outbox[r].packets # << >>
  PROVE  /\ outbox[r].via \in Conn
         /\ Peer(outbox[r].via, r) \in Router
         /\ Linked(r, Peer(outbox[r].via, r))
<1>1. PICK n \in Router : /\ outbox[r].via \in {<<r, n>>, <<n, r>>}
                          /\ conn[outbox[r].via] # "none"
  BY DEF IInv, Connected
<1>2. outbox[r].via \in Conn
  BY <1>1 DEF Conn
<1>3. Peer(outbox[r].via, r) = n
  BY <1>1 DEF Peer
<1>4. Linked(r, n)
  BY <1>1 DEF Linked
<1>. QED
  BY <1>2, <1>3, <1>4

LEMMA WatchedLinked ==
  ASSUME NEW r \in Router, NEW c \in Watched(r)
  PROVE  /\ c \in Conn
         /\ Peer(c, r) \in Router
         /\ Linked(r, Peer(c, r))
<1>1. PICK a \in Router, b \in Router : c = <<a, b>>
  BY DEF Watched, Conn
<1>2. (r = a \/ r = b) /\ conn[c] # "none"
  BY <1>1 DEF Watched
<1>3. CASE r = a
  BY <1>1, <1>2, <1>3 DEF Peer, Linked, Conn
<1>4. CASE r # a
  BY <1>1, <1>2, <1>4 DEF Peer, Linked, Conn
<1>. QED
  BY <1>3, <1>4

-----------------------------------------------------------------------------
(* What the helpers of the handlers keep *)

LEMMA PacketOf ==
  ASSUME NEW t \in Transfers, NEW i \in Nat \ {0}
  PROVE  /\ FilePacket(t, i) \in Packet
         /\ Final(t) \in Nat \ {0}
         /\ t.packets_n \in Nat /\ t.packets_n <= Final(t) /\ t.packets_n <= SeqNums
         /\ t.transfer_id \in Nat /\ t.TTL \in 0 .. UINT8 - 1
         /\ t.src \in Router /\ t.dest \in Router /\ t.src # t.dest
         /\ Number(t, i) \in Garbage .. UINT16 - 1
<1>1. /\ t \in [src : Router, dest : Router, TTL : 0 .. UINT8 - 1, transfer_id : Nat,
                packets_n : Nat, init_seq_num : SeqNum]
      /\ t.src # t.dest /\ t.packets_n <= SeqNums
  BY TransferAssumption
<1>2. FilePacket(t, i) \in Packet
  BY <1>1 DEF FilePacket, Packet
<1>3. Final(t) \in Nat \ {0} /\ t.packets_n <= Final(t)
  BY <1>1 DEF Final
<1>4. Number(t, i) \in Garbage .. UINT16 - 1
  <2>1. UINT16 \in Nat \ {0}
    BY BoundAssumption
  <2>2. t.init_seq_num + i - 1 \in Int
    BY <1>1, <2>1 DEF SeqNum
  <2>3. \A x \in Int : x % UINT16 \in -1 .. UINT16 - 1
    BY <2>1
  <2>. QED
    BY <2>2, <2>3 DEF Number, Garbage
<1>. QED
  BY <1>1, <1>2, <1>3, <1>4

LEMMA AgedIsPacket ==
  ASSUME NEW p \in Packet
  PROVE  /\ Aged(p) \in Packet
         /\ Aged(p).t = p.t /\ Aged(p).i = p.i
<1>1. (p.TTL - 1) % UINT8 \in 0 .. UINT8 - 1
  <2>1. UINT8 \in Nat \ {0} /\ p.TTL \in 0 .. UINT8 - 1
    BY BoundAssumption DEF Packet
  <2>. QED
    BY <2>1
<1>. QED
  BY <1>1 DEF Aged, Packet

(* A record never lists more than its array holds. *)
LEMMA NotedFits ==
  ASSUME NEW rec \in StatsRecord, Len(rec.seq_num) <= SeqNums, NEW n \in Garbage .. UINT16 - 1
  PROVE  /\ Noted(rec, n) \in StatsRecord
         /\ Len(Noted(rec, n).seq_num) <= SeqNums
<1>1. SeqNums \in Nat \ {0}
  BY BoundAssumption
<1>2. rec.seq_num \in Seq(Garbage .. UINT16 - 1)
  BY DEF StatsRecord
<1> DEFINE With(seq) == [rec EXCEPT !.seq_num = seq]
<1>5. ASSUME NEW seq \in Seq(Garbage .. UINT16 - 1)
      PROVE  With(seq) \in StatsRecord /\ With(seq).seq_num = seq
  BY DEF StatsRecord
<1>3. CASE Len(rec.seq_num) = SeqNums
  <2> DEFINE one == <<n>>
  <2>1. Noted(rec, n) = With(one)
    BY <1>3 DEF Noted
  <2>2. one \in Seq(Garbage .. UINT16 - 1) /\ Len(one) = 1
    OBVIOUS
  <2> HIDE DEF With, one
  <2>3. With(one) \in StatsRecord /\ With(one).seq_num = one
    BY <1>5, <2>2
  <2>4. 1 <= SeqNums
    BY <1>1
  <2>. QED
    BY <2>1, <2>2, <2>3, <2>4
<1>4. CASE Len(rec.seq_num) # SeqNums
  <2> DEFINE longer == Append(rec.seq_num, n)
  <2>1. Noted(rec, n) = With(longer)
    BY <1>4 DEF Noted
  <2>2. longer \in Seq(Garbage .. UINT16 - 1) /\ Len(longer) = Len(rec.seq_num) + 1
    BY <1>2
  <2>3. Len(rec.seq_num) \in Nat
    BY <1>2
  <2> HIDE DEF With, longer
  <2>4. With(longer) \in StatsRecord /\ With(longer).seq_num = longer
    BY <1>5, <2>2
  <2>. QED
    BY <1>1, <1>4, <2>1, <2>2, <2>3, <2>4
<1>. QED
  BY <1>3, <1>4

(* The lists of records keep their type when one record is replaced, or    *)
(* one is put in front.                                                    *)
StatsOK(list) ==
  /\ list \in Seq(StatsRecord)
  /\ \A k \in DOMAIN list : Len(list[k].seq_num) <= SeqNums

LEMMA StatsPrepended ==
  ASSUME NEW list, StatsOK(list), NEW rec \in StatsRecord, Len(rec.seq_num) <= SeqNums
  PROVE  StatsOK(<<rec>> \o list)
<1>1. list \in Seq(StatsRecord)
  BY DEF StatsOK
<1>2. /\ <<rec>> \o list \in Seq(StatsRecord)
      /\ Len(<<rec>> \o list) = Len(list) + 1
      /\ \A k \in 1 .. Len(list) + 1 :
           (<<rec>> \o list)[k] = IF k = 1 THEN rec ELSE list[k - 1]
  BY <1>1
<1>3. ASSUME NEW k \in DOMAIN (<<rec>> \o list)
      PROVE  Len((<<rec>> \o list)[k].seq_num) <= SeqNums
  <2>1. k \in 1 .. Len(list) + 1
    BY <1>1, <1>2, <1>3
  <2>2. CASE k = 1
    BY <1>2, <2>1, <2>2
  <2>3. CASE k # 1
    <3>1. k - 1 \in DOMAIN list
      BY <1>1, <2>1, <2>3
    <3>. QED
      BY <1>2, <2>1, <2>3, <3>1 DEF StatsOK
  <2>. QED
    BY <2>2, <2>3
<1>. QED
  BY <1>2, <1>3 DEF StatsOK

LEMMA StatsReplaced ==
  ASSUME NEW list, StatsOK(list), NEW k,
         NEW rec, k \in DOMAIN list => rec \in StatsRecord /\ Len(rec.seq_num) <= SeqNums
  PROVE  StatsOK([list EXCEPT ![k] = rec])
<1>1. list \in Seq(StatsRecord)
  BY DEF StatsOK
<1>2. CASE k \in DOMAIN list
  BY <1>1, <1>2 DEF StatsOK
<1>3. CASE k \notin DOMAIN list
  <2>1. [list EXCEPT ![k] = rec] = list
    BY <1>1, <1>3
  <2>. QED
    BY <2>1
<1>. QED
  BY <1>2, <1>3

LEMMA NewRecord ==
  ASSUME NEW p \in Packet, NEW before \in Unset
  PROVE  LET rec == Noted(Record(p.t.transfer_id, p.TTL, before), Number(p.t, p.i))
         IN  rec \in StatsRecord /\ Len(rec.seq_num) <= SeqNums
<1>1. before \in Seq({Garbage}) /\ Len(before) < SeqNums /\ SeqNums \in Nat /\ UINT16 \in Nat \ {0}
  BY BoundAssumption
<1>2. Garbage \in Garbage .. UINT16 - 1
  BY <1>1 DEF Garbage
<1>3. before \in Seq(Garbage .. UINT16 - 1) /\ Len(before) \in Nat
  BY <1>1, <1>2
<1>4. p.t \in Transfers /\ p.i \in Nat \ {0} /\ p.TTL \in 0 .. UINT8 - 1
  BY DEF Packet
<1>5. /\ p.t.transfer_id \in Nat
      /\ Number(p.t, p.i) \in Garbage .. UINT16 - 1
  BY <1>4, PacketOf
<1> DEFINE rec == Record(p.t.transfer_id, p.TTL, before)
<1>6. rec \in StatsRecord /\ Len(rec.seq_num) <= SeqNums
  BY <1>1, <1>3, <1>4, <1>5 DEF Record, StatsRecord
<1> HIDE DEF rec
<1>7. /\ Noted(rec, Number(p.t, p.i)) \in StatsRecord
      /\ Len(Noted(rec, Number(p.t, p.i)).seq_num) <= SeqNums
  BY <1>5, <1>6, NotedFits
<1>. QED
  BY <1>7 DEF rec

LEMMA StatsTypeKept ==
  ASSUME \A r \in Router : StatsOK(sendfile_stats_list[r]),
         sendfile_stats_list \in [Router -> Seq(StatsRecord)],
         NEW r \in Router, NEW p \in Packet, add_to_stats_list(r, p)
  PROVE  /\ \A q \in Router : StatsOK(sendfile_stats_list'[q])
         /\ sendfile_stats_list' \in [Router -> Seq(StatsRecord)]
<1> DEFINE list == sendfile_stats_list[r]
<1>1. ASSUME NEW new, StatsOK(new), sendfile_stats_list' = [sendfile_stats_list EXCEPT ![r] = new]
      PROVE  /\ \A q \in Router : StatsOK(sendfile_stats_list'[q])
             /\ sendfile_stats_list' \in [Router -> Seq(StatsRecord)]
  <2>1. new \in Seq(StatsRecord)
    BY <1>1 DEF StatsOK
  <2>2. \A q \in Router : sendfile_stats_list'[q] = IF q = r THEN new ELSE sendfile_stats_list[q]
    BY <1>1
  <2>. QED
    BY <1>1, <2>1, <2>2
<1>2. StatsOK(list)
  OBVIOUS
<1>3. CASE Records(r, p.t.transfer_id) # {}
  <2>1. PICK hit : sendfile_stats_list' =
                     [sendfile_stats_list EXCEPT ![r][hit] = Noted(@, Number(p.t, p.i))]
    BY <1>3 DEF add_to_stats_list
  <2> DEFINE rec == Noted(list[hit], Number(p.t, p.i))
  <2>2. sendfile_stats_list' = [sendfile_stats_list EXCEPT ![r] = [list EXCEPT ![hit] = rec]]
    BY <2>1
  <2>3. ASSUME hit \in DOMAIN list
        PROVE  rec \in StatsRecord /\ Len(rec.seq_num) <= SeqNums
    <3>1. list[hit] \in StatsRecord /\ Len(list[hit].seq_num) <= SeqNums
      BY <1>2, <2>3 DEF StatsOK
    <3>2. Number(p.t, p.i) \in Garbage .. UINT16 - 1
      BY PacketOf DEF Packet
    <3>. QED
      BY <3>1, <3>2, NotedFits
  <2> HIDE DEF rec, list
  <2>4. StatsOK([list EXCEPT ![hit] = rec])
    BY <1>2, <2>3, StatsReplaced
  <2>. QED
    BY <1>1, <2>2, <2>4
<1>4. CASE Records(r, p.t.transfer_id) = {}
  <2>1. PICK before \in Unset : sendfile_stats_list' =
          [sendfile_stats_list EXCEPT ![r] =
             <<Noted(Record(p.t.transfer_id, p.TTL, before), Number(p.t, p.i))>> \o list]
    BY <1>4 DEF add_to_stats_list
  <2> DEFINE rec == Noted(Record(p.t.transfer_id, p.TTL, before), Number(p.t, p.i))
  <2>2. rec \in StatsRecord /\ Len(rec.seq_num) <= SeqNums
    BY NewRecord
  <2>3. sendfile_stats_list' = [sendfile_stats_list EXCEPT ![r] = <<rec>> \o list]
    BY <2>1
  <2> HIDE DEF rec, list
  <2>4. StatsOK(<<rec>> \o list)
    BY <1>2, <2>2, StatsPrepended
  <2>. QED
    BY <1>1, <2>3, <2>4
<1>. QED
  BY <1>3, <1>4

LEMMA MemoryTypeByStats ==
  MemoryTypeOK <=>
    /\ last_data_packet \in [Router -> Seq(Packet)]
    /\ penultimate_data_packet \in [Router -> Seq(Packet)]
    /\ data_packet_flag \in [Router -> BOOLEAN]
    /\ sendfile_stats_list \in [Router -> Seq(StatsRecord)]
    /\ \A r \in Router : StatsOK(sendfile_stats_list[r])
BY DEF MemoryTypeOK, StatsOK

LEMMA RememberKept ==
  ASSUME MemoryTypeOK, NEW r \in Router, NEW p \in Packet,
         Remember(r, p), add_to_stats_list(r, p)
  PROVE  MemoryTypeOK'
<1>1. /\ last_data_packet \in [Router -> Seq(Packet)]
      /\ penultimate_data_packet \in [Router -> Seq(Packet)]
      /\ data_packet_flag \in [Router -> BOOLEAN]
      /\ sendfile_stats_list \in [Router -> Seq(StatsRecord)]
      /\ \A q \in Router : StatsOK(sendfile_stats_list[q])
  BY MemoryTypeByStats
<1>2. last_data_packet' \in [Router -> Seq(Packet)]
  <2>1. <<p>> \in Seq(Packet)
    OBVIOUS
  <2>. QED
    BY <1>1, <2>1 DEF Remember
<1>3. penultimate_data_packet' \in [Router -> Seq(Packet)]
  BY <1>1 DEF Remember
<1>4. data_packet_flag' \in [Router -> BOOLEAN]
  BY <1>1, Zenon DEF Remember, IsFin
<1>5. /\ sendfile_stats_list' \in [Router -> Seq(StatsRecord)]
      /\ \A q \in Router : StatsOK(sendfile_stats_list'[q])
  BY <1>1, StatsTypeKept
<1>. QED
  BY <1>2, <1>3, <1>4, <1>5 DEF MemoryTypeOK, StatsOK

LEMMA StoreKept ==
  ASSUME DiskTypeOK, NEW r \in Router, NEW p \in Packet, Store(r, p)
  PROVE  DiskTypeOK'
<1> DEFINE content == Append(file_buffer[r], Chunk(p))
<1>1. content \in Seq(Transfers \X Nat)
  <2>1. Chunk(p) \in Transfers \X Nat
    BY DEF Chunk, Packet
  <2>. QED
    BY <2>1 DEF DiskTypeOK
<1>2. p.t.transfer_id \in Nat
  BY PacketOf DEF Packet
<1> DEFINE file == [transfer_id |-> p.t.transfer_id, chunks |-> content]
<1>3. Append(files[r], file) \in Seq(File)
  <2>1. file \in File
    <3> HIDE DEF content
    <3>. QED
      BY <1>1, <1>2 DEF File
  <2> HIDE DEF file
  <2>. QED
    BY <2>1 DEF DiskTypeOK
<1>4. CASE IsFin(p)
  <2>1. /\ files' = [files EXCEPT ![r] = Append(files[r], file)]
        /\ file_buffer' = [file_buffer EXCEPT ![r] = << >>]
    BY <1>4 DEF Store
  <2> HIDE DEF file
  <2>. QED
    BY <1>3, <2>1 DEF DiskTypeOK, file
<1>5. CASE ~IsFin(p)
  <2>1. files' = files /\ file_buffer' = [file_buffer EXCEPT ![r] = content]
    BY <1>5 DEF Store
  <2> HIDE DEF content
  <2>. QED
    BY <1>1, <2>1 DEF DiskTypeOK
<1>. QED
  BY <1>4, <1>5

-----------------------------------------------------------------------------
(* Sending *)

LEMMA LinksStay ==
  ASSUME NEW m \in Router, NEW n \in Router, Linked(m, n),
         \A c \in Conn : conn[c] # "none" => conn'[c] # "none"
  PROVE  Linked(m, n)'
BY DEF Linked, Conn

LEMMA SendTowardsKept ==
  ASSUME NetworkTypeOK, Connected, NEW r \in Router, NEW d \in Router, Idle(r),
         NEW ps \in Seq(Packet), SendTowards(r, d, ps)
  PROVE  /\ up' \in [Router -> {"running", "exited", "hung"}]
         /\ conn' \in [Conn -> {"none", "opened", "accepted", "refused"}]
         /\ data_fd' \in [Router -> [Router -> Conn \cup {NoConn}]]
         /\ outbox' \in [Router -> [via : Conn \cup {NoConn}, packets : Seq(Packet)]]
         /\ first' \subseteq Router
         /\ Connected'
         /\ Downwards
<1>0. PICK h : h = nexthop[r][d]
  OBVIOUS
<1> DEFINE c == <<r, h>>
<1>1. /\ up \in [Router -> {"running", "exited", "hung"}]
      /\ conn \in [Conn -> {"none", "opened", "accepted", "refused"}]
      /\ data_fd \in [Router -> [Router -> Conn \cup {NoConn}]]
      /\ outbox \in [Router -> [via : Conn \cup {NoConn}, packets : Seq(Packet)]]
      /\ first \subseteq Router
      /\ h \in Router \cup {NoRoute}
  BY <1>0 DEF NetworkTypeOK
<1>2. Running(r)
  BY DEF Idle
<1>3. CASE /\ h = NoRoute
           /\ up' = [up EXCEPT ![r] = "hung"] /\ first' = first \cup {r}
           /\ UNCHANGED <<conn, data_fd, outbox>>
  <2>1. Downwards
    BY <1>1, <1>3 DEF Downwards, Running, Linked
  <2>2. Connected'
    BY <1>3 DEF Connected
  <2>. QED
    BY <1>1, <1>3, <2>1, <2>2
<1>4. CASE /\ h # NoRoute /\ up[h] = "exited"
           /\ up' = [up EXCEPT ![r] = "exited"] /\ conn' = [conn EXCEPT ![c] = "refused"]
           /\ UNCHANGED <<data_fd, outbox, first>>
  <2>1. h \in Router /\ c \in Conn
    BY <1>1, <1>4 DEF Conn
  <2>2. \A e \in Conn : conn[e] # "none" => conn'[e] # "none"
    BY <1>1, <1>4
  <2>3. Linked(r, h)' /\ ~Running(h)
    <3>1. conn'[c] = "refused"
      BY <1>1, <1>4, <2>1
    <3>2. Linked(r, h)'
      BY <3>1 DEF Linked
    <3>3. ~Running(h)
      BY <1>4 DEF Running
    <3>. QED
      BY <3>2, <3>3
  <2>4. Downwards
    <3>1. \A m, n \in Router : Linked(m, n) => Linked(m, n)'
      BY <2>2, LinksStay
    <3>2. \A n \in Router : n # r => (Running(n)' <=> Running(n))
      BY <1>1, <1>4 DEF Running
    <3>3. first' = first
      BY <1>4
    <3> HIDE DEF c
    <3>4. ASSUME NEW n \in Router, Running(n), ~Running(n)'
          PROVE  \E p \in Router : ~Running(p) /\ Linked(n, p)'
      <4>1. n = r
        BY <3>2, <3>4
      <4>. QED
        BY <2>1, <2>3, <4>1
    <3>5. \A n \in Router : ~Running(n) => ~Running(n)'
      BY <1>2, <3>2
    <3>. QED
      BY <3>1, <3>3, <3>4, <3>5 DEF Downwards
  <2>5. Connected'
    <3>1. ASSUME NEW q \in Router, NEW n \in Router, data_fd'[q][n] # NoConn
          PROVE  data_fd'[q][n] \in {<<q, n>>, <<n, q>>} /\ conn'[data_fd'[q][n]] # "none"
      <4>1. data_fd[q][n] \in {<<q, n>>, <<n, q>>} /\ conn[data_fd[q][n]] # "none"
        BY <1>4, <3>1 DEF Connected
      <4>. QED
        BY <1>4, <2>2, <4>1 DEF Conn
    <3>2. ASSUME NEW q \in Router, outbox'[q].packets # << >>
          PROVE  \E n \in Router : /\ outbox'[q].via \in {<<q, n>>, <<n, q>>}
                                   /\ conn'[outbox'[q].via] # "none"
      <4>1. PICK n \in Router : outbox[q].via \in {<<q, n>>, <<n, q>>} /\ conn[outbox[q].via] # "none"
        BY <1>4, <3>2 DEF Connected
      <4>. QED
        BY <1>4, <2>2, <4>1 DEF Conn
    <3>. QED
      BY <3>1, <3>2 DEF Connected
  <2>6. /\ up' \in [Router -> {"running", "exited", "hung"}]
        /\ conn' \in [Conn -> {"none", "opened", "accepted", "refused"}]
    BY <1>1, <1>4, <2>1
  <2>. QED
    BY <1>1, <1>4, <2>4, <2>5, <2>6
<1>5. ASSUME NEW via \in Conn, h \in Router, via \in {<<r, h>>, <<h, r>>}, conn'[via] # "none",
             \A e \in Conn : conn[e] # "none" => conn'[e] # "none",
             conn' \in [Conn -> {"none", "opened", "accepted", "refused"}],
             data_fd' = [data_fd EXCEPT ![r][h] = via],
             outbox' = [outbox EXCEPT ![r] = [via |-> via, packets |-> ps]],
             UNCHANGED <<up, first>>
      PROVE  /\ data_fd' \in [Router -> [Router -> Conn \cup {NoConn}]]
             /\ outbox' \in [Router -> [via : Conn \cup {NoConn}, packets : Seq(Packet)]]
             /\ Connected' /\ Downwards
  <2>1. data_fd' \in [Router -> [Router -> Conn \cup {NoConn}]]
    <3>1. [data_fd[r] EXCEPT ![h] = via] \in [Router -> Conn \cup {NoConn}]
      BY <1>1, <1>5
    <3>2. data_fd' = [data_fd EXCEPT ![r] = [data_fd[r] EXCEPT ![h] = via]]
      BY <1>5
    <3>. QED
      BY <1>1, <3>1, <3>2
  <2>2. outbox' \in [Router -> [via : Conn \cup {NoConn}, packets : Seq(Packet)]]
    BY <1>1, <1>5
  <2>3. \A m, n \in Router : Linked(m, n) => Linked(m, n)'
    BY <1>5, LinksStay
  <2>4. Downwards
    BY <1>5, <2>3, SpreadStays
  <2>5. ASSUME NEW q \in Router, NEW n \in Router, data_fd'[q][n] # NoConn
        PROVE  data_fd'[q][n] \in {<<q, n>>, <<n, q>>} /\ conn'[data_fd'[q][n]] # "none"
    <3>1. CASE q = r /\ n = h
      BY <1>1, <1>5, <3>1
    <3>2. CASE ~(q = r /\ n = h)
      <4>1. data_fd'[q][n] = data_fd[q][n]
        BY <1>1, <1>5, <3>2
      <4>2. data_fd[q][n] \in {<<q, n>>, <<n, q>>} /\ conn[data_fd[q][n]] # "none"
        BY <2>5, <4>1 DEF Connected
      <4>. QED
        BY <1>5, <4>1, <4>2 DEF Conn
    <3>. QED
      BY <3>1, <3>2
  <2>6. ASSUME NEW q \in Router, outbox'[q].packets # << >>
        PROVE  \E n \in Router : /\ outbox'[q].via \in {<<q, n>>, <<n, q>>}
                                 /\ conn'[outbox'[q].via] # "none"
    <3>1. CASE q = r
      BY <1>1, <1>5, <3>1
    <3>2. CASE q # r
      <4>1. outbox'[q] = outbox[q]
        BY <1>1, <1>5, <3>2
      <4>2. PICK n \in Router : outbox[q].via \in {<<q, n>>, <<n, q>>} /\ conn[outbox[q].via] # "none"
        BY <2>6, <4>1 DEF Connected
      <4>. QED
        BY <1>5, <4>1, <4>2 DEF Conn
    <3>. QED
      BY <3>1, <3>2
  <2>7. Connected'
    BY <2>5, <2>6 DEF Connected
  <2>. QED
    BY <2>1, <2>2, <2>4, <2>7
<1>6. CASE /\ h # NoRoute /\ conn' = [conn EXCEPT ![c] = "opened"]
           /\ data_fd' = [data_fd EXCEPT ![r][h] = c]
           /\ outbox' = [outbox EXCEPT ![r] = [via |-> c, packets |-> ps]]
           /\ UNCHANGED <<up, first>>
  <2>1. h \in Router /\ c \in Conn
    BY <1>1, <1>6 DEF Conn
  <2>2. /\ \A e \in Conn : conn[e] # "none" => conn'[e] # "none"
        /\ conn'[c] # "none"
        /\ conn' \in [Conn -> {"none", "opened", "accepted", "refused"}]
    BY <1>1, <1>6, <2>1
  <2>. QED
    BY <1>1, <1>5, <1>6, <2>1, <2>2
<1>7. CASE /\ h # NoRoute /\ data_fd[r][h] # NoConn
           /\ outbox' = [outbox EXCEPT ![r] = [via |-> data_fd[r][h], packets |-> ps]]
           /\ UNCHANGED <<up, conn, data_fd, first>>
  <2>1. h \in Router
    BY <1>1, <1>7
  <2>2. /\ data_fd[r][h] \in {<<r, h>>, <<h, r>>} /\ conn[data_fd[r][h]] # "none"
        /\ data_fd[r][h] \in Conn
    BY <1>7, <2>1 DEF Connected, Conn
  <2>3. data_fd' = [data_fd EXCEPT ![r][h] = data_fd[r][h]]
    BY <1>1, <1>7, <2>1
  <2>. QED
    BY <1>1, <1>5, <1>7, <2>1, <2>2, <2>3
<1>. QED
  BY <1>0, <1>3, <1>4, <1>6, <1>7 DEF SendTowards

-----------------------------------------------------------------------------
(* The actions keep the invariant *)

LEMMA Combine ==
  ASSUME IInv, NetworkTypeOK', MemoryTypeOK', DiskTypeOK', Connected', Downwards
  PROVE  IInv'
BY SpreadKept DEF IInv, TypeOK

LEMMA InitIInv == Init => IInv
<1> SUFFICES ASSUME Init PROVE IInv
  OBVIOUS
<1>1. NetworkTypeOK
  <2>1. nexthop \in [Router -> [Router -> Router \cup {NoRoute}]]
    <3>1. \A r \in Router : Tables[r] \subseteq [Router -> Router \cup {NoRoute}]
      BY RouteAssumption
    <3>2. nexthop \in [Router -> UNION {Tables[r] : r \in Router}]
      BY DEF Init
    <3>. QED
      BY <3>1, <3>2
  <2>2. data_fd \in [Router -> [Router -> Conn \cup {NoConn}]]
    BY DEF Init
  <2>3. << >> \in Seq(Packet)
    OBVIOUS
  <2>4. queue \in [Conn -> [Router -> Seq(Packet)]]
    BY <2>3 DEF Init
  <2>5. outbox \in [Router -> [via : Conn \cup {NoConn}, packets : Seq(Packet)]]
    BY <2>3 DEF Init
  <2>6. disturbed \in BOOLEAN
    BY DEF Init
  <2>. QED
    BY <2>1, <2>2, <2>4, <2>5, <2>6 DEF Init, NetworkTypeOK
<1>2. MemoryTypeOK
  BY DEF Init, MemoryTypeOK
<1>3. DiskTypeOK
  BY DEF Init, DiskTypeOK
<1>4. Connected
  BY DEF Init, Connected
<1>5. FailuresSpread
  BY DEF Init, FailuresSpread, Running
<1>. QED
  BY <1>1, <1>2, <1>3, <1>4, <1>5 DEF IInv, TypeOK

LEMMA FunctionIsSequence ==
  ASSUME NEW S, NEW n \in Nat, NEW f \in [1 .. n -> S]
  PROVE  f \in Seq(S) /\ Len(f) = n
OBVIOUS

LEMMA SendfileKeeps ==
  ASSUME IInv, NEW r \in Router, NEW t \in Transfers, sendfile_handler(r, t)
  PROVE  IInv'
<1> DEFINE ps == [i \in 1 .. Final(t) |-> FilePacket(t, i)]
           numbers == [i \in 1 .. t.packets_n |-> Number(t, i)]
           rec == Record(t.transfer_id, t.TTL, numbers)
<1>1. NetworkTypeOK /\ MemoryTypeOK /\ DiskTypeOK /\ Connected
  BY DEF IInv, TypeOK
<1>2. /\ Final(t) \in Nat \ {0} /\ t.packets_n \in Nat /\ t.packets_n <= Final(t)
      /\ t.packets_n <= SeqNums /\ t.dest \in Router
      /\ t.transfer_id \in Nat /\ t.TTL \in 0 .. UINT8 - 1
  <2>1. 1 \in Nat \ {0}
    OBVIOUS
  <2>. QED
    BY <2>1, PacketOf
<1>3. \A i \in 1 .. Final(t) : FilePacket(t, i) \in Packet
  BY <1>2, PacketOf
<1>4. ps \in Seq(Packet) /\ Len(ps) = Final(t)
  <2>1. ps \in [1 .. Final(t) -> Packet]
    BY <1>3
  <2> HIDE DEF ps
  <2>. QED
    BY <1>2, <2>1
<1>5. /\ Idle(r) /\ commands' = commands \ {t}
      /\ SendTowards(r, t.dest, ps) /\ queue' = queue
      /\ last_data_packet' = [last_data_packet EXCEPT ![r] = <<ps[Final(t)]>>]
      /\ penultimate_data_packet' =
           IF t.packets_n > 1
           THEN [penultimate_data_packet EXCEPT ![r] = <<ps[t.packets_n - 1]>>]
           ELSE penultimate_data_packet
      /\ sendfile_stats_list' = [sendfile_stats_list EXCEPT ![r] = <<rec>> \o @]
      /\ UNCHANGED <<nexthop, data_packet_flag, file_buffer, files, disturbed>>
  BY DEF sendfile_handler, disk
<1>6. rec \in StatsRecord /\ Len(rec.seq_num) <= SeqNums
  <2>1. ASSUME NEW i \in 1 .. t.packets_n PROVE Number(t, i) \in Garbage .. UINT16 - 1
    <3>1. i \in Nat \ {0}
      BY <1>2
    <3>. QED
      BY <3>1, PacketOf
  <2>2. numbers \in [1 .. t.packets_n -> Garbage .. UINT16 - 1]
    BY <2>1
  <2> HIDE DEF numbers
  <2>3. numbers \in Seq(Garbage .. UINT16 - 1) /\ Len(numbers) = t.packets_n
    BY <1>2, <2>2, FunctionIsSequence
  <2>. QED
    BY <1>2, <2>3 DEF Record, StatsRecord
<1> HIDE DEF ps, rec
<1>7. /\ up' \in [Router -> {"running", "exited", "hung"}]
      /\ conn' \in [Conn -> {"none", "opened", "accepted", "refused"}]
      /\ data_fd' \in [Router -> [Router -> Conn \cup {NoConn}]]
      /\ outbox' \in [Router -> [via : Conn \cup {NoConn}, packets : Seq(Packet)]]
      /\ first' \subseteq Router
      /\ Connected' /\ Downwards
  BY <1>1, <1>2, <1>4, <1>5, SendTowardsKept
<1>8. NetworkTypeOK'
  BY <1>1, <1>5, <1>7 DEF NetworkTypeOK
<1>9. MemoryTypeOK'
  <2>1. ps[Final(t)] \in Packet
    BY <1>2, <1>4
  <2>2. last_data_packet' \in [Router -> Seq(Packet)]
    <3>1. <<ps[Final(t)]>> \in Seq(Packet)
      BY <2>1
    <3>. QED
      BY <1>1, <1>5, <3>1 DEF MemoryTypeOK
  <2>3. penultimate_data_packet' \in [Router -> Seq(Packet)]
    <3>1. CASE t.packets_n > 1
      <4>1. ps[t.packets_n - 1] \in Packet
        BY <1>2, <1>4, <3>1
      <4>2. <<ps[t.packets_n - 1]>> \in Seq(Packet)
        BY <4>1
      <4>. QED
        BY <1>1, <1>5, <3>1, <4>2 DEF MemoryTypeOK
    <3>2. CASE ~(t.packets_n > 1)
      BY <1>1, <1>5, <3>2 DEF MemoryTypeOK
    <3>. QED
      BY <3>1, <3>2
  <2>4. \A q \in Router : StatsOK(sendfile_stats_list[q])
    BY <1>1, MemoryTypeByStats
  <2>5. StatsOK(<<rec>> \o sendfile_stats_list[r])
    BY <1>6, <2>4, StatsPrepended
  <2>6. sendfile_stats_list \in [Router -> Seq(StatsRecord)]
    BY <1>1 DEF MemoryTypeOK
  <2>7. \A q \in Router : sendfile_stats_list'[q] =
          IF q = r THEN <<rec>> \o sendfile_stats_list[r] ELSE sendfile_stats_list[q]
    BY <1>5, <2>6
  <2>8. \A q \in Router : StatsOK(sendfile_stats_list'[q])
    BY <2>4, <2>5, <2>7
  <2>9. sendfile_stats_list' \in [Router -> Seq(StatsRecord)]
    <3>1. <<rec>> \o sendfile_stats_list[r] \in Seq(StatsRecord)
      BY <2>5 DEF StatsOK
    <3>. QED
      BY <1>5, <2>6, <3>1
  <2>10. data_packet_flag' \in [Router -> BOOLEAN]
    BY <1>1, <1>5 DEF MemoryTypeOK
  <2>. QED
    BY <2>2, <2>3, <2>8, <2>9, <2>10 DEF MemoryTypeOK, StatsOK
<1>10. DiskTypeOK'
  BY <1>1, <1>5 DEF DiskTypeOK
<1>. QED
  BY <1>7, <1>8, <1>9, <1>10, Combine

LEMMA ProcessKeeps ==
  ASSUME IInv, NEW r \in Router, NEW c \in Conn, process_data_packet(r, c)
  PROVE  IInv'
<1> DEFINE p == Aged(Head(queue[c][r]))
<1>1. NetworkTypeOK /\ MemoryTypeOK /\ DiskTypeOK /\ Connected
  BY DEF IInv, TypeOK
<1>2. queue[c][r] \in Seq(Packet) /\ queue[c][r] # << >> /\ Idle(r)
  BY <1>1 DEF NetworkTypeOK, process_data_packet
<1>3. Head(queue[c][r]) \in Packet /\ Tail(queue[c][r]) \in Seq(Packet)
  BY <1>2
<1>0. PICK q : q = p
  OBVIOUS
<1>4. q \in Packet /\ q.t \in Transfers /\ q.t.dest \in Router
  BY <1>0, <1>3, AgedIsPacket, TransferAssumption DEF Packet
<1>5. /\ queue' = [queue EXCEPT ![c][r] = Tail(@)]
      /\ IF q.TTL > 0 THEN Remember(r, q) /\ add_to_stats_list(r, q) ELSE UNCHANGED memory
      /\ IF q.TTL > 0 /\ q.t.dest = r THEN Store(r, q) ELSE UNCHANGED disk
      /\ IF q.TTL > 0 /\ q.t.dest # r
         THEN SendTowards(r, q.t.dest, <<q>>)
         ELSE UNCHANGED <<up, conn, data_fd, outbox, first>>
      /\ UNCHANGED <<nexthop, commands, disturbed>>
  BY <1>0 DEF process_data_packet
<1>6. /\ up' \in [Router -> {"running", "exited", "hung"}]
      /\ conn' \in [Conn -> {"none", "opened", "accepted", "refused"}]
      /\ data_fd' \in [Router -> [Router -> Conn \cup {NoConn}]]
      /\ outbox' \in [Router -> [via : Conn \cup {NoConn}, packets : Seq(Packet)]]
      /\ first' \subseteq Router
      /\ Connected' /\ Downwards
  <2>1. CASE q.TTL > 0 /\ q.t.dest # r
    <3>1. <<q>> \in Seq(Packet)
      BY <1>4
    <3>2. SendTowards(r, q.t.dest, <<q>>)
      BY <1>5, <2>1
    <3>. QED
      BY <1>1, <1>2, <1>4, <3>1, <3>2, SendTowardsKept
  <2>2. CASE ~(q.TTL > 0 /\ q.t.dest # r)
    <3>1. UNCHANGED <<up, conn, data_fd, outbox, first>>
      BY <1>5, <2>2
    <3>2. Connected'
      BY <1>1, <3>1 DEF Connected
    <3>3. Downwards
      BY <3>1 DEF Downwards, Running, Linked
    <3>. QED
      BY <1>1, <3>1, <3>2, <3>3 DEF NetworkTypeOK
  <2>. QED
    BY <2>1, <2>2
<1>7. NetworkTypeOK'
  <2>1. queue' \in [Conn -> [Router -> Seq(Packet)]]
    <3>1. queue \in [Conn -> [Router -> Seq(Packet)]]
      BY <1>1 DEF NetworkTypeOK
    <3>2. [queue[c] EXCEPT ![r] = Tail(queue[c][r])] \in [Router -> Seq(Packet)]
      BY <1>3, <3>1
    <3>3. queue' = [queue EXCEPT ![c] = [queue[c] EXCEPT ![r] = Tail(queue[c][r])]]
      BY <1>5
    <3>. QED
      BY <3>1, <3>2, <3>3
  <2>. QED
    BY <1>1, <1>5, <1>6, <2>1 DEF NetworkTypeOK
<1>8. MemoryTypeOK'
  <2>1. CASE q.TTL > 0
    BY <1>1, <1>4, <1>5, <2>1, RememberKept
  <2>2. CASE ~(q.TTL > 0)
    BY <1>1, <1>5, <2>2 DEF memory, MemoryTypeOK
  <2>. QED
    BY <2>1, <2>2
<1>9. DiskTypeOK'
  <2>1. CASE q.TTL > 0 /\ q.t.dest = r
    BY <1>1, <1>4, <1>5, <2>1, StoreKept
  <2>2. CASE ~(q.TTL > 0 /\ q.t.dest = r)
    BY <1>1, <1>5, <2>2 DEF disk, DiskTypeOK
  <2>. QED
    BY <2>1, <2>2
<1>. QED
  BY <1>6, <1>7, <1>8, <1>9, Combine

(* Steps that leave what is remembered and the files alone. *)
LEMMA CombineNetwork ==
  ASSUME IInv, NetworkTypeOK', UNCHANGED memory, UNCHANGED disk, Connected', Downwards
  PROVE  IInv'
<1>1. MemoryTypeOK'
  BY DEF IInv, TypeOK, MemoryTypeOK, memory
<1>2. DiskTypeOK'
  BY DEF IInv, TypeOK, DiskTypeOK, disk
<1>. QED
  BY <1>1, <1>2, Combine

(* A router that goes down for its link with one that is down. *)
LEMMA FollowKeeps ==
  ASSUME IInv, NEW r \in Router, NEW p \in Router, ~Running(p), Linked(r, p),
         NEW new \in {"exited", "hung"}, up' = [up EXCEPT ![r] = new],
         UNCHANGED <<nexthop, commands, network, memory, disk, history>>
  PROVE  IInv'
<1>1. NetworkTypeOK /\ Connected
  BY DEF IInv, TypeOK
<1>2. NetworkTypeOK'
  BY <1>1 DEF NetworkTypeOK, network, history
<1>3. Connected'
  BY <1>1 DEF Connected, network
<1>4. Downwards
  <2>1. up \in [Router -> {"running", "exited", "hung"}]
    BY <1>1 DEF NetworkTypeOK
  <2>2. \A m, n \in Router : Linked(m, n) => Linked(m, n)'
    BY DEF Linked, network
  <2>3. first' = first
    BY DEF history
  <2>4. \A n \in Router : up'[n] = IF n = r THEN new ELSE up[n]
    BY <2>1
  <2>5. \A n \in Router : ~Running(n)' => ~Running(n) \/ n = r
    BY <2>4 DEF Running
  <2>6. \A n \in Router : ~Running(n) => ~Running(n)'
    BY <2>4 DEF Running
  <2>. QED
    BY <2>2, <2>3, <2>5, <2>6 DEF Downwards
<1>. QED
  BY <1>2, <1>3, <1>4, CombineNetwork DEF network, memory, disk

LEMMA RecvKeeps ==
  ASSUME IInv, NEW r \in Router, NEW c \in Conn, recvALL(r, c)
  PROVE  IInv'
<1>1. /\ c \in Watched(r) /\ up[Peer(c, r)] = "exited"
      /\ UNCHANGED <<nexthop, commands, network, memory, disk, history>>
      /\ \E new \in {"exited", "hung"} : up' = [up EXCEPT ![r] = new]
  BY DEF recvALL
<1>2. Peer(c, r) \in Router /\ Linked(r, Peer(c, r)) /\ ~Running(Peer(c, r))
  BY <1>1, WatchedLinked DEF Running
<1>. QED
  BY <1>1, <1>2, FollowKeeps

LEMMA SendKeeps ==
  ASSUME IInv, NEW r \in Router, sendALL(r)
  PROVE  IInv'
<1>0. PICK c, p : c = outbox[r].via /\ p = Peer(c, r)
  OBVIOUS
<1>1. NetworkTypeOK /\ Connected
  BY DEF IInv, TypeOK
<1>2. outbox[r].packets # << >>
  BY DEF sendALL
<1>3. c \in Conn /\ p \in Router /\ Linked(r, p)
  BY <1>0, <1>2, OutboxLinked
<1>4. CASE up[p] = "exited" /\ up' = [up EXCEPT ![r] = "exited"] /\ UNCHANGED <<outbox, queue>>
  <2>1. UNCHANGED <<nexthop, commands, network, memory, disk, history>>
    BY <1>4 DEF sendALL, network
  <2>2. ~Running(p)
    BY <1>4 DEF Running
  <2>. QED
    BY <1>3, <1>4, <2>1, <2>2, FollowKeeps
<1>5. CASE /\ outbox' = [outbox EXCEPT ![r].packets = Tail(@)]
           /\ queue' = [queue EXCEPT ![c][p] = Append(@, Head(outbox[r].packets))]
           /\ UNCHANGED up
  <2>1. UNCHANGED <<nexthop, commands, conn, data_fd, memory, disk, history>>
    BY DEF sendALL
  <2>2. outbox[r].packets \in Seq(Packet) /\ outbox[r].via \in Conn \cup {NoConn}
    BY <1>1 DEF NetworkTypeOK
  <2>3. Head(outbox[r].packets) \in Packet /\ Tail(outbox[r].packets) \in Seq(Packet)
    BY <1>2, <2>2
  <2>4. outbox' \in [Router -> [via : Conn \cup {NoConn}, packets : Seq(Packet)]]
    <3>1. outbox \in [Router -> [via : Conn \cup {NoConn}, packets : Seq(Packet)]]
      BY <1>1 DEF NetworkTypeOK
    <3>. QED
      BY <1>5, <2>3, <3>1
  <2>5. queue' \in [Conn -> [Router -> Seq(Packet)]]
    <3>1. queue \in [Conn -> [Router -> Seq(Packet)]]
      BY <1>1 DEF NetworkTypeOK
    <3> DEFINE longer == Append(queue[c][p], Head(outbox[r].packets))
    <3>2. longer \in Seq(Packet)
      BY <1>3, <2>3, <3>1
    <3>3. queue' = [queue EXCEPT ![c] = [queue[c] EXCEPT ![p] = longer]]
      BY <1>5
    <3> HIDE DEF longer
    <3>4. [queue[c] EXCEPT ![p] = longer] \in [Router -> Seq(Packet)]
      BY <1>3, <3>1, <3>2
    <3>. QED
      BY <3>1, <3>3, <3>4
  <2>6. NetworkTypeOK'
    BY <1>1, <1>5, <2>1, <2>4, <2>5 DEF NetworkTypeOK, history
  <2>7. \A q \in Router : /\ outbox'[q].via = outbox[q].via
                          /\ outbox'[q].packets # << >> => outbox[q].packets # << >>
    <3>1. outbox \in [Router -> [via : Conn \cup {NoConn}, packets : Seq(Packet)]]
      BY <1>1 DEF NetworkTypeOK
    <3>. QED
      BY <1>2, <1>5, <3>1
  <2>8. Connected'
    BY <1>1, <2>1, <2>7 DEF Connected
  <2>9. Downwards
    BY <1>5, <2>1 DEF Downwards, Running, Linked, history
  <2>. QED
    BY <2>1, <2>6, <2>8, <2>9, CombineNetwork DEF memory, disk
<1>. QED
  BY <1>0, <1>4, <1>5 DEF sendALL

LEMMA AcceptKeeps ==
  ASSUME IInv, NEW r \in Router, NEW a \in Router, new_data_conn(r, a)
  PROVE  IInv'
<1>1. NetworkTypeOK /\ Connected
  BY DEF IInv, TypeOK
<1> DEFINE c == <<a, r>>
<1>2. c \in Conn
  BY DEF Conn
<1>3. /\ conn' = [conn EXCEPT ![c] = "accepted"]
      /\ UNCHANGED <<up, nexthop, commands, queue, outbox, memory, disk, first>>
      /\ \/ /\ data_fd' = [data_fd EXCEPT ![r][a] = c]
            /\ disturbed' = (disturbed \/ data_fd[r][a] # NoConn)
         \/ UNCHANGED <<data_fd, disturbed>>
  BY DEF new_data_conn
<1>4. /\ conn' \in [Conn -> {"none", "opened", "accepted", "refused"}]
      /\ \A e \in Conn : conn[e] # "none" => conn'[e] # "none"
      /\ conn'[c] # "none"
  <2>1. conn \in [Conn -> {"none", "opened", "accepted", "refused"}]
    BY <1>1 DEF NetworkTypeOK
  <2>. QED
    BY <1>2, <1>3, <2>1
<1>5. data_fd \in [Router -> [Router -> Conn \cup {NoConn}]]
  BY <1>1 DEF NetworkTypeOK
<1>6. /\ data_fd' \in [Router -> [Router -> Conn \cup {NoConn}]]
      /\ \A q, n \in Router : data_fd'[q][n] = data_fd[q][n] \/ (q = r /\ n = a /\ data_fd'[q][n] = c)
  <2>1. CASE data_fd' = [data_fd EXCEPT ![r][a] = c]
    <3>1. [data_fd[r] EXCEPT ![a] = c] \in [Router -> Conn \cup {NoConn}]
      BY <1>2, <1>5
    <3>2. data_fd' = [data_fd EXCEPT ![r] = [data_fd[r] EXCEPT ![a] = c]]
      BY <2>1
    <3>. QED
      BY <1>5, <3>1, <3>2
  <2>2. CASE data_fd' = data_fd
    BY <1>5, <2>2
  <2>. QED
    BY <1>3, <2>1, <2>2
<1>7. disturbed' \in BOOLEAN
  <2>1. disturbed \in BOOLEAN
    BY <1>1 DEF NetworkTypeOK
  <2>. QED
    BY <1>3, <2>1, Zenon
<1>8. NetworkTypeOK'
  BY <1>1, <1>3, <1>4, <1>6, <1>7 DEF NetworkTypeOK
<1>9. ASSUME NEW q \in Router, NEW n \in Router, data_fd'[q][n] # NoConn
      PROVE  data_fd'[q][n] \in {<<q, n>>, <<n, q>>} /\ conn'[data_fd'[q][n]] # "none"
  <2>1. CASE data_fd'[q][n] = data_fd[q][n]
    <3>1. data_fd[q][n] \in {<<q, n>>, <<n, q>>} /\ conn[data_fd[q][n]] # "none"
      BY <1>1, <1>9, <2>1 DEF Connected
    <3>. QED
      BY <1>4, <2>1, <3>1 DEF Conn
  <2>2. CASE q = r /\ n = a /\ data_fd'[q][n] = c
    BY <1>4, <2>2
  <2>. QED
    BY <1>6, <2>1, <2>2
<1>10. ASSUME NEW q \in Router, outbox'[q].packets # << >>
       PROVE  \E n \in Router : /\ outbox'[q].via \in {<<q, n>>, <<n, q>>}
                                /\ conn'[outbox'[q].via] # "none"
  <2>1. outbox' = outbox
    BY <1>3
  <2>2. PICK n \in Router : outbox[q].via \in {<<q, n>>, <<n, q>>} /\ conn[outbox[q].via] # "none"
    BY <1>1, <1>10, <2>1 DEF Connected
  <2>. QED
    BY <1>4, <2>1, <2>2 DEF Conn
<1>11. Connected'
  BY <1>9, <1>10 DEF Connected
<1>12. Downwards
  <2>1. \A m, n \in Router : Linked(m, n) => Linked(m, n)'
    BY <1>4, LinksStay
  <2>. QED
    BY <1>3, <2>1, SpreadStays
<1>. QED
  BY <1>3, <1>8, <1>11, <1>12, CombineNetwork DEF memory, disk

LEMMA CrashKeeps ==
  ASSUME IInv, NEW r \in Router, crash(r)
  PROVE  IInv'
<1>1. NetworkTypeOK /\ Connected
  BY DEF IInv, TypeOK
<1>2. NetworkTypeOK'
  BY <1>1 DEF NetworkTypeOK, crash, network
<1>3. Connected'
  BY <1>1 DEF Connected, crash, network
<1>4. Downwards
  BY <1>1 DEF Downwards, Running, Linked, crash, network, NetworkTypeOK, Idle
<1>. QED
  BY <1>2, <1>3, <1>4, CombineNetwork DEF crash

LEMMA RerouteKeeps ==
  ASSUME IInv, NEW r \in Router, Reroute(r)
  PROVE  IInv'
<1>1. NetworkTypeOK /\ Connected
  BY DEF IInv, TypeOK
<1>2. UNCHANGED <<up, commands, network, memory, disk, first>>
  BY DEF Reroute
<1>3. PICK row \in Tables[r] : nexthop' = [nexthop EXCEPT ![r] = row]
  BY DEF Reroute
<1>4. nexthop' \in [Router -> [Router -> Router \cup {NoRoute}]]
  <2>1. row \in [Router -> Router \cup {NoRoute}]
    BY <1>3, RouteAssumption
  <2>. QED
    BY <1>1, <1>3, <2>1 DEF NetworkTypeOK
<1>5. disturbed' \in BOOLEAN
  BY <1>1, Zenon DEF NetworkTypeOK, Reroute
<1>6. NetworkTypeOK'
  BY <1>1, <1>2, <1>4, <1>5 DEF NetworkTypeOK, network
<1>7. Connected'
  BY <1>1, <1>2 DEF Connected, network
<1>8. Downwards
  BY <1>2 DEF Downwards, Running, Linked, network
<1>. QED
  BY <1>2, <1>6, <1>7, <1>8, CombineNetwork DEF memory, disk

LEMMA NextKeeps == IInv /\ [Next]_vars => IInv'
<1> SUFFICES ASSUME IInv, [Next]_vars PROVE IInv'
  OBVIOUS
<1>1. ASSUME NEW r \in Router, NEW t \in commands, sendfile_handler(r, t)
      PROVE  IInv'
  <2>1. t \in Transfers
    BY DEF IInv, TypeOK, NetworkTypeOK
  <2>. QED
    BY <1>1, <2>1, SendfileKeeps
<1>2. ASSUME NEW r \in Router, Step(r)
      PROVE  IInv'
  <2>1. CASE sendALL(r)
    BY <2>1, SendKeeps
  <2>2. CASE \E a \in Router : new_data_conn(r, a)
    BY <2>2, AcceptKeeps
  <2>3. CASE \E c \in Conn : process_data_packet(r, c)
    BY <2>3, ProcessKeeps
  <2>4. CASE \E c \in Conn : recvALL(r, c)
    BY <2>4, RecvKeeps
  <2>. QED
    BY <1>2, <2>1, <2>2, <2>3, <2>4 DEF Step
<1>3. CASE UNCHANGED vars
  BY <1>3 DEF vars, network, memory, disk, history, IInv, TypeOK, NetworkTypeOK,
              MemoryTypeOK, DiskTypeOK, Connected, FailuresSpread, Running, Linked
<1>. QED
  BY <1>1, <1>2, <1>3, CrashKeeps, RerouteKeeps DEF Next

-----------------------------------------------------------------------------
(* Where the packets lie *)

(* The place of the next packet r stores. *)
NextPlace(r) == <<Len(files[r]) + 1, Len(file_buffer[r]) + 1>>

LEMMA PlacesByNumber ==
  ASSUME NEW r
  PROVE  \A pl : pl \in Places(r) <=>
           \E k \in 1 .. Len(files[r]) + 1 : \E j \in DOMAIN Volume(r, k) : pl = <<k, j>>
BY DEF Places

(* What a stored packet does to the places of its router: it is put behind *)
(* all others, and they stay.                                              *)
Behind(r, new, ch) ==
  /\ Places(r)' = Places(r) \cup {new}
  /\ new \notin Places(r)
  /\ ChunkAt(r, new)' = ch
  /\ \A pl \in Places(r) :
       ChunkAt(r, pl)' = ChunkAt(r, pl) /\ Before(pl, new) /\ ~Before(new, pl)

LEMMA StoreBehind ==
  ASSUME DiskTypeOK, NEW r \in Router, NEW p \in Packet, Store(r, p), NEW new, new = NextPlace(r)
  PROVE  Behind(r, new, Chunk(p))
<1>0. PICK n, m : n = Len(files[r]) /\ m = Len(file_buffer[r])
  OBVIOUS
<1> DEFINE content == Append(file_buffer[r], Chunk(p))
           file == [transfer_id |-> p.t.transfer_id, chunks |-> content]
<1>1. /\ file_buffer[r] \in Seq(Transfers \X Nat) /\ files[r] \in Seq(File)
      /\ n \in Nat /\ m \in Nat
      /\ DOMAIN files[r] = 1 .. n /\ DOMAIN file_buffer[r] = 1 .. m
  BY <1>0 DEF DiskTypeOK
<1>2. /\ DOMAIN content = 1 .. m + 1
      /\ content[m + 1] = Chunk(p)
      /\ \A j \in 1 .. m : content[j] = file_buffer[r][j]
  <2>1. Chunk(p) \in Transfers \X Nat
    BY DEF Chunk, Packet
  <2>. QED
    BY <1>1, <2>1
<1>3. /\ \A k \in 1 .. n : DOMAIN Volume(r, k) = DOMAIN Volume(r, k)' /\ Volume(r, k)' = Volume(r, k)
      /\ Volume(r, n + 1) = file_buffer[r]
      /\ Volume(r, n + 1)' = content
      /\ \A k, j : k \in 1 .. Len(files'[r]) + 1 /\ j \in DOMAIN Volume(r, k)' => k \in 1 .. n + 1
      /\ Len(files'[r]) >= n /\ Len(files'[r]) \in Nat
  <2>1. CASE IsFin(p)
    <3>1. /\ files'[r] = Append(files[r], file)
          /\ file_buffer'[r] = << >>
      BY <2>1 DEF Store, DiskTypeOK
    <3>2. file.chunks = content
      OBVIOUS
    <3> HIDE DEF file, content
    <3>3. /\ DOMAIN files'[r] = 1 .. n + 1 /\ Len(files'[r]) = n + 1
          /\ files'[r][n + 1] = file
          /\ \A k \in 1 .. n : files'[r][k] = files[r][k]
      BY <1>1, <3>1
    <3>4. \A k \in 1 .. n : Volume(r, k)' = Volume(r, k)
      BY <1>1, <3>3 DEF Volume
    <3>5. Volume(r, n + 1)' = content /\ Volume(r, n + 1) = file_buffer[r]
      BY <1>1, <3>2, <3>3 DEF Volume
    <3>6. Volume(r, n + 2)' = << >>
      BY <1>1, <3>1, <3>3 DEF Volume
    <3>7. ASSUME NEW k \in 1 .. Len(files'[r]) + 1, NEW j \in DOMAIN Volume(r, k)'
          PROVE  k \in 1 .. n + 1
      <4>1. DOMAIN << >> = {}
        OBVIOUS
      <4>2. k # n + 2
        BY <3>6, <3>7, <4>1
      <4>. QED
        BY <1>1, <3>3, <4>2
    <3>. QED
      BY <1>1, <3>3, <3>4, <3>5, <3>7
  <2>2. CASE ~IsFin(p)
    <3>1. files' = files /\ file_buffer'[r] = content
      BY <2>2 DEF Store, DiskTypeOK
    <3> HIDE DEF content
    <3>2. \A k \in 1 .. n : Volume(r, k)' = Volume(r, k)
      BY <1>1, <3>1 DEF Volume
    <3>3. Volume(r, n + 1)' = content /\ Volume(r, n + 1) = file_buffer[r]
      BY <1>1, <3>1 DEF Volume
    <3>. QED
      BY <1>1, <3>1, <3>2, <3>3
  <2>. QED
    BY <2>1, <2>2
<1>10. new = <<n + 1, m + 1>>
  BY <1>0 DEF NextPlace
<1> HIDE DEF content, file
<1> DEFINE Old(pl) == \E k \in 1 .. n : \E j \in DOMAIN Volume(r, k) : pl = <<k, j>>
<1>4. \A pl : pl \in Places(r) <=> Old(pl) \/ \E j \in 1 .. m : pl = <<n + 1, j>>
  <2>1. 1 .. Len(files[r]) + 1 = 1 .. n \cup {n + 1} /\ DOMAIN Volume(r, n + 1) = 1 .. m
    BY <1>0, <1>1, <1>3
  <2>2. \A pl : pl \in Places(r) <=>
          \E k \in 1 .. n \cup {n + 1} : \E j \in DOMAIN Volume(r, k) : pl = <<k, j>>
    BY <2>1, PlacesByNumber
  <2>. QED
    BY <2>1, <2>2
<1>5. \A pl : pl \in Places(r)' <=> Old(pl) \/ \E j \in 1 .. m + 1 : pl = <<n + 1, j>>
  <2>1. \A pl : pl \in Places(r)' <=>
          \E k \in 1 .. Len(files'[r]) + 1 : \E j \in DOMAIN Volume(r, k)' : pl = <<k, j>>
    BY DEF Places
  <2>2. /\ 1 .. n \cup {n + 1} \subseteq 1 .. Len(files'[r]) + 1
        /\ DOMAIN Volume(r, n + 1)' = 1 .. m + 1
    BY <1>1, <1>2, <1>3
  <2>3. \A k, j : k \in 1 .. Len(files'[r]) + 1 /\ j \in DOMAIN Volume(r, k)' =>
          k \in 1 .. n \cup {n + 1}
    <3>1. 1 .. n + 1 = 1 .. n \cup {n + 1}
      BY <1>1
    <3>. QED
      BY <1>3, <3>1
  <2>4. \A k \in 1 .. n : DOMAIN Volume(r, k)' = DOMAIN Volume(r, k)
    BY <1>3
  <2>5. \A pl : pl \in Places(r)' <=>
          \E k \in 1 .. n \cup {n + 1} : \E j \in DOMAIN Volume(r, k)' : pl = <<k, j>>
    BY <2>1, <2>2, <2>3
  <2>. QED
    BY <2>2, <2>4, <2>5
<1>11. ASSUME NEW pl, Old(pl)
       PROVE  pl[1] < n + 1 /\ pl[1] \in Nat /\ pl # new
  BY <1>1, <1>10, <1>11
<1>12. 1 .. m + 1 = 1 .. m \cup {m + 1} /\ m + 1 \notin 1 .. m
  BY <1>1
<1>6. Places(r)' = Places(r) \cup {new}
  <2> HIDE DEF Old
  <2>1. \A pl : (\E j \in 1 .. m + 1 : pl = <<n + 1, j>>) <=>
                 (\E j \in 1 .. m : pl = <<n + 1, j>>) \/ pl = new
    BY <1>10, <1>12
  <2>. QED
    BY <1>4, <1>5, <2>1
<1>7. new \notin Places(r)
  <2>1. ~Old(new)
    BY <1>11
  <2>2. ASSUME NEW j \in 1 .. m PROVE new # <<n + 1, j>>
    BY <1>1, <1>10
  <2> HIDE DEF Old
  <2>. QED
    BY <1>4, <2>1, <2>2
<1>8. ChunkAt(r, new)' = Chunk(p)
  <2>1. new[1] = n + 1 /\ new[2] = m + 1
    BY <1>10
  <2>2. ChunkAt(r, new)' = Volume(r, new[1])'[new[2]]
    BY DEF ChunkAt
  <2>. QED
    BY <1>2, <1>3, <2>1, <2>2
<1>9. ASSUME NEW pl \in Places(r)
      PROVE  ChunkAt(r, pl)' = ChunkAt(r, pl) /\ Before(pl, new) /\ ~Before(new, pl)
  <2>1. CASE \E k \in 1 .. n : \E j \in DOMAIN Volume(r, k) : pl = <<k, j>>
    BY <1>10, <1>1, <1>3, <2>1 DEF ChunkAt, Before
  <2>2. CASE \E j \in 1 .. m : pl = <<n + 1, j>>
    BY <1>10, <1>1, <1>2, <1>3, <2>2 DEF ChunkAt, Before
  <2>. QED
    BY <1>4, <2>1, <2>2
<1>. QED
  BY <1>6, <1>7, <1>8, <1>9 DEF Behind

(* What a step does to the packets of t at its destination: it puts one    *)
(* behind the others, or leaves them.                                      *)
Grows(t, new, i) ==
  /\ PlacesOf(t)' = PlacesOf(t) \cup {new}
  /\ new \notin PlacesOf(t)
  /\ Nth(t, new)' = i
  /\ ~Before(new, new)
  /\ \A pl \in PlacesOf(t) : Nth(t, pl)' = Nth(t, pl) /\ Before(pl, new) /\ ~Before(new, pl)

Stays(t) ==
  /\ PlacesOf(t)' = PlacesOf(t)
  /\ \A pl \in PlacesOf(t) : Nth(t, pl)' = Nth(t, pl)

LEMMA StoreGrows ==
  ASSUME DiskTypeOK, NEW t \in Transfers, NEW p \in Packet, p.t = t, Store(t.dest, p)
  PROVE  \E new : Grows(t, new, p.i)
<1>1. PICK r \in Router : r = t.dest
  BY TransferAssumption
<1>2. PICK new : new = NextPlace(r)
  OBVIOUS
<1>3. Behind(r, new, Chunk(p))
  BY <1>1, <1>2, StoreBehind
<1>4. Chunk(p)[1] = t /\ Chunk(p)[2] = p.i
  BY DEF Chunk
<1>5. PlacesOf(t) = {pl \in Places(r) : ChunkAt(r, pl)[1] = t}
  BY <1>1 DEF PlacesOf
<1>6. PlacesOf(t)' = {pl \in Places(r)' : ChunkAt(r, pl)'[1] = t}
  BY <1>1 DEF PlacesOf
<1>7. PlacesOf(t)' = PlacesOf(t) \cup {new}
  BY <1>3, <1>4, <1>5, <1>6 DEF Behind
<1>8. \A pl : Nth(t, pl)' = ChunkAt(r, pl)'[2] /\ Nth(t, pl) = ChunkAt(r, pl)[2]
  BY <1>1 DEF Nth
<1>9. ~Before(new, new)
  BY <1>2 DEF NextPlace, Before, DiskTypeOK
<1>. QED
  BY <1>3, <1>4, <1>5, <1>7, <1>8, <1>9 DEF Behind, Grows

LEMMA StoreStays ==
  ASSUME DiskTypeOK, NEW t \in Transfers, NEW r \in Router, NEW p \in Packet, p.t # t, Store(r, p)
  PROVE  Stays(t)
<1>1. PICK d \in Router : d = t.dest
  BY TransferAssumption
<1>2. PlacesOf(t) = {pl \in Places(d) : ChunkAt(d, pl)[1] = t}
  BY <1>1 DEF PlacesOf
<1>3. PlacesOf(t)' = {pl \in Places(d)' : ChunkAt(d, pl)'[1] = t}
  BY <1>1 DEF PlacesOf
<1>4. \A pl : Nth(t, pl)' = ChunkAt(d, pl)'[2] /\ Nth(t, pl) = ChunkAt(d, pl)[2]
  BY <1>1 DEF Nth
<1>5. CASE d = r
  <2>1. PICK new : new = NextPlace(r)
    OBVIOUS
  <2>2. Behind(r, new, Chunk(p))
    BY <2>1, StoreBehind
  <2>3. Chunk(p)[1] # t
    BY DEF Chunk
  <2>. QED
    BY <1>2, <1>3, <1>4, <1>5, <2>2, <2>3 DEF Behind, Stays
<1>6. CASE d # r
  <2>1. files'[d] = files[d] /\ file_buffer'[d] = file_buffer[d]
    BY <1>6 DEF Store, DiskTypeOK
  <2>2. \A k : Volume(d, k)' = Volume(d, k)
    BY <2>1 DEF Volume
  <2>3. Places(d)' = Places(d) /\ \A pl : ChunkAt(d, pl)' = ChunkAt(d, pl)
    BY <2>1, <2>2 DEF Places, ChunkAt
  <2>. QED
    BY <1>2, <1>3, <1>4, <2>3 DEF Stays
<1>. QED
  BY <1>5, <1>6

LEMMA DiskStays ==
  ASSUME UNCHANGED disk, NEW t
  PROVE  Stays(t)
<1>1. \A r, k : Volume(r, k)' = Volume(r, k)
  BY DEF Volume, disk
<1>2. \A r : Places(r)' = Places(r) /\ \A pl : ChunkAt(r, pl)' = ChunkAt(r, pl)
  BY <1>1 DEF Places, ChunkAt, disk
<1>. QED
  BY <1>2 DEF Stays, PlacesOf, Nth

-----------------------------------------------------------------------------
(* The statistics and the files *)

(* seq lists the numbers of t's last packets, counted from the end: of all *)
(* of them behind what the array held before, or they do not fit.          *)
Accounts(t, seq) ==
  /\ \A k \in Listed(seq) : \E pl \in PlacesOf(t) :
       /\ seq[k] = Number(t, Nth(t, pl))
       /\ Cardinality(Later(t, pl)) = Len(seq) - k
  /\ \/ \E before \in Unset :
          /\ Len(seq) = Len(before) + Cardinality(PlacesOf(t))
          /\ Listed(seq) = Len(before) + 1 .. Len(seq)
     \/ ~Fit(Cardinality(PlacesOf(t)))

(* list has one record of t's number if t's destination has packets of t,  *)
(* and else none.                                                          *)
Book(t, list) ==
  IF PlacesOf(t) = {}
  THEN \A k \in DOMAIN list : list[k].transfer_id # t.transfer_id
  ELSE \E k \in DOMAIN list :
         /\ list[k].transfer_id = t.transfer_id
         /\ \A j \in DOMAIN list : list[j].transfer_id = t.transfer_id => j = k
         /\ Accounts(t, list[k].seq_num)

StatsInv ==
  \A t \in Transfers :
    /\ IsFiniteSet(PlacesOf(t))
    /\ ~Shared(t) => Book(t, sendfile_stats_list[t.dest])

LEMMA LaterGrows ==
  ASSUME NEW t, NEW new, NEW i, Grows(t, new, i), IsFiniteSet(PlacesOf(t))
  PROVE  /\ IsFiniteSet(PlacesOf(t))'
         /\ Cardinality(PlacesOf(t)) \in Nat
         /\ Cardinality(PlacesOf(t))' = Cardinality(PlacesOf(t)) + 1
         /\ \A pl \in PlacesOf(t) : /\ Cardinality(Later(t, pl)) \in Nat
                                    /\ Cardinality(Later(t, pl))' = Cardinality(Later(t, pl)) + 1
         /\ Cardinality(Later(t, new))' = 0
<1>1. PICK S, S1 : S = PlacesOf(t) /\ S1 = PlacesOf(t)'
  OBVIOUS
<1>2. S1 = S \cup {new} /\ new \notin S /\ IsFiniteSet(S)
  BY <1>1 DEF Grows
<1>3. IsFiniteSet(S1) /\ Cardinality(S) \in Nat /\ Cardinality(S1) = Cardinality(S) + 1
  BY <1>2, FS_AddElement, FS_CardinalityType
<1>4. ASSUME NEW pl \in S
      PROVE  /\ Cardinality(Later(t, pl)) \in Nat
             /\ Cardinality(Later(t, pl))' = Cardinality(Later(t, pl)) + 1
  <2>1. PICK L, L1 : L = Later(t, pl) /\ L1 = Later(t, pl)'
    OBVIOUS
  <2>2. L \in SUBSET S /\ new \notin L /\ L1 = L \cup {new}
    BY <1>1, <1>2, <2>1 DEF Later, Grows
  <2>3. IsFiniteSet(L)
    BY <1>2, <2>2, FS_Subset
  <2>4. Cardinality(L) \in Nat /\ Cardinality(L1) = Cardinality(L) + 1
    BY <2>2, <2>3, FS_AddElement, FS_CardinalityType
  <2>. QED
    BY <2>1, <2>4
<1>5. Later(t, new)' = {}
  BY <1>1, <1>2 DEF Later, Grows
<1>. QED
  BY <1>1, <1>3, <1>4, <1>5, FS_EmptySet

LEMMA AccountsFresh ==
  ASSUME NEW t, NEW before \in Unset, PlacesOf(t) = {}
  PROVE  Accounts(t, before)
<1>1. before \in Seq({Garbage}) /\ Len(before) \in Nat
  BY BoundAssumption
<1>2. Listed(before) = {}
  BY <1>1 DEF Listed
<1>3. Cardinality(PlacesOf(t)) = 0
  BY FS_EmptySet
<1>4. Len(before) + 1 .. Len(before) = {}
  BY <1>1
<1>. QED
  BY <1>1, <1>2, <1>3, <1>4 DEF Accounts

LEMMA AccountsNoted ==
  ASSUME NEW t \in Transfers, NEW new, NEW i \in Nat \ {0}, Grows(t, new, i), IsFiniteSet(PlacesOf(t)),
         NEW seq \in Seq(Garbage .. UINT16 - 1), Accounts(t, seq),
         NEW noted, noted = IF Len(seq) = SeqNums THEN <<Number(t, i)>> ELSE Append(seq, Number(t, i))
  PROVE  Accounts(t, noted)'
<1>1. PICK n : n = Number(t, i)
  OBVIOUS
<1>2. n # Garbage
  <2>1. t.init_seq_num \in Nat /\ UINT16 \in Nat \ {0}
    BY TransferAssumption, BoundAssumption DEF SeqNum
  <2>2. t.init_seq_num + i - 1 \in Int
    BY <2>1
  <2>3. \A x \in Int : x % UINT16 >= 0 /\ x % UINT16 \in Int
    BY <2>1
  <2>4. n \in Int /\ n >= 0
    BY <1>1, <2>2, <2>3 DEF Number
  <2>. QED
    BY <2>4 DEF Garbage
<1>3. /\ Cardinality(PlacesOf(t)) \in Nat
      /\ Cardinality(PlacesOf(t))' = Cardinality(PlacesOf(t)) + 1
      /\ \A pl \in PlacesOf(t) : /\ Cardinality(Later(t, pl)) \in Nat
                                 /\ Cardinality(Later(t, pl))' = Cardinality(Later(t, pl)) + 1
      /\ Cardinality(Later(t, new))' = 0
  BY LaterGrows
<1>4. /\ new \in PlacesOf(t)' /\ Nth(t, new)' = i
      /\ \A pl \in PlacesOf(t) : pl \in PlacesOf(t)' /\ Nth(t, pl)' = Nth(t, pl)
  BY DEF Grows
<1>5. PICK m \in Nat : m = Cardinality(PlacesOf(t))
  BY <1>3
<1>6. \A before \in Unset : Len(before) \in Nat /\ Len(before) < SeqNums
  BY BoundAssumption
<1>7. SeqNums \in Nat
  BY BoundAssumption
<1>8. ~Fit(m) => ~Fit(m + 1)
  BY <1>6, <1>7 DEF Fit
<1>9. Accounts(t, noted)' <=>
        /\ \A k \in Listed(noted) : \E pl \in PlacesOf(t)' :
             /\ noted[k] = Number(t, Nth(t, pl)')
             /\ Cardinality(Later(t, pl))' = Len(noted) - k
        /\ \/ \E before \in Unset :
                /\ Len(noted) = Len(before) + (m + 1)
                /\ Listed(noted) = Len(before) + 1 .. Len(noted)
           \/ ~Fit(m + 1)
  BY <1>3, <1>5 DEF Accounts
<1>10. CASE Len(seq) = SeqNums
  <2>1. noted = <<n>>
    BY <1>1, <1>10
  <2>2. Len(noted) = 1 /\ noted[1] = n /\ Listed(noted) = {1}
    BY <1>2, <2>1 DEF Listed
  <2>3. ~Fit(m + 1)
    <3>1. CASE ~Fit(m)
      BY <1>8, <3>1
    <3>2. CASE Fit(m)
      <4>1. PICK before \in Unset : Len(seq) = Len(before) + m
        BY <1>5, <3>2 DEF Accounts
      <4>. QED
        BY <1>6, <1>7, <1>10, <4>1 DEF Fit
    <3>. QED
      BY <3>1, <3>2
  <2>4. ASSUME NEW k \in Listed(noted)
        PROVE  \E pl \in PlacesOf(t)' : /\ noted[k] = Number(t, Nth(t, pl)')
                                        /\ Cardinality(Later(t, pl))' = Len(noted) - k
    <3>1. k = 1
      BY <2>2
    <3>2. noted[k] = Number(t, Nth(t, new)') /\ Cardinality(Later(t, new))' = Len(noted) - k
      BY <1>1, <1>3, <1>4, <2>2, <3>1
    <3>. QED
      BY <1>4, <3>2
  <2>. QED
    BY <1>9, <2>3, <2>4
<1>11. CASE Len(seq) # SeqNums
  <2>1. noted = Append(seq, n)
    BY <1>1, <1>11
  <2>2. Len(seq) \in Nat
    OBVIOUS
  <2>3. /\ Len(noted) = Len(seq) + 1
        /\ noted[Len(seq) + 1] = n
        /\ \A k \in 1 .. Len(seq) : noted[k] = seq[k]
        /\ DOMAIN noted = 1 .. Len(seq) + 1
    BY <2>1
  <2>4. Listed(seq) \subseteq 1 .. Len(seq)
    BY DEF Listed
  <2>5. Listed(noted) = Listed(seq) \cup {Len(seq) + 1}
    <3>1. 1 .. Len(seq) + 1 = 1 .. Len(seq) \cup {Len(seq) + 1}
      BY <2>2
    <3>2. \A k : k \in Listed(noted) <=> k \in 1 .. Len(seq) + 1 /\ noted[k] # Garbage
      BY <2>3 DEF Listed
    <3>3. \A k : k \in Listed(seq) <=> k \in 1 .. Len(seq) /\ seq[k] # Garbage
      BY DEF Listed
    <3>. QED
      BY <1>2, <2>3, <3>1, <3>2, <3>3
  <2>6. ASSUME NEW k \in Listed(noted)
        PROVE  \E pl \in PlacesOf(t)' : /\ noted[k] = Number(t, Nth(t, pl)')
                                        /\ Cardinality(Later(t, pl))' = Len(noted) - k
    <3>1. CASE k = Len(seq) + 1
      <4>1. noted[k] = Number(t, Nth(t, new)') /\ Cardinality(Later(t, new))' = Len(noted) - k
        BY <1>1, <1>3, <1>4, <2>2, <2>3, <3>1
      <4>. QED
        BY <1>4, <4>1
    <3>2. CASE k \in Listed(seq)
      <4>1. PICK pl \in PlacesOf(t) : seq[k] = Number(t, Nth(t, pl)) /\ Cardinality(Later(t, pl)) = Len(seq) - k
        BY <3>2 DEF Accounts
      <4>2. k \in 1 .. Len(seq)
        BY <2>4, <3>2
      <4>3. noted[k] = Number(t, Nth(t, pl)')
        BY <1>4, <2>3, <4>1, <4>2
      <4>4. Cardinality(Later(t, pl))' = Len(noted) - k
        BY <1>3, <2>2, <2>3, <4>1, <4>2
      <4>. QED
        BY <1>4, <4>3, <4>4
    <3>. QED
      BY <2>5, <3>1, <3>2
  <2>7. \/ \E before \in Unset :
                /\ Len(noted) = Len(before) + (m + 1)
                /\ Listed(noted) = Len(before) + 1 .. Len(noted)
        \/ ~Fit(m + 1)
    <3>1. CASE ~Fit(m)
      BY <1>8, <3>1
    <3>2. CASE Fit(m)
      <4>1. PICK before \in Unset : /\ Len(seq) = Len(before) + m
                                    /\ Listed(seq) = Len(before) + 1 .. Len(seq)
        BY <1>5, <3>2 DEF Accounts
      <4>2. Len(before) \in Nat
        BY <1>6
      <4>3. Len(before) + 1 .. Len(seq) + 1 = Len(before) + 1 .. Len(seq) \cup {Len(seq) + 1}
        BY <1>5, <2>2, <4>1, <4>2
      <4>4. Len(noted) = Len(before) + (m + 1)
        BY <1>5, <2>2, <2>3, <4>1, <4>2
      <4>. QED
        BY <2>3, <2>5, <4>1, <4>3, <4>4
    <3>. QED
      BY <3>1, <3>2
  <2>. QED
    BY <1>9, <2>6, <2>7
<1>. QED
  BY <1>10, <1>11

LEMMA BookStays ==
  ASSUME NEW t, NEW list, Stays(t), Book(t, list)
  PROVE  Book(t, list)'
<1>1. PlacesOf(t)' = PlacesOf(t) /\ \A pl \in PlacesOf(t) : Nth(t, pl)' = Nth(t, pl)
  BY DEF Stays
<1>2. \A pl : Later(t, pl)' = Later(t, pl)
  BY <1>1 DEF Later
<1>3. \A seq : Accounts(t, seq) => Accounts(t, seq)'
  <2>1. ASSUME NEW seq, Accounts(t, seq)
        PROVE  Accounts(t, seq)'
    <3>1. \A k \in Listed(seq) : \E pl \in PlacesOf(t)' :
            seq[k] = Number(t, Nth(t, pl)') /\ Cardinality(Later(t, pl)') = Len(seq) - k
      <4>1. ASSUME NEW k \in Listed(seq)
            PROVE  \E pl \in PlacesOf(t)' :
                     seq[k] = Number(t, Nth(t, pl)') /\ Cardinality(Later(t, pl)') = Len(seq) - k
        <5>1. PICK pl \in PlacesOf(t) : /\ seq[k] = Number(t, Nth(t, pl))
                                        /\ Cardinality(Later(t, pl)) = Len(seq) - k
          BY <2>1 DEF Accounts
        <5>. QED
          BY <1>1, <1>2, <5>1
      <4>. QED
        BY <4>1
    <3>. QED
      BY <1>1, <2>1, <3>1 DEF Accounts
  <2>. QED
    BY <2>1
<1>. QED
  BY <1>1, <1>3 DEF Book

(* Records of other transfers do not matter, in front or in the list. *)
LEMMA BookPrepended ==
  ASSUME NEW t, NEW list \in Seq(StatsRecord), Book(t, list),
         NEW rec \in StatsRecord, rec.transfer_id # t.transfer_id
  PROVE  Book(t, <<rec>> \o list)
<1>1. PICK more : more = <<rec>> \o list
  OBVIOUS
<1>2. /\ DOMAIN list = 1 .. Len(list) /\ Len(list) \in Nat
      /\ DOMAIN more = 1 .. Len(list) + 1
      /\ more[1] = rec
      /\ \A k \in 1 .. Len(list) : more[k + 1] = list[k]
  BY <1>1
<1>3. \A j \in DOMAIN more : more[j].transfer_id = t.transfer_id =>
        j - 1 \in DOMAIN list /\ list[j - 1].transfer_id = t.transfer_id
  <2>1. ASSUME NEW j \in DOMAIN more, more[j].transfer_id = t.transfer_id
        PROVE  j - 1 \in DOMAIN list /\ list[j - 1].transfer_id = t.transfer_id
    <3>1. j # 1
      BY <1>2, <2>1
    <3>2. j - 1 \in 1 .. Len(list) /\ (j - 1) + 1 = j
      BY <1>2, <2>1, <3>1
    <3>. QED
      BY <1>2, <2>1, <3>2
  <2>. QED
    BY <2>1
<1>4. CASE PlacesOf(t) = {}
  BY <1>1, <1>3, <1>4 DEF Book
<1>5. CASE PlacesOf(t) # {}
  <2>1. PICK k \in DOMAIN list :
          /\ list[k].transfer_id = t.transfer_id
          /\ \A j \in DOMAIN list : list[j].transfer_id = t.transfer_id => j = k
          /\ Accounts(t, list[k].seq_num)
    BY <1>5 DEF Book
  <2>2. k + 1 \in DOMAIN more /\ more[k + 1] = list[k]
    BY <1>2
  <2>3. \A j \in DOMAIN more : more[j].transfer_id = t.transfer_id => j = k + 1
    BY <1>2, <1>3, <2>1
  <2>. QED
    BY <1>1, <1>5, <2>1, <2>2, <2>3 DEF Book
<1>. QED
  BY <1>4, <1>5

LEMMA BookReplaced ==
  ASSUME NEW t, NEW list, Book(t, list), NEW hit \in DOMAIN list,
         list[hit].transfer_id # t.transfer_id,
         NEW rec, rec.transfer_id # t.transfer_id
  PROVE  Book(t, [list EXCEPT ![hit] = rec])
<1>1. PICK new : new = [list EXCEPT ![hit] = rec]
  OBVIOUS
<1>2. DOMAIN new = DOMAIN list /\ \A k \in DOMAIN list : new[k] = IF k = hit THEN rec ELSE list[k]
  BY <1>1
<1>. QED
  BY <1>1, <1>2 DEF Book

LEMMA BookGrows ==
  ASSUME NEW t, NEW new, NEW i, Grows(t, new, i), NEW list, NEW k \in DOMAIN list,
         list[k].transfer_id = t.transfer_id,
         \A j \in DOMAIN list : list[j].transfer_id = t.transfer_id => j = k,
         Accounts(t, list[k].seq_num)'
  PROVE  Book(t, list)'
<1>1. PlacesOf(t)' # {}
  BY DEF Grows
<1>. QED
  BY <1>1 DEF Book

LEMMA NotedFields ==
  ASSUME NEW rec \in StatsRecord, NEW n
  PROVE  /\ Noted(rec, n).transfer_id = rec.transfer_id
         /\ Noted(rec, n).seq_num = IF Len(rec.seq_num) = SeqNums THEN <<n>> ELSE Append(rec.seq_num, n)
BY DEF Noted, StatsRecord

(* A packet of t at its destination: the record of t gets its number, or a *)
(* new one does.                                                           *)
LEMMA BookNoted ==
  ASSUME NEW t \in Transfers, NEW p \in Packet, p.t = t, NEW new, Grows(t, new, p.i),
         IsFiniteSet(PlacesOf(t)), NEW list, StatsOK(list), list = sendfile_stats_list[t.dest],
         Book(t, list), add_to_stats_list(t.dest, p), NEW after, after = sendfile_stats_list'[t.dest],
         sendfile_stats_list \in [Router -> Seq(StatsRecord)]
  PROVE  Book(t, after)'
<1>1. PICK r \in Router : r = t.dest
  BY TransferAssumption
<1>2. PICK n : n = Number(t, p.i)
  OBVIOUS
<1>3. p.i \in Nat \ {0} /\ list \in Seq(StatsRecord)
  BY DEF Packet, StatsOK
<1>4. n \in Garbage .. UINT16 - 1
  BY <1>2, <1>3, PacketOf
<1>5. Records(r, t.transfer_id) = {k \in DOMAIN list : list[k].transfer_id = t.transfer_id}
  BY <1>1 DEF Records
<1>6. CASE PlacesOf(t) # {}
  <2>1. PICK k \in DOMAIN list :
          /\ list[k].transfer_id = t.transfer_id
          /\ \A j \in DOMAIN list : list[j].transfer_id = t.transfer_id => j = k
          /\ Accounts(t, list[k].seq_num)
    BY <1>6 DEF Book
  <2>2. Records(r, t.transfer_id) = {k}
    BY <1>5, <2>1
  <2>3. (CHOOSE x \in Records(r, t.transfer_id) :
           \A j \in Records(r, t.transfer_id) : x <= j) = k
    <3>1. k <= k
      BY <1>3
    <3>. QED
      BY <2>2, <3>1
  <2>4. sendfile_stats_list' = [sendfile_stats_list EXCEPT ![r][k] = Noted(@, n)]
    BY <1>1, <1>2, <2>2, <2>3 DEF add_to_stats_list
  <2>5. after = [list EXCEPT ![k] = Noted(list[k], n)]
    BY <1>1, <2>4
  <2>6. list[k] \in StatsRecord
    BY <1>3, <2>1
  <2>7. list[k].seq_num \in Seq(Garbage .. UINT16 - 1)
    BY <2>6 DEF StatsRecord
  <2>8. /\ Noted(list[k], n).transfer_id = t.transfer_id
        /\ Noted(list[k], n).seq_num =
             IF Len(list[k].seq_num) = SeqNums THEN <<n>> ELSE Append(list[k].seq_num, n)
    BY <2>1, <2>6, NotedFields
  <2>9. PICK seq, noted : seq = list[k].seq_num /\ noted = Noted(list[k], n).seq_num
    OBVIOUS
  <2>10. Accounts(t, noted)'
    BY <1>2, <1>3, <2>1, <2>7, <2>8, <2>9, AccountsNoted
  <2>11. /\ k \in DOMAIN after /\ DOMAIN after = DOMAIN list
         /\ after[k] = Noted(list[k], n)
         /\ \A j \in DOMAIN list : j # k => after[j] = list[j]
    BY <2>1, <2>5
  <2>12. Accounts(t, after[k].seq_num)'
    BY <2>9, <2>10, <2>11
  <2>13. after[k].transfer_id = t.transfer_id
    BY <2>8, <2>11
  <2>14. \A j \in DOMAIN after : after[j].transfer_id = t.transfer_id => j = k
    BY <2>1, <2>11
  <2>. QED
    BY <2>11, <2>12, <2>13, <2>14, BookGrows
<1>7. CASE PlacesOf(t) = {}
  <2>1. \A k \in DOMAIN list : list[k].transfer_id # t.transfer_id
    BY <1>7 DEF Book
  <2>2. Records(r, t.transfer_id) = {}
    BY <1>5, <2>1
  <2>3. PICK before \in Unset : sendfile_stats_list' =
          [sendfile_stats_list EXCEPT
             ![r] = <<Noted(Record(t.transfer_id, p.TTL, before), n)>> \o @]
    BY <1>1, <1>2, <2>2 DEF add_to_stats_list
  <2>4. PICK empty, rec : /\ empty = Record(t.transfer_id, p.TTL, before)
                          /\ rec = Noted(empty, n)
    OBVIOUS
  <2>5. after = <<rec>> \o list
    BY <1>1, <2>3, <2>4
  <2>6. before \in Seq({Garbage}) /\ UINT16 \in Nat \ {0}
    BY BoundAssumption
  <2>7. before \in Seq(Garbage .. UINT16 - 1)
    <3>1. Garbage \in Garbage .. UINT16 - 1
      BY <2>6 DEF Garbage
    <3>. QED
      BY <2>6, <3>1
  <2>8. empty \in StatsRecord /\ empty.seq_num = before /\ empty.transfer_id = t.transfer_id
    <3>1. t.transfer_id \in Nat /\ p.TTL \in 0 .. UINT8 - 1
      BY TransferAssumption DEF Packet
    <3>. QED
      BY <2>4, <2>7, <3>1 DEF Record, StatsRecord
  <2>9. /\ rec.transfer_id = t.transfer_id
        /\ rec.seq_num = IF Len(before) = SeqNums THEN <<n>> ELSE Append(before, n)
    BY <2>4, <2>8, NotedFields
  <2>10. PICK noted : noted = rec.seq_num
    OBVIOUS
  <2>11. Accounts(t, before)
    BY <1>7, AccountsFresh
  <2>12. Accounts(t, noted)'
    BY <1>2, <1>3, <2>7, <2>9, <2>10, <2>11, AccountsNoted
  <2>13. /\ DOMAIN list = 1 .. Len(list) /\ Len(list) \in Nat
         /\ DOMAIN after = 1 .. Len(list) + 1
         /\ after[1] = rec
         /\ \A k \in 1 .. Len(list) : after[k + 1] = list[k]
    BY <1>3, <2>5
  <2>14. \A j \in DOMAIN after : after[j].transfer_id = t.transfer_id => j = 1
    <3>1. ASSUME NEW j \in DOMAIN after, j # 1
          PROVE  after[j].transfer_id # t.transfer_id
      <4>1. PICK x \in 1 .. Len(list) : j = x + 1
        <5>1. j - 1 \in 1 .. Len(list) /\ j = (j - 1) + 1
          BY <2>13, <3>1
        <5>. QED
          BY <5>1
      <4>2. after[j] = list[x] /\ x \in DOMAIN list
        BY <2>13, <4>1
      <4>. QED
        BY <2>1, <4>2
    <3>. QED
      BY <3>1
  <2>15. Accounts(t, after[1].seq_num)'
    BY <2>10, <2>12, <2>13
  <2>16. 1 \in DOMAIN after /\ after[1].transfer_id = t.transfer_id
    BY <2>9, <2>13
  <2>. QED
    BY <2>14, <2>15, <2>16, BookGrows
<1>. QED
  BY <1>6, <1>7

(* The search finds a first record, if there is one. *)
LEMMA FirstRecord ==
  ASSUME NEW S, S \subseteq Nat, S # {}
  PROVE  \E k \in S : \A j \in S : k <= j
<1>1. PICK k \in S : \A j \in S : ~(<<j, k>> \in OpToRel(<, Nat))
  BY WFMin, NatLessThanWellFounded
<1>2. ASSUME NEW j \in S PROVE k <= j
  <2>1. ~(j < k)
    BY <1>1 DEF OpToRel
  <2>. QED
    BY <2>1
<1>. QED
  BY <1>2

LEMMA BookOther ==
  ASSUME NEW t, NEW r \in Router, NEW p \in Packet, p.t.transfer_id # t.transfer_id,
         NEW list, StatsOK(list), list = sendfile_stats_list[r],
         Book(t, list), add_to_stats_list(r, p), NEW after, after = sendfile_stats_list'[r],
         sendfile_stats_list \in [Router -> Seq(StatsRecord)]
  PROVE  Book(t, after)
<1>1. PICK n, u : n = Number(p.t, p.i) /\ u = p.t
  OBVIOUS
<1>2. list \in Seq(StatsRecord)
  BY DEF StatsOK
<1>3. CASE Records(r, u.transfer_id) # {}
  <2>1. PICK k : /\ k = (CHOOSE x \in Records(r, u.transfer_id) :
                           \A j \in Records(r, u.transfer_id) : x <= j)
                 /\ sendfile_stats_list' = [sendfile_stats_list EXCEPT ![r][k] = Noted(@, n)]
    BY <1>1, <1>3 DEF add_to_stats_list
  <2>2. after = [list EXCEPT ![k] = Noted(list[k], n)]
    BY <2>1
  <2>3. CASE k \in DOMAIN list /\ list[k].transfer_id = u.transfer_id
    <3>1. list[k] \in StatsRecord
      BY <1>2, <2>3
    <3>2. Noted(list[k], n).transfer_id = list[k].transfer_id
      BY <3>1, NotedFields
    <3>3. PICK rec : rec = Noted(list[k], n)
      OBVIOUS
    <3>4. rec.transfer_id # t.transfer_id /\ list[k].transfer_id # t.transfer_id
      BY <1>1, <2>3, <3>2, <3>3
    <3>5. Book(t, [list EXCEPT ![k] = rec])
      BY <2>3, <3>4, BookReplaced
    <3>. QED
      BY <2>2, <3>3, <3>5
  <2>4. k \in DOMAIN list /\ list[k].transfer_id = u.transfer_id
    <3>1. PICK S : S = Records(r, u.transfer_id)
      OBVIOUS
    <3>2. S \subseteq Nat /\ S # {}
      BY <1>2, <1>3, <3>1 DEF Records
    <3>3. \E x \in S : \A j \in S : x <= j
      BY <3>2, FirstRecord
    <3>4. k \in S
      BY <2>1, <3>1, <3>3
    <3>. QED
      BY <3>1, <3>4 DEF Records
  <2>. QED
    BY <2>3, <2>4
<1>4. CASE Records(r, u.transfer_id) = {}
  <2>1. PICK before \in Unset : sendfile_stats_list' =
          [sendfile_stats_list EXCEPT
             ![r] = <<Noted(Record(u.transfer_id, p.TTL, before), n)>> \o @]
    BY <1>1, <1>4 DEF add_to_stats_list
  <2>2. PICK rec : rec = Noted(Record(u.transfer_id, p.TTL, before), n)
    OBVIOUS
  <2>3. rec \in StatsRecord
    BY <1>1, <2>2, NewRecord
  <2>4. rec.transfer_id = u.transfer_id
    BY <2>2 DEF Noted, Record
  <2>5. after = <<rec>> \o list
    BY <2>1, <2>2
  <2>. QED
    BY <1>1, <1>2, <2>3, <2>4, <2>5, BookPrepended
<1>. QED
  BY <1>3, <1>4

LEMMA StatsProcess ==
  ASSUME IInv, StatsInv, NEW r \in Router, NEW c \in Conn, process_data_packet(r, c)
  PROVE  StatsInv'
<1>1. MemoryTypeOK /\ DiskTypeOK /\ queue[c][r] \in Seq(Packet) /\ queue[c][r] # << >>
  BY DEF IInv, TypeOK, NetworkTypeOK, process_data_packet
<1>2. PICK q : q = Aged(Head(queue[c][r]))
  OBVIOUS
<1>3. q \in Packet /\ q.t \in Transfers
  <2>1. Head(queue[c][r]) \in Packet
    BY <1>1
  <2>. QED
    BY <1>2, <2>1, AgedIsPacket DEF Packet
<1>4. /\ IF q.TTL > 0 THEN Remember(r, q) /\ add_to_stats_list(r, q) ELSE UNCHANGED memory
      /\ IF q.TTL > 0 /\ q.t.dest = r THEN Store(r, q) ELSE UNCHANGED disk
  BY <1>2 DEF process_data_packet
<1>5. /\ sendfile_stats_list \in [Router -> Seq(StatsRecord)]
      /\ \A d \in Router : StatsOK(sendfile_stats_list[d])
  BY <1>1, MemoryTypeByStats
<1>6. \A d \in Router : d # r => sendfile_stats_list'[d] = sendfile_stats_list[d]
  BY <1>4, <1>5 DEF memory, add_to_stats_list
<1> SUFFICES ASSUME NEW t \in Transfers
             PROVE  /\ IsFiniteSet(PlacesOf(t))'
                    /\ ~Shared(t) => Book(t, sendfile_stats_list[t.dest])'
  BY DEF StatsInv, Shared
<1>7. IsFiniteSet(PlacesOf(t)) /\ (~Shared(t) => Book(t, sendfile_stats_list[t.dest]))
  BY DEF StatsInv
<1>12. PICK d \in Router : d = t.dest
  BY TransferAssumption
<1>8. PICK list, after : /\ d = t.dest /\ list = sendfile_stats_list[d]
                       /\ after = sendfile_stats_list'[d]
  BY <1>12
<1>9. CASE q.TTL > 0 /\ q.t = t /\ r = d
  <2>1. Store(t.dest, q) /\ add_to_stats_list(t.dest, q)
    BY <1>4, <1>8, <1>9
  <2>2. PICK new : Grows(t, new, q.i)
    BY <1>1, <1>3, <1>9, <2>1, StoreGrows
  <2>3. IsFiniteSet(PlacesOf(t))'
    BY <1>7, <2>2, LaterGrows
  <2>4. ASSUME ~Shared(t) PROVE Book(t, after)'
    <3>1. Book(t, list) /\ StatsOK(list) /\ list = sendfile_stats_list[t.dest]
          /\ after = sendfile_stats_list'[t.dest]
      BY <1>5, <1>7, <1>8, <2>4
    <3>. QED
      BY <1>3, <1>5, <1>7, <1>9, <2>1, <2>2, <3>1, BookNoted
  <2>. QED
    BY <1>8, <2>3, <2>4
<1>10. CASE ~(q.TTL > 0 /\ q.t = t /\ r = d)
  <2>1. Stays(t)
    <3>1. CASE q.TTL > 0 /\ q.t.dest = r
      <4>1. q.t # t
        BY <1>8, <1>10, <3>1
      <4>. QED
        BY <1>1, <1>3, <1>4, <3>1, <4>1, StoreStays
    <3>2. CASE ~(q.TTL > 0 /\ q.t.dest = r)
      BY <1>4, <3>2, DiskStays
    <3>. QED
      BY <3>1, <3>2
  <2>2. IsFiniteSet(PlacesOf(t))'
    BY <1>7, <2>1 DEF Stays
  <2>3. ASSUME ~Shared(t) PROVE Book(t, after)'
    <3>1. Book(t, list)
      BY <1>7, <1>8, <2>3
    <3>2. Book(t, after)
      <4>1. CASE r = d /\ q.TTL > 0
        <5>1. q.t # t
          BY <1>10, <4>1
        <5>2. q.t.transfer_id # t.transfer_id
          BY <1>3, <2>3, <5>1 DEF Shared
        <5>. QED
          BY <1>3, <1>4, <1>5, <1>8, <3>1, <4>1, <5>2, BookOther
      <4>2. CASE ~(r = d /\ q.TTL > 0)
        <5>1. after = list
          BY <1>4, <1>6, <1>8, <4>2 DEF memory
        <5>. QED
          BY <3>1, <5>1
      <4>. QED
        BY <4>1, <4>2
    <3>. QED
      BY <2>1, <3>2, BookStays
  <2>. QED
    BY <1>8, <2>2, <2>3
<1>. QED
  BY <1>9, <1>10

LEMMA StatsSendfile ==
  ASSUME IInv, StatsInv, NEW r \in Router, NEW u \in Transfers, sendfile_handler(r, u)
  PROVE  StatsInv'
<1>1. PICK rec : rec = Record(u.transfer_id, u.TTL, [i \in 1 .. u.packets_n |-> Number(u, i)])
  OBVIOUS
<1>2. /\ sendfile_stats_list \in [Router -> Seq(StatsRecord)]
      /\ \A d \in Router : StatsOK(sendfile_stats_list[d])
  BY MemoryTypeByStats DEF IInv, TypeOK
<1>3. sendfile_stats_list' = [sendfile_stats_list EXCEPT ![r] = <<rec>> \o @]
      /\ UNCHANGED disk /\ u.src = r
  BY <1>1 DEF sendfile_handler
<1>4. rec \in StatsRecord /\ rec.transfer_id = u.transfer_id
  <2>1. u.packets_n \in Nat /\ u.transfer_id \in Nat /\ u.TTL \in 0 .. UINT8 - 1
    BY TransferAssumption
  <2>2. \A i \in 1 .. u.packets_n : Number(u, i) \in Garbage .. UINT16 - 1
    BY <2>1, PacketOf
  <2>3. PICK numbers : numbers = [i \in 1 .. u.packets_n |-> Number(u, i)]
    OBVIOUS
  <2>4. numbers \in [1 .. u.packets_n -> Garbage .. UINT16 - 1]
    BY <2>2, <2>3
  <2>5. numbers \in Seq(Garbage .. UINT16 - 1)
    BY <2>1, <2>4, FunctionIsSequence
  <2>. QED
    BY <1>1, <2>1, <2>3, <2>5 DEF Record, StatsRecord
<1> SUFFICES ASSUME NEW t \in Transfers
             PROVE  /\ IsFiniteSet(PlacesOf(t))'
                    /\ ~Shared(t) => Book(t, sendfile_stats_list[t.dest])'
  BY DEF StatsInv, Shared
<1>5. IsFiniteSet(PlacesOf(t)) /\ (~Shared(t) => Book(t, sendfile_stats_list[t.dest]))
  BY DEF StatsInv
<1>10. PICK d \in Router : d = t.dest
  BY TransferAssumption
<1>6. PICK list, after : /\ d = t.dest /\ list = sendfile_stats_list[d]
                       /\ after = sendfile_stats_list'[d]
  BY <1>10
<1>7. Stays(t)
  BY <1>3, DiskStays
<1>8. IsFiniteSet(PlacesOf(t))'
  BY <1>5, <1>7 DEF Stays
<1>9. ASSUME ~Shared(t) PROVE Book(t, after)'
  <2>1. Book(t, list) /\ list \in Seq(StatsRecord)
    BY <1>2, <1>5, <1>6, <1>9
  <2>2. CASE d = r
    <3>1. u.transfer_id # t.transfer_id
      BY <1>3, <1>6, <1>9, <2>2, TransferAssumption DEF Shared
    <3>2. after = <<rec>> \o list
      BY <1>2, <1>3, <1>6, <2>2
    <3>3. Book(t, after)
      BY <1>4, <2>1, <3>1, <3>2, BookPrepended
    <3>. QED
      BY <1>7, <3>3, BookStays
  <2>3. CASE d # r
    <3>1. after = list
      BY <1>2, <1>3, <1>6, <2>3
    <3>. QED
      BY <1>7, <2>1, <3>1, BookStays
  <2>. QED
    BY <2>2, <2>3
<1>. QED
  BY <1>6, <1>8, <1>9

LEMMA StatsIdle ==
  ASSUME StatsInv, UNCHANGED memory, UNCHANGED disk
  PROVE  StatsInv'
<1> SUFFICES ASSUME NEW t \in Transfers
             PROVE  /\ IsFiniteSet(PlacesOf(t))'
                    /\ ~Shared(t) => Book(t, sendfile_stats_list[t.dest])'
  BY DEF StatsInv, Shared
<1>1. PICK list : list = sendfile_stats_list[t.dest]
  OBVIOUS
<1>2. sendfile_stats_list'[t.dest] = list
  BY <1>1 DEF memory
<1>3. Stays(t) /\ IsFiniteSet(PlacesOf(t))
  BY DiskStays DEF StatsInv
<1>4. ~Shared(t) => Book(t, list)'
  BY <1>1, <1>3, BookStays DEF StatsInv
<1>. QED
  BY <1>2, <1>3, <1>4 DEF Stays

LEMMA StatsFromInv ==
  ASSUME IInv, StatsInv
  PROVE  StatsMatchFile
<1> SUFFICES ASSUME NEW t \in Transfers, ~Shared(t)
             PROVE  LET known == Records(t.dest, t.transfer_id) # {}
                        shown == sendfile_stats_handler(t.dest, t.transfer_id).seq_num
                    IN  /\ PlacesOf(t) # {} <=> known
                        /\ known =>
                             /\ \A k \in Listed(shown) : \E pl \in PlacesOf(t) :
                                  /\ shown[k] = Number(t, Nth(t, pl))
                                  /\ Cardinality(Later(t, pl)) = Len(shown) - k
                             /\ Fit(Cardinality(PlacesOf(t))) =>
                                  Cardinality(Listed(shown)) = Cardinality(PlacesOf(t))
  BY DEF StatsMatchFile
<1>1. PICK list : list = sendfile_stats_list[t.dest]
  OBVIOUS
<1>2. Book(t, list) /\ IsFiniteSet(PlacesOf(t)) /\ list \in Seq(StatsRecord)
  BY <1>1, TransferAssumption DEF StatsInv, IInv, TypeOK, MemoryTypeOK
<1>3. Records(t.dest, t.transfer_id) = {k \in DOMAIN list : list[k].transfer_id = t.transfer_id}
  BY <1>1 DEF Records
<1>4. CASE PlacesOf(t) = {}
  BY <1>2, <1>3, <1>4 DEF Book
<1>5. CASE PlacesOf(t) # {}
  <2>1. PICK k \in DOMAIN list :
          /\ list[k].transfer_id = t.transfer_id
          /\ \A j \in DOMAIN list : list[j].transfer_id = t.transfer_id => j = k
          /\ Accounts(t, list[k].seq_num)
    BY <1>2, <1>5 DEF Book
  <2>2. Records(t.dest, t.transfer_id) = {k}
    BY <1>3, <2>1
  <2>3. (CHOOSE x \in Records(t.dest, t.transfer_id) :
           \A j \in Records(t.dest, t.transfer_id) : j <= x) = k
    <3>1. k <= k
      BY <1>2
    <3>. QED
      BY <2>2, <3>1
  <2>4. sendfile_stats_handler(t.dest, t.transfer_id) = list[k]
    BY <1>1, <2>3 DEF sendfile_stats_handler
  <2>5. PICK seq : seq = list[k].seq_num
    OBVIOUS
  <2>6. Accounts(t, seq)
    BY <2>1, <2>5
  <2>7. ASSUME Fit(Cardinality(PlacesOf(t)))
        PROVE  Cardinality(Listed(seq)) = Cardinality(PlacesOf(t))
    <3>1. PICK before \in Unset : /\ Len(seq) = Len(before) + Cardinality(PlacesOf(t))
                                  /\ Listed(seq) = Len(before) + 1 .. Len(seq)
      BY <2>6, <2>7 DEF Accounts
    <3>2. PICK a \in Nat, m \in Nat : a = Len(before) /\ m = Cardinality(PlacesOf(t))
      BY <1>2, BoundAssumption, FS_CardinalityType
    <3>3. Listed(seq) = a + 1 .. a + m
      BY <3>1, <3>2
    <3>4. Cardinality(a + 1 .. a + m) = IF a + 1 > a + m THEN 0 ELSE a + m - (a + 1) + 1
      <4>1. PICK x \in Int, y \in Int : x = a + 1 /\ y = a + m
        BY <3>2
      <4>2. Cardinality(x .. y) = IF x > y THEN 0 ELSE y - x + 1
        BY FS_Interval
      <4>. QED
        BY <4>1, <4>2
    <3>5. (IF a + 1 > a + m THEN 0 ELSE a + m - (a + 1) + 1) = m
      BY <3>2
    <3>. QED
      BY <3>2, <3>3, <3>4, <3>5
  <2>. QED
    BY <1>5, <2>2, <2>4, <2>5, <2>6, <2>7 DEF Accounts
<1>. QED
  BY <1>4, <1>5

-----------------------------------------------------------------------------
(* Packets on their way *)

Hops == 0 .. UINT8

(* A packet's way is counted in hops, and a leg is a hop to the next.  The *)
(* last leg of t is the one whose end sees no TTL left.                    *)
HopOf(p) == IF p.TTL <= p.t.TTL THEN p.t.TTL - p.TTL ELSE p.t.TTL - p.TTL + UINT8
Legs(t)  == 0 .. (IF t.TTL = 0 THEN UINT8 - 1 ELSE t.TTL - 1)

LEMMA AgedTTL ==
  ASSUME NEW v \in 0 .. UINT8 - 1
  PROVE  (v - 1) % UINT8 = IF v = 0 THEN UINT8 - 1 ELSE v - 1
<1>1. UINT8 \in Nat \ {0}
  BY BoundAssumption
<1>2. PICK U \in Nat \ {0} : U = UINT8
  BY <1>1
<1>3. \A x \in 0 .. U - 1 : x % U = x
  OBVIOUS
<1>4. (-1) % U = U - 1
  OBVIOUS
<1>. QED
  BY <1>2, <1>3, <1>4

LEMMA LegsOf ==
  ASSUME NEW t \in Transfers
  PROVE  /\ Legs(t) \subseteq Hops /\ Legs(t) \subseteq Nat /\ 0 \in Legs(t)
         /\ \A k \in Legs(t) : k + 1 \in Hops /\ k + 1 \in Nat
         /\ \A k \in Legs(t) : 0 .. k \subseteq Legs(t)
         /\ 0 \in Hops /\ Hops \subseteq Nat
<1>1. t.TTL \in 0 .. UINT8 - 1 /\ UINT8 \in Nat \ {0}
  BY TransferAssumption, BoundAssumption
<1>. QED
  BY <1>1 DEF Legs, Hops

LEMMA FirstHop ==
  ASSUME NEW t \in Transfers, NEW i
  PROVE  FilePacket(t, i).t = t /\ FilePacket(t, i).i = i /\ HopOf(FilePacket(t, i)) = 0
<1>1. t.TTL \in 0 .. UINT8 - 1 /\ UINT8 \in Nat \ {0}
  BY TransferAssumption, BoundAssumption
<1>. QED
  BY <1>1 DEF FilePacket, HopOf

(* A router sees a packet on the next hop, with TTL left unless the leg was *)
(* the last.                                                                *)
LEMMA NextHop ==
  ASSUME NEW p \in Packet, HopOf(p) \in Legs(p.t)
  PROVE  /\ Aged(p).t = p.t /\ Aged(p).i = p.i
         /\ Aged(p).TTL > 0 <=> HopOf(p) + 1 \in Legs(p.t)
         /\ Aged(p).TTL > 0 => HopOf(Aged(p)) = HopOf(p) + 1
<1>1. /\ p.t \in Transfers /\ p.TTL \in 0 .. UINT8 - 1 /\ p.t.TTL \in 0 .. UINT8 - 1
      /\ UINT8 \in Nat \ {0}
  BY TransferAssumption, BoundAssumption DEF Packet
<1>2. Aged(p).t = p.t /\ Aged(p).i = p.i /\ Aged(p).TTL = (p.TTL - 1) % UINT8
  BY DEF Aged, Packet
<1>3. Aged(p).TTL = IF p.TTL = 0 THEN UINT8 - 1 ELSE p.TTL - 1
  BY <1>1, <1>2, AgedTTL
<1>4. PICK q : q = Aged(p)
  OBVIOUS
<1>5. q.t = p.t /\ q.TTL = IF p.TTL = 0 THEN UINT8 - 1 ELSE p.TTL - 1
  BY <1>2, <1>3, <1>4
<1>6. HopOf(q) = IF q.TTL <= p.t.TTL THEN p.t.TTL - q.TTL ELSE p.t.TTL - q.TTL + UINT8
  BY <1>5 DEF HopOf
<1>7. HopOf(p) = IF p.TTL <= p.t.TTL THEN p.t.TTL - p.TTL ELSE p.t.TTL - p.TTL + UINT8
  BY DEF HopOf
<1>8. q.TTL > 0 <=> HopOf(p) + 1 \in Legs(p.t)
  BY <1>1, <1>5, <1>7 DEF Legs
<1>9. q.TTL > 0 => HopOf(q) = HopOf(p) + 1
  BY <1>1, <1>5, <1>6, <1>7 DEF Legs
<1>. QED
  BY <1>2, <1>4, <1>8, <1>9

(* While no route and no connection in use is replaced, t's packets pass    *)
(* the routers w[t][0], w[t][1], ... one behind the other: came[t][k] of    *)
(* them have come to the k-th, and sent[t][k] have been sent on from there. *)
FlowType(w, came, sent) ==
  /\ w \in [Transfers -> [Hops -> Router]]
  /\ came \in [Transfers -> [Hops -> Nat]]
  /\ sent \in [Transfers -> [Hops -> Nat]]

(* What has been sent on took the route there is, away from a router that   *)
(* is not the destination, and what has come was sent before, on every leg. *)
Leg(w, came, sent, t, k) ==
  /\ came[t][k + 1] <= sent[t][k]
  /\ sent[t][k] > 0 =>
       /\ w[t][k] # t.dest
       /\ nexthop[w[t][k]][t.dest] = w[t][k + 1]
       /\ data_fd[w[t][k]][w[t][k + 1]] # NoConn
  /\ came[t][k + 1] > 0 => \A j \in 0 .. k : sent[t][j] > 0

Counts(w, came, sent) ==
  \A t \in Transfers :
    /\ w[t][0] = t.src
    /\ came[t][0] = IF t \in commands THEN 0 ELSE Final(t)
    /\ \A k \in Hops : sent[t][k] <= came[t][k] /\ came[t][k] <= Final(t)
    /\ \A k \in Legs(t) : Leg(w, came, sent, t, k)

(* A packet in a queue is on a leg, between what has come and what is sent. *)
OnLeg(w, came, sent, p, c, r) ==
  /\ HopOf(p) \in Legs(p.t)
  /\ w[p.t][HopOf(p) + 1] = r
  /\ data_fd[w[p.t][HopOf(p)]][r] = c
  /\ came[p.t][HopOf(p) + 1] < p.i
  /\ p.i <= sent[p.t][HopOf(p)]

InTurn(q) ==
  \A x, y \in DOMAIN q :
    x < y /\ q[x].t = q[y].t /\ HopOf(q[x]) = HopOf(q[y]) => q[x].i < q[y].i

Queues(w, came, sent) ==
  \A c \in Conn, r \in Router :
    /\ InTurn(queue[c][r])
    /\ \A x \in DOMAIN queue[c][r] : OnLeg(w, came, sent, queue[c][r][x], c, r)

(* None is missing. *)
Holds(q, t, k, i) == \E x \in DOMAIN q : q[x].t = t /\ q[x].i = i /\ HopOf(q[x]) = k

Complete(w, came, sent) ==
  \A t \in Transfers : \A k \in Legs(t) : \A i \in Nat :
    came[t][k + 1] < i /\ i <= sent[t][k] =>
      Holds(queue[data_fd[w[t][k]][w[t][k + 1]]][w[t][k + 1]], t, k, i)

(* What has come to a router that is back in its loop has been sent on, and *)
(* a router that sends has the rest of one transfer in its outbox.          *)
SentOn(w, came, sent, r, t, k) ==
  w[t][k] = r /\ r # t.dest => sent[t][k] = came[t][k]

AllSentOn(w, came, sent, r) ==
  \A t \in Transfers : \A k \in Legs(t) : SentOn(w, came, sent, r, t, k)

Sends(w, came, sent, r, t, k) ==
  /\ w[t][k] = r /\ r # t.dest
  /\ nexthop[r][t.dest] # NoRoute
  /\ outbox[r].via = data_fd[r][nexthop[r][t.dest]] /\ outbox[r].via # NoConn
  /\ Len(outbox[r].packets) = came[t][k] - sent[t][k]
  /\ sent[t][k] < came[t][k]
  /\ \A x \in DOMAIN outbox[r].packets :
       LET p == outbox[r].packets[x]
       IN  p.t = t /\ HopOf(p) = k /\ p.i = sent[t][k] + x
  /\ \A u \in Transfers : \A j \in Legs(u) :
       <<u, j>> # <<t, k>> => SentOn(w, came, sent, r, u, j)

Sending(w, came, sent, r) ==
  IF outbox[r].packets = << >>
  THEN AllSentOn(w, came, sent, r)
  ELSE \E t \in Transfers : \E k \in Legs(t) : Sends(w, came, sent, r, t, k)

Outboxes(w, came, sent) == \A r \in Router : Running(r) => Sending(w, came, sent, r)

(* The destination has what has come to it, in sequence. *)
Stored(w, came, t) ==
  /\ InSequence(t)
  /\ \A k \in Legs(t) : came[t][k] > 0 /\ w[t][k] = t.dest =>
       {Nth(t, pl) : pl \in PlacesOf(t)} = 1 .. came[t][k]
  /\ PlacesOf(t) # {} => \E k \in Legs(t) : came[t][k] > 0 /\ w[t][k] = t.dest

(* The last packet a router remembers is the last that came to it there;    *)
(* the penultimate is too, or its transfer is complete, when the next       *)
(* packet will not push it out.                                             *)
PassedLast(w, came, r, p) ==
  /\ HopOf(p) \in Legs(p.t) /\ w[p.t][HopOf(p)] = r
  /\ p.i = came[p.t][HopOf(p)]

Passed(w, came, r, p) ==
  /\ HopOf(p) \in Legs(p.t) /\ w[p.t][HopOf(p)] = r
  /\ p.i = came[p.t][HopOf(p)] \/ came[p.t][HopOf(p)] = Final(p.t)

InSuccession(l, p) == l.t = p.t /\ l.TTL = p.TTL /\ l.i > 1 => p.i = l.i - 1

LastOK(w, came, r, last) ==
  last # << >> =>
    LET l == last[1]
    IN  IF HopOf(l) = 0 THEN l.t \notin commands ELSE PassedLast(w, came, r, l)

PenultimateOK(w, came, r, pen, flag) ==
  pen # << >> =>
    LET p == pen[1]
    IN  IF HopOf(p) = 0 THEN p.t \notin commands ELSE ~flag => Passed(w, came, r, p)

MemoryOK(w, came, r, last, pen, flag) ==
  /\ LastOK(w, came, r, last)
  /\ PenultimateOK(w, came, r, pen, flag)
  /\ last # << >> /\ pen # << >> => InSuccession(last[1], pen[1])

Remembered(w, came) ==
  \A r \in Router :
    MemoryOK(w, came, r, last_data_packet[r], penultimate_data_packet[r], data_packet_flag[r])

Flow(w, came, sent) ==
  /\ FlowType(w, came, sent)
  /\ Counts(w, came, sent)
  /\ Queues(w, came, sent)
  /\ Complete(w, came, sent)
  /\ Outboxes(w, came, sent)
  /\ \A t \in Transfers : Stored(w, came, t)
  /\ Remembered(w, came)

FlowInv == ~disturbed => \E w, came, sent : Flow(w, came, sent)

-----------------------------------------------------------------------------
(* The part of a step that no flow notices: routes and connections in use   *)
(* stay.                                                                    *)
Settled ==
  /\ \A r, d \in Router : nexthop[r][d] # NoRoute => nexthop'[r][d] = nexthop[r][d]
  /\ \A r, n \in Router : data_fd[r][n] # NoConn => data_fd'[r][n] = data_fd[r][n]

LEMMA PacketFields ==
  ASSUME NEW p \in Packet
  PROVE  /\ p.t \in Transfers /\ p.i \in Nat \ {0}
         /\ p.t.dest \in Router /\ p.t.src \in Router /\ p.t.src # p.t.dest
         /\ Final(p.t) \in Nat \ {0}
BY PacketOf DEF Packet

LEMMA ConnNot == \A c \in Conn : c # NoConn
BY DEF Conn, NoConn

LEMMA LegKept ==
  ASSUME Settled, NEW w, NEW came, NEW sent, FlowType(w, came, sent),
         NEW t \in Transfers, NEW k \in Legs(t), Leg(w, came, sent, t, k)
  PROVE  Leg(w, came, sent, t, k)'
<1>1. t.dest \in Router /\ NoRoute \notin Router
  BY TransferAssumption, RouteAssumption
<1>2. w[t][k] \in Router /\ w[t][k + 1] \in Router
  BY LegsOf DEF FlowType
<1>. QED
  BY <1>1, <1>2 DEF Leg, Settled

LEMMA OnLegKept ==
  ASSUME Settled, NEW w, NEW came, NEW sent, FlowType(w, came, sent),
         NEW p \in Packet, NEW c \in Conn, NEW r \in Router, OnLeg(w, came, sent, p, c, r)
  PROVE  OnLeg(w, came, sent, p, c, r)'
<1>1. p.t \in Transfers /\ HopOf(p) \in Hops
  BY PacketFields, LegsOf DEF OnLeg
<1>2. w[p.t][HopOf(p)] \in Router
  BY <1>1 DEF FlowType
<1>3. c # NoConn
  BY ConnNot
<1>. QED
  BY <1>2, <1>3 DEF OnLeg, Settled

(* The queue between two hops stays where it is. *)
LEMMA BetweenKept ==
  ASSUME Settled, NEW w, NEW came, NEW sent, FlowType(w, came, sent), Counts(w, came, sent),
         NEW t \in Transfers, NEW k \in Legs(t), sent[t][k] > 0
  PROVE  /\ w[t][k] \in Router /\ w[t][k + 1] \in Router
         /\ data_fd[w[t][k]][w[t][k + 1]] # NoConn
         /\ data_fd'[w[t][k]][w[t][k + 1]] = data_fd[w[t][k]][w[t][k + 1]]
<1>1. Leg(w, came, sent, t, k)
  BY DEF Counts
<1>2. w[t][k] \in Router /\ w[t][k + 1] \in Router
  BY LegsOf DEF FlowType
<1>. QED
  BY <1>1, <1>2 DEF Leg, Settled

LEMMA SendsKept ==
  ASSUME Settled, NEW w, NEW came, NEW sent, FlowType(w, came, sent),
         NEW r \in Router, outbox'[r] = outbox[r],
         nexthop \in [Router -> [Router -> Router \cup {NoRoute}]],
         NEW t \in Transfers, NEW k \in Legs(t), Sends(w, came, sent, r, t, k)
  PROVE  Sends(w, came, sent, r, t, k)'
<1>1. t.dest \in Router
  BY TransferAssumption
<1>2. nexthop[r][t.dest] \in Router /\ nexthop'[r][t.dest] = nexthop[r][t.dest]
  BY <1>1 DEF Sends, Settled
<1>3. data_fd'[r][nexthop[r][t.dest]] = data_fd[r][nexthop[r][t.dest]]
  BY <1>2 DEF Sends, Settled
<1>. QED
  BY <1>2, <1>3 DEF Sends, SentOn

LEMMA SendingKept ==
  ASSUME Settled, NEW w, NEW came, NEW sent, FlowType(w, came, sent),
         NEW r \in Router, outbox'[r] = outbox[r],
         nexthop \in [Router -> [Router -> Router \cup {NoRoute}]],
         Sending(w, came, sent, r)
  PROVE  Sending(w, came, sent, r)'
<1>1. CASE outbox[r].packets = << >>
  BY <1>1 DEF Sending, AllSentOn, SentOn
<1>2. CASE outbox[r].packets # << >>
  BY <1>2, SendsKept DEF Sending
<1>. QED
  BY <1>1, <1>2

LEMMA StoredStays ==
  ASSUME NEW w, NEW came, NEW t, Stays(t), Stored(w, came, t)
  PROVE  Stored(w, came, t)'
<1>1. PlacesOf(t)' = PlacesOf(t) /\ \A pl \in PlacesOf(t) : Nth(t, pl)' = Nth(t, pl)
  BY DEF Stays
<1>2. {Nth(t, pl) : pl \in PlacesOf(t)}' = {Nth(t, pl) : pl \in PlacesOf(t)}
  BY <1>1
<1>3. InSequence(t)'
  <2>1. ASSUME NEW pl \in PlacesOf(t)
        PROVE  {Nth(t, q)' : q \in {q \in PlacesOf(t) : Before(q, pl)}} = 1 .. Nth(t, pl)' - 1
    <3>1. {Nth(t, q) : q \in {q \in PlacesOf(t) : Before(q, pl)}} = 1 .. Nth(t, pl) - 1
      BY <2>1 DEF Stored, InSequence
    <3>2. {Nth(t, q)' : q \in {q \in PlacesOf(t) : Before(q, pl)}} =
          {Nth(t, q) : q \in {q \in PlacesOf(t) : Before(q, pl)}}
      BY <1>1
    <3>. QED
      BY <1>1, <3>1, <3>2
  <2>. QED
    BY <1>1, <2>1 DEF InSequence
<1>. QED
  BY <1>1, <1>2, <1>3 DEF Stored

(* A step that leaves the packets where they are. *)
LEMMA QuietKeeps ==
  ASSUME NetworkTypeOK, Settled, NEW w, NEW came, NEW sent, Flow(w, came, sent),
         \A r \in Router : Running(r)' => Running(r),
         UNCHANGED <<commands, queue, outbox, memory, disk>>
  PROVE  Flow(w, came, sent)'
<1>1. /\ nexthop \in [Router -> [Router -> Router \cup {NoRoute}]]
      /\ queue \in [Conn -> [Router -> Seq(Packet)]]
      /\ FlowType(w, came, sent)
  BY DEF NetworkTypeOK, Flow
<1>2. Counts(w, came, sent)'
  <2>1. \A t \in Transfers : \A k \in Legs(t) : Leg(w, came, sent, t, k)'
    BY <1>1, LegKept DEF Flow, Counts
  <2>. QED
    BY <2>1 DEF Flow, Counts
<1>3. Queues(w, came, sent)'
  <2>1. ASSUME NEW c \in Conn, NEW r \in Router, NEW x \in DOMAIN queue[c][r]
        PROVE  OnLeg(w, came, sent, queue[c][r][x], c, r)'
    <3>1. PICK p \in Packet : p = queue[c][r][x]
      BY <1>1, <2>1
    <3>2. OnLeg(w, came, sent, p, c, r)
      BY <2>1, <3>1 DEF Flow, Queues
    <3>3. OnLeg(w, came, sent, p, c, r)'
      BY <1>1, <3>2, OnLegKept
    <3>4. queue'[c][r][x] = p
      BY <3>1
    <3>. QED
      BY <3>3, <3>4 DEF OnLeg
  <2>. QED
    BY <2>1 DEF Flow, Queues, InTurn
<1>4. Complete(w, came, sent)'
  <2>1. ASSUME NEW t \in Transfers, NEW k \in Legs(t), NEW i \in Nat,
               came[t][k + 1] < i, i <= sent[t][k]
        PROVE  Holds(queue[data_fd[w[t][k]][w[t][k + 1]]][w[t][k + 1]], t, k, i)'
    <3>1. sent[t][k] > 0
      <4>1. came[t][k + 1] \in Nat /\ sent[t][k] \in Nat
        BY <1>1, LegsOf DEF FlowType
      <4>. QED
        BY <2>1, <4>1
    <3>2. data_fd'[w[t][k]][w[t][k + 1]] = data_fd[w[t][k]][w[t][k + 1]]
      BY <1>1, <3>1, BetweenKept DEF Flow
    <3>. QED
      BY <2>1, <3>2 DEF Flow, Complete
  <2>. QED
    BY <2>1 DEF Complete
<1>5. Outboxes(w, came, sent)'
  <2>1. ASSUME NEW r \in Router, Running(r)' PROVE Sending(w, came, sent, r)'
    BY <1>1, <2>1, SendingKept DEF Flow, Outboxes
  <2>. QED
    BY <2>1 DEF Outboxes
<1>6. \A t \in Transfers : Stored(w, came, t)'
  BY DiskStays, StoredStays DEF Flow
<1>7. Remembered(w, came)'
  BY DEF Flow, Remembered, memory, MemoryOK, LastOK, PenultimateOK
<1>8. FlowType(w, came, sent)'
  BY <1>1 DEF FlowType
<1>. QED
  BY <1>2, <1>3, <1>4, <1>5, <1>6, <1>7, <1>8 DEF Flow

-----------------------------------------------------------------------------
(* A packet is sent on                                                      *)

LEMMA EntrySet ==
  ASSUME NEW S, NEW f \in [Transfers -> [Hops -> S]], NEW t \in Transfers, NEW k \in Hops,
         NEW v \in S, NEW g, g = [f EXCEPT ![t][k] = v]
  PROVE  /\ g \in [Transfers -> [Hops -> S]]
         /\ \A u \in Transfers : \A j \in Hops :
              g[u][j] = IF u = t /\ j = k THEN v ELSE f[u][j]
<1>1. [f[t] EXCEPT ![k] = v] \in [Hops -> S]
  OBVIOUS
<1>2. g = [f EXCEPT ![t] = [f[t] EXCEPT ![k] = v]]
  OBVIOUS
<1>. QED
  BY <1>1, <1>2

(* The first packet on a leg fixes where the leg leads.                     *)
Further(w, came, sent, w1, sent1, t, k, h) ==
  /\ t \in Transfers /\ k \in Legs(t) /\ h \in Router
  /\ FlowType(w, came, sent) /\ FlowType(w1, came, sent1)
  /\ \A u \in Transfers : \A j \in Hops :
       sent1[u][j] = IF u = t /\ j = k THEN sent[t][k] + 1 ELSE sent[u][j]
  /\ \A u \in Transfers : \A j \in Hops :
       w1[u][j] = IF u = t /\ j = k + 1 THEN h ELSE w[u][j]
  /\ \A u \in Transfers : \A j \in Hops :
       w1[u][j] # w[u][j] => came[u][j] = 0 /\ sent[u][j] = 0
  /\ \A u \in Transfers : \A j \in Legs(u) : sent[u][j] > 0 => w1[u][j + 1] = w[u][j + 1]

LEMMA FurtherFits ==
  ASSUME NEW w, NEW came, NEW sent, FlowType(w, came, sent), Counts(w, came, sent),
         NEW t \in Transfers, NEW k \in Legs(t), NEW h \in Router, h = nexthop[w[t][k]][t.dest],
         NEW w1, w1 = [w EXCEPT ![t][k + 1] = h],
         NEW sent1, sent1 = [sent EXCEPT ![t][k] = sent[t][k] + 1]
  PROVE  Further(w, came, sent, w1, sent1, t, k, h)
<1>1. k \in Hops /\ k + 1 \in Hops /\ k \in Nat
  BY LegsOf
<1>2. sent[t][k] + 1 \in Nat
  BY <1>1 DEF FlowType
<1>3. /\ sent1 \in [Transfers -> [Hops -> Nat]]
      /\ \A u \in Transfers : \A j \in Hops :
           sent1[u][j] = IF u = t /\ j = k THEN sent[t][k] + 1 ELSE sent[u][j]
  BY <1>1, <1>2, EntrySet DEF FlowType
<1>4. /\ w1 \in [Transfers -> [Hops -> Router]]
      /\ \A u \in Transfers : \A j \in Hops :
           w1[u][j] = IF u = t /\ j = k + 1 THEN h ELSE w[u][j]
  BY <1>1, EntrySet DEF FlowType
<1>5. sent[t][k] > 0 => w[t][k + 1] = h
  BY DEF Counts, Leg
<1>6. ASSUME sent[t][k] = 0
      PROVE  came[t][k + 1] = 0 /\ sent[t][k + 1] = 0
  <2>1. came[t][k + 1] <= sent[t][k] /\ sent[t][k + 1] <= came[t][k + 1]
    BY <1>1 DEF Counts, Leg
  <2>2. came[t][k + 1] \in Nat /\ sent[t][k + 1] \in Nat
    BY <1>1 DEF FlowType
  <2>. QED
    BY <1>6, <2>1, <2>2
<1>7. sent[t][k] = 0 \/ sent[t][k] > 0
  BY <1>1 DEF FlowType
<1>8. \A u \in Transfers : \A j \in Hops :
        w1[u][j] # w[u][j] => came[u][j] = 0 /\ sent[u][j] = 0
  BY <1>1, <1>4, <1>5, <1>6, <1>7
<1>9. ASSUME NEW u \in Transfers, NEW j \in Legs(u), sent[u][j] > 0
      PROVE  w1[u][j + 1] = w[u][j + 1]
  <2>1. j \in Nat /\ j + 1 \in Hops
    BY LegsOf
  <2>2. CASE u = t /\ j = k
    BY <1>1, <1>4, <1>5, <1>9, <2>2
  <2>3. CASE ~(u = t /\ j = k)
    <3>1. ~(u = t /\ j + 1 = k + 1)
      BY <1>1, <2>1, <2>3
    <3>. QED
      BY <1>4, <2>1, <3>1
  <2>. QED
    BY <2>2, <2>3
<1>. QED
  BY <1>3, <1>4, <1>8, <1>9 DEF Further, FlowType

LEMMA FurtherCounts ==
  ASSUME NEW w, NEW came, NEW sent, NEW w1, NEW sent1, NEW t, NEW k, NEW h,
         Further(w, came, sent, w1, sent1, t, k, h), Counts(w, came, sent),
         sent[t][k] < came[t][k], w[t][k] # t.dest, nexthop[w[t][k]][t.dest] = h,
         data_fd[w[t][k]][h] # NoConn,
         UNCHANGED <<commands, nexthop, data_fd>>
  PROVE  Counts(w1, came, sent1)'
<1>1. k \in Hops /\ k + 1 \in Hops /\ k \in Nat /\ t \in Transfers /\ k \in Legs(t) /\ k # k + 1
  BY LegsOf DEF Further
<1>2. /\ w \in [Transfers -> [Hops -> Router]]
      /\ came \in [Transfers -> [Hops -> Nat]]
      /\ sent \in [Transfers -> [Hops -> Nat]]
  BY DEF Further, FlowType
<1>3. \A u \in Transfers : \A j \in Hops :
        /\ sent1[u][j] = IF u = t /\ j = k THEN sent[t][k] + 1 ELSE sent[u][j]
        /\ w1[u][j] = IF u = t /\ j = k + 1 THEN h ELSE w[u][j]
        /\ w1[u][j] # w[u][j] => came[u][j] = 0 /\ sent[u][j] = 0
  BY DEF Further
<1>4. \A u \in Transfers : \A j \in Hops : sent[u][j] <= sent1[u][j]
  BY <1>1, <1>2, <1>3
<1> SUFFICES ASSUME NEW u \in Transfers
             PROVE  /\ w1[u][0] = u.src
                    /\ came[u][0] = IF u \in commands THEN 0 ELSE Final(u)
                    /\ \A j \in Hops : sent1[u][j] <= came[u][j] /\ came[u][j] <= Final(u)
                    /\ \A j \in Legs(u) : Leg(w1, came, sent1, u, j)'
  BY DEF Counts
<1>5. w1[u][0] = u.src
  <2>1. 0 \in Hops /\ 0 # k + 1
    BY <1>1, LegsOf
  <2>2. w1[u][0] = w[u][0]
    BY <1>3, <2>1
  <2>. QED
    BY <2>2 DEF Counts
<1>6. ASSUME NEW j \in Hops PROVE sent1[u][j] <= came[u][j] /\ came[u][j] <= Final(u)
  <2>1. sent[u][j] <= came[u][j] /\ came[u][j] <= Final(u)
    BY DEF Counts
  <2>2. CASE u = t /\ j = k
    <3>1. sent1[u][j] = sent[t][k] + 1
      BY <1>3, <2>2
    <3>2. sent[t][k] \in Nat /\ came[t][k] \in Nat
      BY <1>1, <1>2
    <3>. QED
      BY <2>1, <2>2, <3>1, <3>2
  <2>3. CASE ~(u = t /\ j = k)
    BY <1>3, <2>1, <2>3
  <2>. QED
    BY <2>2, <2>3
<1>7. ASSUME NEW j \in Legs(u) PROVE Leg(w1, came, sent1, u, j)'
  <2>1. j \in Hops /\ j + 1 \in Hops /\ j \in Nat
    BY LegsOf
  <2>2. Leg(w, came, sent, u, j)
    BY DEF Counts
  <2>3. /\ sent[u][j] \in Nat /\ sent1[u][j] \in Nat /\ came[u][j + 1] \in Nat
        /\ sent[u][j] <= sent1[u][j]
    BY <1>2, <1>4, <2>1 DEF Further, FlowType
  <2>4. came[u][j + 1] <= sent1[u][j]
    BY <2>2, <2>3 DEF Leg
  <2>5. came[u][j + 1] > 0 => \A i \in 0 .. j : sent1[u][i] > 0
    <3>1. ASSUME came[u][j + 1] > 0, NEW i \in 0 .. j PROVE sent1[u][i] > 0
      <4>1. i \in Hops
        BY LegsOf
      <4>2. sent[u][i] > 0
        BY <2>2, <3>1 DEF Leg
      <4>3. sent[u][i] \in Nat /\ sent1[u][i] \in Nat /\ sent[u][i] <= sent1[u][i]
        BY <1>2, <1>4, <4>1 DEF Further, FlowType
      <4>. QED
        BY <4>2, <4>3
    <3>. QED
      BY <3>1
  <2>6. ASSUME sent1[u][j] > 0
        PROVE  /\ w1[u][j] # u.dest
               /\ nexthop[w1[u][j]][u.dest] = w1[u][j + 1]
               /\ data_fd[w1[u][j]][w1[u][j + 1]] # NoConn
    <3>1. CASE u = t /\ j = k
      <4>1. w1[u][j] = w[t][k] /\ w1[u][j + 1] = h
        BY <1>1, <1>3, <2>1, <3>1
      <4>. QED
        BY <3>1, <4>1
    <3>2. CASE ~(u = t /\ j = k)
      <4>1. sent[u][j] > 0
        BY <1>3, <2>1, <2>6, <3>2
      <4>2. w1[u][j + 1] = w[u][j + 1]
        BY <4>1 DEF Further
      <4>3. w1[u][j] = w[u][j]
        BY <1>3, <2>1, <4>1
      <4>. QED
        BY <2>2, <4>1, <4>2, <4>3 DEF Leg
    <3>. QED
      BY <3>1, <3>2
  <2>. QED
    BY <2>4, <2>5, <2>6 DEF Leg
<1>8. came[u][0] = IF u \in commands THEN 0 ELSE Final(u)
  BY DEF Counts
<1>. QED
  BY <1>5, <1>6, <1>7, <1>8

LEMMA FurtherOnLeg ==
  ASSUME NEW w, NEW came, NEW sent, NEW w1, NEW sent1, NEW t, NEW k, NEW h,
         Further(w, came, sent, w1, sent1, t, k, h),
         NEW p \in Packet, NEW c, NEW r, OnLeg(w, came, sent, p, c, r)
  PROVE  OnLeg(w1, came, sent1, p, c, r)
<1>10. p.t \in Transfers /\ HopOf(p) \in Legs(p.t) /\ p.i \in Nat
  BY PacketFields DEF OnLeg
<1>11. PICK u \in Transfers : u = p.t
  BY <1>10
<1>12. PICK j \in Legs(u) : j = HopOf(p)
  BY <1>10, <1>11
<1>13. PICK i \in Nat : i = p.i
  BY <1>10
<1>1. u = p.t /\ j = HopOf(p) /\ i = p.i
  BY <1>11, <1>12, <1>13
<1>2. j \in Hops /\ j + 1 \in Hops /\ j \in Nat
  BY LegsOf
<1>3. /\ w[u][j + 1] = r /\ data_fd[w[u][j]][r] = c
      /\ came[u][j + 1] < i /\ i <= sent[u][j]
  BY <1>1 DEF OnLeg
<1>4. /\ came[u][j + 1] \in Nat /\ sent[u][j] \in Nat /\ sent1[u][j] \in Nat
      /\ sent[t][k] \in Nat
  BY <1>2, LegsOf DEF Further, FlowType
<1>5. sent[u][j] > 0
  BY <1>3, <1>4
<1>6. w1[u][j + 1] = w[u][j + 1]
  BY <1>5 DEF Further
<1>7. w1[u][j] = w[u][j]
  BY <1>2, <1>5 DEF Further
<1>8. sent[u][j] <= sent1[u][j]
  BY <1>2, <1>4 DEF Further
<1>9. i <= sent1[u][j]
  BY <1>3, <1>4, <1>8
<1>. QED
  BY <1>1, <1>3, <1>6, <1>7, <1>9 DEF OnLeg

LEMMA PeerOf ==
  ASSUME Connected, NEW r \in Router, NEW n \in Router, data_fd[r][n] # NoConn
  PROVE  data_fd[r][n] \in Conn /\ Peer(data_fd[r][n], r) = n
<1>1. data_fd[r][n] \in {<<r, n>>, <<n, r>>}
  BY DEF Connected
<1>. QED
  BY <1>1 DEF Conn, Peer

LEMMA JoinedQueue ==
  ASSUME NEW s \in Seq(Packet), NEW q \in Packet, NEW s1, s1 = Append(s, q)
  PROVE  /\ s1 \in Seq(Packet)
         /\ \A x \in DOMAIN s : x \in DOMAIN s1 /\ s1[x] = s[x]
         /\ \A x \in DOMAIN s1 : (x \in DOMAIN s /\ s1[x] = s[x]) \/ (x = Len(s) + 1 /\ s1[x] = q)
         /\ Len(s) + 1 \in DOMAIN s1 /\ s1[Len(s) + 1] = q
         /\ \A x \in DOMAIN s : x < Len(s) + 1
         /\ \A x \in DOMAIN s : x \in Nat
         /\ Len(s) \in Nat
OBVIOUS

LEMMA JoinedInTurn ==
  ASSUME NEW s \in Seq(Packet), NEW q \in Packet, NEW s1, s1 = Append(s, q), InTurn(s),
         \A x \in DOMAIN s : s[x].t = q.t /\ HopOf(s[x]) = HopOf(q) => s[x].i < q.i
  PROVE  InTurn(s1)
<1> SUFFICES ASSUME NEW x \in DOMAIN s1, NEW y \in DOMAIN s1, x < y,
                    s1[x].t = s1[y].t, HopOf(s1[x]) = HopOf(s1[y])
             PROVE  s1[x].i < s1[y].i
  BY DEF InTurn
<1>1. x \in DOMAIN s /\ s1[x] = s[x]
  <2>1. x = Len(s) + 1 => FALSE
    <3>1. \A z \in DOMAIN s1 : z <= Len(s) + 1 /\ z \in Nat
      BY JoinedQueue
    <3>. QED
      BY <3>1, JoinedQueue
  <2>. QED
    BY <2>1, JoinedQueue
<1>2. CASE y \in DOMAIN s /\ s1[y] = s[y]
  BY <1>1, <1>2 DEF InTurn
<1>3. CASE s1[y] = q
  BY <1>1, <1>3
<1>. QED
  BY <1>2, <1>3, JoinedQueue

(* Which of the remaining packets of the outbox is sent.                    *)
LEMMA SentPacket ==
  ASSUME NetworkTypeOK, NEW w, NEW came, NEW sent, FlowType(w, came, sent),
         NEW r \in Router, outbox[r].packets # << >>, NEW t \in Transfers, NEW k \in Legs(t),
         Sends(w, came, sent, r, t, k)
  PROVE  /\ Head(outbox[r].packets) \in Packet
         /\ Head(outbox[r].packets).t = t /\ HopOf(Head(outbox[r].packets)) = k
         /\ Head(outbox[r].packets).i = sent[t][k] + 1
<1>1. PICK ps \in Seq(Packet) : ps = outbox[r].packets
  BY DEF NetworkTypeOK
<1>2. 1 \in DOMAIN ps /\ Head(ps) = ps[1] /\ ps[1] \in Packet
  BY <1>1
<1>. QED
  BY <1>1, <1>2 DEF Sends

Enqueued(c, r, p) == queue' = [queue EXCEPT ![c][r] = Append(@, p)]

LEMMA SentQueues ==
  ASSUME NetworkTypeOK, NEW w, NEW came, NEW sent, NEW w1, NEW sent1,
         NEW t, NEW k, NEW h, NEW r \in Router,
         Further(w, came, sent, w1, sent1, t, k, h),
         Counts(w, came, sent), Queues(w, came, sent), w[t][k] = r,
         NEW c \in Conn, c = data_fd[r][h], data_fd' = data_fd,
         NEW q \in Packet, q.t = t, HopOf(q) = k, q.i = sent[t][k] + 1,
         Enqueued(c, h, q)
  PROVE  Queues(w1, came, sent1)'
<1>1. /\ h \in Router /\ t \in Transfers /\ k \in Legs(t)
      /\ k \in Hops /\ k + 1 \in Hops /\ k \in Nat
      /\ queue \in [Conn -> [Router -> Seq(Packet)]]
  BY LegsOf DEF Further, NetworkTypeOK
<1>2. PICK s \in Seq(Packet) : s = queue[c][h]
  BY <1>1
<1>3. PICK s1 : s1 = Append(s, q)
  OBVIOUS
<1>4. /\ queue'[c][h] = s1
      /\ \A e \in Conn, n \in Router : ~(e = c /\ n = h) => queue'[e][n] = queue[e][n]
  BY <1>1, <1>2, <1>3 DEF Enqueued
<1>5. sent[t][k] \in Nat /\ came[t][k + 1] \in Nat
  BY <1>1 DEF Further, FlowType
<1>6. ASSUME NEW e \in Conn, NEW n \in Router, NEW x \in DOMAIN queue[e][n]
      PROVE  OnLeg(w1, came, sent1, queue[e][n][x], e, n)
  <2>1. PICK p \in Packet : p = queue[e][n][x]
    BY <1>1, <1>6
  <2>2. OnLeg(w, came, sent, p, e, n)
    BY <1>6, <2>1 DEF Queues
  <2>. QED
    BY <2>1, <2>2, FurtherOnLeg
<1>7. OnLeg(w1, came, sent1, q, c, h)
  <2>1. w1[t][k + 1] = h /\ sent1[t][k] = sent[t][k] + 1 /\ w1[t][k] = w[t][k]
    BY <1>1 DEF Further
  <2>2. came[t][k + 1] <= sent[t][k]
    BY <1>1 DEF Counts, Leg
  <2>. QED
    BY <1>1, <1>5, <2>1, <2>2 DEF OnLeg
<1>8. \A p, e, n : OnLeg(w1, came, sent1, p, e, n)' <=> OnLeg(w1, came, sent1, p, e, n)
  BY DEF OnLeg
<1>9. ASSUME NEW e \in Conn, NEW n \in Router
      PROVE  /\ InTurn(queue'[e][n])
             /\ \A x \in DOMAIN queue'[e][n] : OnLeg(w1, came, sent1, queue'[e][n][x], e, n)
  <2>1. CASE e = c /\ n = h
    <3>1. InTurn(s)
      BY <1>1, <1>2 DEF Queues
    <3>2. ASSUME NEW x \in DOMAIN s, s[x].t = q.t, HopOf(s[x]) = HopOf(q)
          PROVE  s[x].i < q.i
      <4>1. PICK p \in Packet : p = s[x]
        BY <3>2
      <4>2. OnLeg(w, came, sent, p, c, h)
        BY <1>1, <1>2, <3>2, <4>1 DEF Queues
      <4>3. p.i \in Nat
        BY PacketFields
      <4>4. p.i <= sent[t][k]
        BY <3>2, <4>1, <4>2 DEF OnLeg
      <4>. QED
        BY <1>5, <4>1, <4>3, <4>4
    <3>3. InTurn(s1)
      BY <1>3, <3>1, <3>2, JoinedInTurn
    <3>4. ASSUME NEW x \in DOMAIN s1 PROVE OnLeg(w1, came, sent1, s1[x], c, h)
      <4>1. CASE x \in DOMAIN s /\ s1[x] = s[x]
        BY <1>1, <1>2, <1>6, <4>1
      <4>2. CASE s1[x] = q
        BY <1>7, <4>2
      <4>. QED
        BY <1>3, <3>4, <4>1, <4>2, JoinedQueue
    <3>. QED
      BY <1>4, <2>1, <3>3, <3>4
  <2>2. CASE ~(e = c /\ n = h)
    BY <1>4, <1>6, <2>2 DEF Queues
  <2>. QED
    BY <2>1, <2>2
<1>. QED
  <2>1. ASSUME NEW e \in Conn, NEW n \in Router
        PROVE  InTurn(queue[e][n])'
    BY <1>9 DEF InTurn
  <2>2. ASSUME NEW e \in Conn, NEW n \in Router, NEW x \in DOMAIN queue'[e][n]
        PROVE  OnLeg(w1, came, sent1, queue[e][n][x], e, n)'
    <3>1. OnLeg(w1, came, sent1, queue'[e][n][x], e, n)
      BY <1>9, <2>2
    <3>. QED
      BY <3>1 DEF OnLeg
  <2>. QED
    BY <2>1, <2>2 DEF Queues

LEMMA SentComplete ==
  ASSUME NetworkTypeOK, NEW w, NEW came, NEW sent, NEW w1, NEW sent1,
         NEW t, NEW k, NEW h, NEW r \in Router,
         Further(w, came, sent, w1, sent1, t, k, h),
         Counts(w, came, sent), Complete(w, came, sent), Connected, w[t][k] = r,
         NEW c \in Conn, c = data_fd[r][h], data_fd' = data_fd,
         NEW q \in Packet, q.t = t, HopOf(q) = k, q.i = sent[t][k] + 1,
         Enqueued(c, h, q)
  PROVE  Complete(w1, came, sent1)'
<1>1. /\ h \in Router /\ t \in Transfers /\ k \in Legs(t)
      /\ k \in Hops /\ k + 1 \in Hops /\ k \in Nat
      /\ queue \in [Conn -> [Router -> Seq(Packet)]]
  BY LegsOf DEF Further, NetworkTypeOK
<1>2. PICK s \in Seq(Packet) : s = queue[c][h]
  BY <1>1
<1>3. PICK s1 : s1 = Append(s, q)
  OBVIOUS
<1>4. /\ queue'[c][h] = s1
      /\ \A e \in Conn, n \in Router : ~(e = c /\ n = h) => queue'[e][n] = queue[e][n]
  BY <1>1, <1>2, <1>3 DEF Enqueued
<1>5. ASSUME NEW e \in Conn, NEW n \in Router, NEW u, NEW j, NEW i, Holds(queue[e][n], u, j, i)
      PROVE  Holds(queue'[e][n], u, j, i)
  <2>1. CASE e = c /\ n = h
    <3>1. Holds(s, u, j, i)
      BY <1>2, <1>5, <2>1
    <3>2. Holds(s1, u, j, i)
      BY <1>3, <3>1, JoinedQueue DEF Holds
    <3>. QED
      BY <1>4, <2>1, <3>2
  <2>2. CASE ~(e = c /\ n = h)
    BY <1>4, <1>5, <2>2
  <2>. QED
    BY <2>1, <2>2
<1>6. Holds(s1, t, k, sent[t][k] + 1)
  BY <1>3, JoinedQueue DEF Holds
<1>7. ASSUME NEW u \in Transfers, NEW j \in Legs(u), NEW i \in Nat,
             came[u][j + 1] < i, i <= sent1[u][j]
      PROVE  Holds(queue'[data_fd[w1[u][j]][w1[u][j + 1]]][w1[u][j + 1]], u, j, i)
  <2>0. j \in Hops /\ j + 1 \in Hops /\ j \in Nat
    BY LegsOf
  <2>1. /\ sent[u][j] \in Nat /\ sent1[u][j] \in Nat /\ came[u][j + 1] \in Nat
    BY <2>0 DEF Further, FlowType
  <2>2. CASE i <= sent[u][j]
    <3>1. sent[u][j] > 0
      BY <1>7, <2>1, <2>2
    <3>2. w1[u][j] = w[u][j] /\ w1[u][j + 1] = w[u][j + 1]
      BY <2>0, <3>1 DEF Further
    <3>3. PICK e, n : n = w[u][j + 1] /\ e = data_fd[w[u][j]][n]
      OBVIOUS
    <3>4. n \in Router /\ e \in Conn
      <4>1. w[u][j] \in Router /\ w[u][j + 1] \in Router
        BY <2>0 DEF Further, FlowType
      <4>2. e # NoConn
        BY <3>1, <3>3 DEF Counts, Leg
      <4>. QED
        BY <3>3, <4>1, <4>2, PeerOf
    <3>5. Holds(queue[e][n], u, j, i)
      BY <1>7, <2>2, <3>3 DEF Complete
    <3>6. Holds(queue'[e][n], u, j, i)
      BY <1>5, <3>4, <3>5
    <3>. QED
      BY <3>2, <3>3, <3>6
  <2>3. CASE ~(i <= sent[u][j])
    <3>1. u = t /\ j = k /\ i = sent[t][k] + 1
      <4>1. sent1[u][j] # sent[u][j]
        BY <1>7, <2>1, <2>3
      <4>2. u = t /\ j = k /\ sent1[u][j] = sent[u][j] + 1
        BY <2>0, <4>1 DEF Further
      <4>. QED
        BY <1>7, <2>1, <2>3, <4>2
    <3>2. w1[t][k + 1] = h /\ w1[t][k] = r
      BY <1>1 DEF Further
    <3>. QED
      BY <1>4, <1>6, <3>1, <3>2
  <2>. QED
    BY <2>2, <2>3
<1>. QED
  <2>1. ASSUME NEW u \in Transfers, NEW j \in Legs(u), NEW i \in Nat,
               came[u][j + 1] < i, i <= sent1[u][j]
        PROVE  Holds(queue[data_fd[w1[u][j]][w1[u][j + 1]]][w1[u][j + 1]], u, j, i)'
    <3>1. PICK Q : Q = queue'[data_fd'[w1[u][j]][w1[u][j + 1]]][w1[u][j + 1]]
      OBVIOUS
    <3>2. Q = queue'[data_fd[w1[u][j]][w1[u][j + 1]]][w1[u][j + 1]]
      BY <3>1
    <3>3. Holds(Q, u, j, i)
      BY <1>7, <2>1, <3>2
    <3>. QED
      BY <3>1, <3>3 DEF Holds
  <2>. QED
    BY <2>1 DEF Complete

LEMMA FurtherSentOn ==
  ASSUME NEW w, NEW came, NEW sent, NEW w1, NEW sent1, NEW t, NEW k, NEW h,
         Further(w, came, sent, w1, sent1, t, k, h),
         NEW r, NEW u \in Transfers, NEW j \in Legs(u), SentOn(w, came, sent, r, u, j),
         w[t][k] = r => ~(u = t /\ j = k)
  PROVE  SentOn(w1, came, sent1, r, u, j)
<1>1. j \in Hops /\ k \in Hops /\ t \in Transfers /\ k # k + 1
  BY LegsOf DEF Further
<1>2. CASE u = t /\ j = k
  <2>1. w1[u][j] # r
    BY <1>1, <1>2 DEF Further
  <2>. QED
    BY <2>1 DEF SentOn
<1>3. CASE ~(u = t /\ j = k)
  <2>1. sent1[u][j] = sent[u][j]
    BY <1>1, <1>3 DEF Further
  <2>2. CASE w1[u][j] = w[u][j]
    BY <2>1, <2>2 DEF SentOn
  <2>3. CASE w1[u][j] # w[u][j]
    <3>1. came[u][j] = 0 /\ sent[u][j] = 0
      BY <1>1, <2>3 DEF Further
    <3>. QED
      BY <2>1, <3>1 DEF SentOn
  <2>. QED
    BY <2>2, <2>3
<1>. QED
  BY <1>2, <1>3

LEMMA TailOf ==
  ASSUME NEW s \in Seq(Packet), s # << >>
  PROVE  /\ Tail(s) \in Seq(Packet) /\ Len(Tail(s)) = Len(s) - 1 /\ Len(s) \in Nat
         /\ \A x \in DOMAIN Tail(s) : x \in Nat /\ x + 1 \in DOMAIN s /\ Tail(s)[x] = s[x + 1]
         /\ \A y \in DOMAIN s : y # 1 => y \in Nat /\ y - 1 \in DOMAIN Tail(s) /\ Tail(s)[y - 1] = s[y]
         /\ 1 \in DOMAIN s /\ Head(s) = s[1] /\ Head(s) \in Packet
         /\ Tail(s) = << >> <=> Len(s) = 1
<1>1. PICK n \in Nat : n = Len(s)
  OBVIOUS
<1>2. n # 0 /\ DOMAIN s = 1 .. n
  BY <1>1
<1>3. /\ Tail(s) \in Seq(Packet) /\ Len(Tail(s)) = n - 1
      /\ \A x \in 1 .. n - 1 : Tail(s)[x] = s[x + 1]
      /\ Head(s) = s[1]
  BY <1>1, HeadTailProperties
<1>4. PICK rest \in Seq(Packet) : rest = Tail(s)
  BY <1>3
<1>5. DOMAIN rest = 1 .. n - 1
  BY <1>3, <1>4
<1>6. \A x \in DOMAIN rest : x \in Nat /\ x + 1 \in DOMAIN s /\ rest[x] = s[x + 1]
  BY <1>1, <1>2, <1>3, <1>4, <1>5
<1>7. \A y \in DOMAIN s : y # 1 => y \in Nat /\ y - 1 \in DOMAIN rest /\ rest[y - 1] = s[y]
  <2>1. ASSUME NEW y \in DOMAIN s, y # 1
        PROVE  y \in Nat /\ y - 1 \in DOMAIN rest /\ rest[y - 1] = s[y]
    <3>1. y \in Nat /\ y - 1 \in 1 .. n - 1 /\ (y - 1) + 1 = y
      BY <1>1, <1>2, <2>1
    <3>. QED
      BY <1>3, <1>4, <1>5, <3>1
  <2>. QED
    BY <2>1
<1>8. 1 \in DOMAIN s /\ Head(s) \in Packet
  BY <1>1, <1>2, <1>3
<1>9. rest = << >> <=> n = 1
  <2>1. Len(rest) = n - 1
    BY <1>3, <1>4
  <2>2. rest = << >> <=> Len(rest) = 0
    BY <1>4, EmptySeq
  <2>. QED
    BY <1>1, <1>2, <2>1, <2>2
<1>. QED
  BY <1>1, <1>3, <1>4, <1>6, <1>7, <1>8, <1>9

LEMMA SentOutbox ==
  ASSUME NetworkTypeOK, NEW w, NEW came, NEW sent, NEW w1, NEW sent1,
         NEW t, NEW k, NEW h, NEW r \in Router,
         Further(w, came, sent, w1, sent1, t, k, h), Outboxes(w, came, sent),
         outbox[r].packets # << >>, Sends(w, came, sent, r, t, k),
         outbox' = [outbox EXCEPT ![r].packets = Tail(@)],
         UNCHANGED <<up, nexthop, data_fd>>
  PROVE  Outboxes(w1, came, sent1)'
<1>1. t \in Transfers /\ k \in Legs(t) /\ k \in Hops /\ k # k + 1
  BY LegsOf DEF Further
<1>2. PICK n \in Nat, m \in Nat : n = sent[t][k] /\ m = came[t][k]
  BY <1>1 DEF Further, FlowType
<1>3. sent1[t][k] = n + 1 /\ w1[t][k] = r /\ n < m
  BY <1>1, <1>2 DEF Further, Sends
<1>4. PICK ps \in Seq(Packet) : ps = outbox[r].packets
  BY DEF NetworkTypeOK
<1>5. PICK rest : rest = Tail(ps)
  OBVIOUS
<1>6. /\ outbox'[r].packets = rest /\ outbox'[r].via = outbox[r].via
      /\ \A n0 \in Router : n0 # r => outbox'[n0] = outbox[n0]
  BY <1>4, <1>5 DEF NetworkTypeOK
<1>7. /\ Len(rest) = Len(ps) - 1 /\ Len(ps) = m - n /\ Len(ps) \in Nat
      /\ \A x \in DOMAIN rest : x \in Nat /\ x + 1 \in DOMAIN ps /\ rest[x] = ps[x + 1]
      /\ rest = << >> <=> Len(ps) = 1
  BY <1>2, <1>4, <1>5, TailOf DEF Sends
<1>8. \A u \in Transfers : \A j \in Legs(u) :
        <<u, j>> # <<t, k>> => SentOn(w1, came, sent1, r, u, j)
  <2>1. ASSUME NEW u \in Transfers, NEW j \in Legs(u), <<u, j>> # <<t, k>>
        PROVE  SentOn(w1, came, sent1, r, u, j)
    <3>1. SentOn(w, came, sent, r, u, j) /\ ~(u = t /\ j = k)
      BY <2>1 DEF Sends
    <3>. QED
      BY <3>1, FurtherSentOn
  <2>. QED
    BY <2>1
<1>9. Sending(w1, came, sent1, r)'
  <2>1. CASE rest = << >>
    <3>1. SentOn(w1, came, sent1, r, t, k)
      BY <1>2, <1>3, <1>7, <2>1 DEF SentOn
    <3>2. AllSentOn(w1, came, sent1, r)
      BY <1>8, <3>1 DEF AllSentOn
    <3>. QED
      BY <1>6, <2>1, <3>2 DEF Sending, AllSentOn, SentOn
  <2>2. CASE rest # << >>
    <3>1. n + 1 < m /\ Len(rest) = m - (n + 1)
      <4>1. Len(ps) # 1
        BY <1>7, <2>2
      <4>. QED
        BY <1>2, <1>3, <1>7, <4>1
    <3>2. ASSUME NEW x \in DOMAIN rest
          PROVE  rest[x].t = t /\ HopOf(rest[x]) = k /\ rest[x].i = (n + 1) + x
      <4>1. x \in Nat /\ x + 1 \in DOMAIN ps /\ rest[x] = ps[x + 1]
        BY <1>7
      <4>2. ps[x + 1].t = t /\ HopOf(ps[x + 1]) = k /\ ps[x + 1].i = n + (x + 1)
        BY <1>2, <1>4, <4>1 DEF Sends
      <4>. QED
        BY <1>2, <4>1, <4>2
    <3>3. Sends(w1, came, sent1, r, t, k)'
      <4>1. /\ r # t.dest /\ nexthop'[r][t.dest] # NoRoute
            /\ outbox'[r].via = data_fd'[r][nexthop'[r][t.dest]] /\ outbox'[r].via # NoConn
        BY <1>6 DEF Sends
      <4>2. /\ Len(outbox'[r].packets) = came[t][k] - sent1[t][k]
            /\ sent1[t][k] < came[t][k]
        BY <1>2, <1>3, <1>6, <3>1
      <4>3. \A x \in DOMAIN outbox'[r].packets :
              /\ outbox'[r].packets[x].t = t /\ HopOf(outbox'[r].packets[x]) = k
              /\ outbox'[r].packets[x].i = sent1[t][k] + x
        BY <1>3, <1>6, <3>2
      <4>. QED
        BY <1>3, <1>8, <4>1, <4>2, <4>3 DEF Sends, SentOn
    <3>. QED
      BY <1>1, <1>6, <2>2, <3>3 DEF Sending
  <2>. QED
    BY <2>1, <2>2
<1>10. ASSUME NEW n0 \in Router, n0 # r, Running(n0)
       PROVE  Sending(w1, came, sent1, n0)'
  <2>1. Sending(w, came, sent, n0) /\ outbox'[n0] = outbox[n0] /\ w[t][k] # n0
    BY <1>6, <1>10 DEF Outboxes, Sends
  <2>2. CASE outbox[n0].packets = << >>
    <3>1. AllSentOn(w, came, sent, n0)
      BY <2>1, <2>2 DEF Sending
    <3>2. AllSentOn(w1, came, sent1, n0)
      BY <2>1, <3>1, FurtherSentOn DEF AllSentOn
    <3>. QED
      BY <2>1, <2>2, <3>2 DEF Sending, AllSentOn, SentOn
  <2>3. CASE outbox[n0].packets # << >>
    <3>1. PICK u \in Transfers : \E j \in Legs(u) : Sends(w, came, sent, n0, u, j)
      BY <2>1, <2>3 DEF Sending
    <3>2. PICK j \in Legs(u) : Sends(w, came, sent, n0, u, j)
      BY <3>1
    <3>3. j \in Hops
      BY LegsOf
    <3>4. ~(u = t /\ j = k)
      BY <2>1, <3>2 DEF Sends
    <3>5. sent1[u][j] = sent[u][j]
      BY <3>3, <3>4 DEF Further
    <3>6. came[u][j] # 0
      <4>1. sent[u][j] \in Nat /\ came[u][j] \in Nat /\ sent[u][j] < came[u][j]
        BY <3>2, <3>3 DEF Further, FlowType, Sends
      <4>. QED
        BY <4>1
    <3>7. w1[u][j] = w[u][j]
      BY <3>3, <3>6 DEF Further
    <3>8. \A v \in Transfers : \A i \in Legs(v) :
            <<v, i>> # <<u, j>> => SentOn(w1, came, sent1, n0, v, i)
      <4>1. ASSUME NEW v \in Transfers, NEW i \in Legs(v), <<v, i>> # <<u, j>>
            PROVE  SentOn(w1, came, sent1, n0, v, i)
        <5>1. SentOn(w, came, sent, n0, v, i)
          BY <3>2, <4>1 DEF Sends
        <5>. QED
          BY <2>1, <5>1, FurtherSentOn
      <4>. QED
        BY <4>1
    <3>9. Sends(w1, came, sent1, n0, u, j)'
      <4>1. PICK o : o = outbox[n0]
        OBVIOUS
      <4>2. /\ w[u][j] = n0 /\ n0 # u.dest
            /\ nexthop[n0][u.dest] # NoRoute
            /\ o.via = data_fd[n0][nexthop[n0][u.dest]] /\ o.via # NoConn
            /\ Len(o.packets) = came[u][j] - sent[u][j]
            /\ sent[u][j] < came[u][j]
            /\ \A x \in DOMAIN o.packets :
                 /\ o.packets[x].t = u /\ HopOf(o.packets[x]) = j
                 /\ o.packets[x].i = sent[u][j] + x
        BY <3>2, <4>1 DEF Sends
      <4>3. outbox'[n0] = o /\ nexthop' = nexthop /\ data_fd' = data_fd
        BY <2>1, <4>1
      <4>4. \A v \in Transfers : \A i \in Legs(v) :
              <<v, i>> # <<u, j>> => SentOn(w1, came, sent1, n0, v, i)'
        BY <3>8 DEF SentOn
      <4>. QED
        BY <3>5, <3>7, <4>2, <4>3, <4>4 DEF Sends
    <3>. QED
      BY <2>1, <2>3, <3>9 DEF Sending
  <2>. QED
    BY <2>2, <2>3
<1>. QED
  BY <1>9, <1>10 DEF Outboxes, Running

LEMMA FurtherStored ==
  ASSUME NEW w, NEW came, NEW sent, NEW w1, NEW sent1, NEW t, NEW k, NEW h,
         Further(w, came, sent, w1, sent1, t, k, h),
         NEW u \in Transfers, Stored(w, came, u)
  PROVE  Stored(w1, came, u)
<1>1. \A j \in Legs(u) : came[u][j] > 0 => w1[u][j] = w[u][j]
  <2>1. ASSUME NEW j \in Legs(u), came[u][j] > 0 PROVE w1[u][j] = w[u][j]
    <3>1. j \in Hops /\ came[u][j] # 0
      BY <2>1, LegsOf
    <3>. QED
      BY <3>1 DEF Further
  <2>. QED
    BY <2>1
<1>. QED
  BY <1>1 DEF Stored

LEMMA FurtherRemembered ==
  ASSUME MemoryTypeOK, NEW w, NEW came, NEW sent, NEW w1, NEW sent1, NEW t, NEW k, NEW h,
         Further(w, came, sent, w1, sent1, t, k, h), Remembered(w, came)
  PROVE  Remembered(w1, came)
<1>1. ASSUME NEW r \in Router, NEW p \in Packet, PassedLast(w, came, r, p) \/ Passed(w, came, r, p)
      PROVE  w1[p.t][HopOf(p)] = r
  <2>1. p.t \in Transfers /\ p.i \in Nat \ {0} /\ Final(p.t) \in Nat \ {0}
    BY PacketFields
  <2>2. HopOf(p) \in Hops
    BY <1>1, <2>1, LegsOf DEF PassedLast, Passed
  <2>3. came[p.t][HopOf(p)] # 0
    BY <1>1, <2>1 DEF PassedLast, Passed
  <2>. QED
    BY <1>1, <2>1, <2>2, <2>3 DEF Further, PassedLast, Passed
<1>2. ASSUME NEW r \in Router
      PROVE  MemoryOK(w1, came, r, last_data_packet[r], penultimate_data_packet[r], data_packet_flag[r])
  <2>0. PICK last \in Seq(Packet), pen \in Seq(Packet) :
          last = last_data_packet[r] /\ pen = penultimate_data_packet[r]
    BY DEF MemoryTypeOK
  <2>1. PICK flag :
          last = last_data_packet[r] /\ pen = penultimate_data_packet[r] /\ flag = data_packet_flag[r]
    BY <2>0
  <2>2. MemoryOK(w, came, r, last, pen, flag)
    BY <2>1 DEF Remembered
  <2>3. LastOK(w1, came, r, last)
    <3>1. CASE last # << >>
      <4>1. PICK l \in Packet : l = last[1]
        BY <3>1
      <4>2. IF HopOf(l) = 0 THEN l.t \notin commands ELSE PassedLast(w, came, r, l)
        BY <2>2, <3>1, <4>1 DEF MemoryOK, LastOK
      <4>3. PassedLast(w, came, r, l) => PassedLast(w1, came, r, l)
        BY <1>1 DEF PassedLast
      <4>. QED
        BY <4>1, <4>2, <4>3 DEF LastOK
    <3>. QED
      BY <3>1 DEF LastOK
  <2>4. PenultimateOK(w1, came, r, pen, flag)
    <3>1. CASE pen # << >>
      <4>1. PICK p \in Packet : p = pen[1]
        BY <3>1
      <4>2. IF HopOf(p) = 0 THEN p.t \notin commands ELSE ~flag => Passed(w, came, r, p)
        BY <2>2, <3>1, <4>1 DEF MemoryOK, PenultimateOK
      <4>3. Passed(w, came, r, p) => Passed(w1, came, r, p)
        BY <1>1 DEF Passed
      <4>. QED
        BY <4>1, <4>2, <4>3 DEF PenultimateOK
    <3>. QED
      BY <3>1 DEF PenultimateOK
  <2>. QED
    BY <2>1, <2>2, <2>3, <2>4 DEF MemoryOK
<1>. QED
  BY <1>2 DEF Remembered

LEMMA SendFlow ==
  ASSUME IInv, NEW w, NEW came, NEW sent, Flow(w, came, sent), NEW r \in Router, sendALL(r),
         up' = up, outbox' = [outbox EXCEPT ![r].packets = Tail(@)],
         NEW c, NEW p, c = outbox[r].via, p = Peer(c, r),
         queue' = [queue EXCEPT ![c][p] = Append(@, Head(outbox[r].packets))]
  PROVE  \E w1, sent1 : Flow(w1, came, sent1)'
<1>1. NetworkTypeOK /\ MemoryTypeOK /\ Connected /\ FlowType(w, came, sent)
      /\ Counts(w, came, sent) /\ Queues(w, came, sent) /\ Complete(w, came, sent)
      /\ Outboxes(w, came, sent) /\ Remembered(w, came)
      /\ \A u \in Transfers : Stored(w, came, u)
  BY DEF IInv, TypeOK, Flow
<1>2. /\ Running(r) /\ outbox[r].packets # << >>
      /\ UNCHANGED <<nexthop, commands, conn, data_fd, memory, disk, history>>
  BY DEF sendALL
<1>3. PICK t \in Transfers : \E k \in Legs(t) : Sends(w, came, sent, r, t, k)
  BY <1>1, <1>2 DEF Outboxes, Sending
<1>4. PICK k \in Legs(t) : Sends(w, came, sent, r, t, k)
  BY <1>3
<1>5. PICK h : h = nexthop[r][t.dest]
  OBVIOUS
<1>6. h \in Router
  <2>1. h # NoRoute
    BY <1>4, <1>5 DEF Sends
  <2>2. t.dest \in Router
    BY TransferAssumption
  <2>3. nexthop \in [Router -> [Router -> Router \cup {NoRoute}]]
    BY <1>1 DEF NetworkTypeOK
  <2>. QED
    BY <1>5, <2>1, <2>2, <2>3
<1>7. c = data_fd[r][h] /\ c # NoConn
  BY <1>4, <1>5 DEF Sends
<1>8. c \in Conn /\ p = h
  BY <1>1, <1>6, <1>7, PeerOf
<1>9. PICK q \in Packet : q = Head(outbox[r].packets)
  BY <1>1, <1>2, <1>4, SentPacket
<1>10. q.t = t /\ HopOf(q) = k /\ q.i = sent[t][k] + 1
  BY <1>1, <1>2, <1>4, <1>9, SentPacket
<1>11. PICK w1, sent1 : /\ w1 = [w EXCEPT ![t][k + 1] = h]
                        /\ sent1 = [sent EXCEPT ![t][k] = sent[t][k] + 1]
  OBVIOUS
<1>12. w[t][k] = r /\ r # t.dest /\ sent[t][k] < came[t][k]
  BY <1>4 DEF Sends
<1>13. Further(w, came, sent, w1, sent1, t, k, h)
  BY <1>1, <1>5, <1>6, <1>11, <1>12, FurtherFits
<1>14. Counts(w1, came, sent1)'
  BY <1>1, <1>2, <1>5, <1>7, <1>12, <1>13, FurtherCounts
<1>15. Enqueued(c, h, q)
  BY <1>8, <1>9 DEF Enqueued
<1>16. Queues(w1, came, sent1)'
  <2>1. data_fd' = data_fd /\ w[t][k] = r /\ c \in Conn /\ c = data_fd[r][h]
    BY <1>2, <1>7, <1>8, <1>12
  <2>. QED
    BY <1>1, <1>10, <1>13, <1>15, <2>1, SentQueues
<1>17. Complete(w1, came, sent1)'
  <2>1. data_fd' = data_fd /\ w[t][k] = r /\ c \in Conn /\ c = data_fd[r][h]
    BY <1>2, <1>7, <1>8, <1>12
  <2>. QED
    BY <1>1, <1>10, <1>13, <1>15, <2>1, SentComplete
<1>18. Outboxes(w1, came, sent1)'
  BY <1>1, <1>2, <1>4, <1>13, SentOutbox
<1>19. \A u \in Transfers : Stored(w1, came, u)'
  <2>1. ASSUME NEW u \in Transfers PROVE Stored(w1, came, u)'
    <3>1. Stored(w1, came, u)
      BY <1>1, <1>13, FurtherStored
    <3>2. Stays(u)
      BY <1>2, DiskStays
    <3>. QED
      BY <3>1, <3>2, StoredStays
  <2>. QED
    BY <2>1
<1>20. Remembered(w1, came)'
  <2>1. Remembered(w1, came)
    BY <1>1, <1>13, FurtherRemembered
  <2>. QED
    BY <1>2, <2>1 DEF Remembered, memory, MemoryOK, LastOK, PenultimateOK
<1>21. FlowType(w1, came, sent1)'
  BY <1>13 DEF Further, FlowType
<1>. QED
  BY <1>14, <1>16, <1>17, <1>18, <1>19, <1>20, <1>21 DEF Flow

-----------------------------------------------------------------------------
(* Packets come to a router                                                 *)

(* The handler of r goes on to send ps: no connection in use is replaced.   *)
Towards(r, d, ps) ==
  /\ \A q, n \in Router : data_fd[q][n] # NoConn => data_fd'[q][n] = data_fd[q][n]
  /\ \A q \in Router : q # r => outbox'[q] = outbox[q]
  /\ \A q \in Router : Running(q)' => Running(q)
  /\ Running(r)' =>
       /\ nexthop[r][d] # NoRoute
       /\ outbox'[r].packets = ps
       /\ outbox'[r].via = data_fd'[r][nexthop[r][d]] /\ outbox'[r].via # NoConn

LEMMA TowardsFits ==
  ASSUME NetworkTypeOK, NEW r \in Router, NEW d \in Router, NEW ps, SendTowards(r, d, ps)
  PROVE  Towards(r, d, ps)
<1>1. PICK h : h = nexthop[r][d]
  OBVIOUS
<1>2. /\ up \in [Router -> {"running", "exited", "hung"}]
      /\ data_fd \in [Router -> [Router -> Conn \cup {NoConn}]]
      /\ outbox \in [Router -> [via : Conn \cup {NoConn}, packets : Seq(Packet)]]
      /\ h \in Router \cup {NoRoute}
  BY <1>1 DEF NetworkTypeOK
<1>3. CASE h = NoRoute /\ up' = [up EXCEPT ![r] = "hung"] /\ UNCHANGED <<conn, data_fd, outbox>>
  BY <1>2, <1>3 DEF Towards, Running
<1>4. CASE up' = [up EXCEPT ![r] = "exited"] /\ UNCHANGED <<data_fd, outbox>>
  BY <1>2, <1>4 DEF Towards, Running
<1>5. CASE /\ h # NoRoute /\ data_fd[r][h] = NoConn
           /\ data_fd' = [data_fd EXCEPT ![r][h] = <<r, h>>]
           /\ outbox' = [outbox EXCEPT ![r] = [via |-> <<r, h>>, packets |-> ps]]
           /\ up' = up
  <2>1. h \in Router /\ <<r, h>> # NoConn
    BY <1>2, <1>5 DEF NoConn
  <2>2. data_fd'[r][h] = <<r, h>>
    BY <1>2, <1>5, <2>1
  <2>3. \A q, n \in Router : data_fd[q][n] # NoConn => data_fd'[q][n] = data_fd[q][n]
    <3>1. ASSUME NEW q \in Router, NEW n \in Router, data_fd[q][n] # NoConn
          PROVE  data_fd'[q][n] = data_fd[q][n]
      <4>1. ~(q = r /\ n = h)
        BY <1>5, <3>1
      <4>. QED
        BY <1>2, <1>5, <2>1, <4>1
    <3>. QED
      BY <3>1
  <2>4. /\ \A q \in Router : q # r => outbox'[q] = outbox[q]
        /\ outbox'[r].packets = ps /\ outbox'[r].via = <<r, h>>
    BY <1>2, <1>5
  <2>. QED
    BY <1>1, <1>5, <2>1, <2>2, <2>3, <2>4 DEF Towards, Running
<1>6. CASE /\ h # NoRoute /\ data_fd[r][h] # NoConn
           /\ outbox' = [outbox EXCEPT ![r] = [via |-> data_fd[r][h], packets |-> ps]]
           /\ UNCHANGED <<up, data_fd>>
  <2>1. /\ \A q \in Router : q # r => outbox'[q] = outbox[q]
        /\ outbox'[r].packets = ps /\ outbox'[r].via = data_fd[r][h]
    BY <1>2, <1>6
  <2>. QED
    BY <1>1, <1>6, <2>1 DEF Towards, Running
<1>. QED
  BY <1>1, <1>3, <1>4, <1>5, <1>6 DEF SendTowards

(* n packets of t have come to its k-th router. *)
Arrives(w, came, sent, came1, t, k, n) ==
  /\ t \in Transfers /\ k \in Hops /\ n \in Nat
  /\ FlowType(w, came, sent) /\ FlowType(w, came1, sent)
  /\ \A u \in Transfers : \A j \in Hops :
       came1[u][j] = IF u = t /\ j = k THEN n ELSE came[u][j]

LEMMA ArrivesFits ==
  ASSUME NEW w, NEW came, NEW sent, FlowType(w, came, sent),
         NEW t \in Transfers, NEW k \in Hops, NEW n \in Nat,
         NEW came1, came1 = [came EXCEPT ![t][k] = n]
  PROVE  Arrives(w, came, sent, came1, t, k, n)
BY EntrySet DEF Arrives, FlowType

(* The other routers do not notice. *)
LEMMA ArrivedElsewhere ==
  ASSUME NEW w, NEW came, NEW sent, NEW came1, NEW t, NEW k, NEW n,
         Arrives(w, came, sent, came1, t, k, n),
         NEW q, w[t][k] # q, Sending(w, came, sent, q)
  PROVE  Sending(w, came1, sent, q)
<1>1. \A u \in Transfers : \A j \in Legs(u) : SentOn(w, came, sent, q, u, j) => SentOn(w, came1, sent, q, u, j)
  <2>1. ASSUME NEW u \in Transfers, NEW j \in Legs(u), SentOn(w, came, sent, q, u, j)
        PROVE  SentOn(w, came1, sent, q, u, j)
    <3>1. j \in Hops
      BY LegsOf
    <3>. QED
      BY <2>1, <3>1 DEF SentOn, Arrives
  <2>. QED
    BY <2>1
<1>2. \A u \in Transfers : \A j \in Legs(u) : Sends(w, came, sent, q, u, j) => Sends(w, came1, sent, q, u, j)
  <2>1. ASSUME NEW u \in Transfers, NEW j \in Legs(u), Sends(w, came, sent, q, u, j)
        PROVE  Sends(w, came1, sent, q, u, j)
    <3>1. j \in Hops /\ ~(u = t /\ j = k)
      BY <2>1, LegsOf DEF Sends
    <3>2. came1[u][j] = came[u][j]
      BY <3>1 DEF Arrives
    <3>. QED
      BY <1>1, <2>1, <3>2 DEF Sends
  <2>. QED
    BY <2>1
<1>. QED
  BY <1>1, <1>2 DEF Sending, AllSentOn

(* An idle router that goes on to send what has come to it. *)
LEMMA ArrivedSending ==
  ASSUME NEW w, NEW came, NEW sent, NEW came1, NEW t, NEW k, NEW n,
         Arrives(w, came, sent, came1, t, k, n), Outboxes(w, came, sent), Settled,
         nexthop \in [Router -> [Router -> Router \cup {NoRoute}]], nexthop' = nexthop,
         NEW r \in Router, Idle(r), w[t][k] = r, r # t.dest, k \in Legs(t),
         NEW ps, Towards(r, t.dest, ps), sent[t][k] < n, Len(ps) = n - sent[t][k], ps # << >>,
         \A x \in DOMAIN ps : ps[x].t = t /\ HopOf(ps[x]) = k /\ ps[x].i = sent[t][k] + x
  PROVE  Outboxes(w, came1, sent)'
<1>1. t \in Transfers /\ k \in Hops
  BY DEF Arrives
<1>2. ASSUME NEW q \in Router, q # r, Running(q)'
      PROVE  Sending(w, came1, sent, q)'
  <2>1. Running(q) /\ outbox'[q] = outbox[q]
    BY <1>2 DEF Towards
  <2>2. Sending(w, came1, sent, q)
    BY <1>2, <2>1, ArrivedElsewhere DEF Outboxes
  <2>3. FlowType(w, came1, sent)
    BY DEF Arrives
  <2>. QED
    BY <2>1, <2>2, <2>3, SendingKept
<1>3. ASSUME Running(r)'
      PROVE  Sending(w, came1, sent, r)'
  <2>1. AllSentOn(w, came, sent, r)
    BY DEF Outboxes, Idle, Sending
  <2>2. \A u \in Transfers : \A j \in Legs(u) : <<u, j>> # <<t, k>> => SentOn(w, came1, sent, r, u, j)
    <3>1. ASSUME NEW u \in Transfers, NEW j \in Legs(u), <<u, j>> # <<t, k>>
          PROVE  SentOn(w, came1, sent, r, u, j)
      <4>1. came1[u][j] = came[u][j]
        BY <3>1, LegsOf DEF Arrives
      <4>. QED
        BY <2>1, <4>1 DEF AllSentOn, SentOn
    <3>. QED
      BY <3>1
  <2>3. came1[t][k] = n
    BY <1>1 DEF Arrives
  <2>4. /\ nexthop'[r][t.dest] # NoRoute
        /\ outbox'[r].packets = ps
        /\ outbox'[r].via = data_fd'[r][nexthop'[r][t.dest]] /\ outbox'[r].via # NoConn
    BY <1>3 DEF Towards
  <2>5. Sends(w, came1, sent, r, t, k)'
    BY <2>2, <2>3, <2>4 DEF Sends, SentOn
  <2>. QED
    BY <1>1, <2>4, <2>5 DEF Sending
<1>. QED
  BY <1>2, <1>3 DEF Outboxes

(* An idle router at the end of the way, or where no TTL is left. *)
LEMMA ArrivedResting ==
  ASSUME NEW w, NEW came, NEW sent, NEW came1, NEW t, NEW k, NEW n,
         Arrives(w, came, sent, came1, t, k, n), Outboxes(w, came, sent),
         NEW r \in Router, Idle(r), w[t][k] = r, r = t.dest \/ k \notin Legs(t),
         UNCHANGED <<up, nexthop, data_fd, outbox>>
  PROVE  Outboxes(w, came1, sent)'
<1>1. ASSUME NEW q \in Router, Running(q)
      PROVE  Sending(w, came1, sent, q)
  <2>1. CASE q # r
    BY <1>1, <2>1, ArrivedElsewhere DEF Outboxes
  <2>2. CASE q = r
    <3>1. AllSentOn(w, came, sent, r) /\ outbox[r].packets = << >>
      BY DEF Outboxes, Idle, Sending
    <3>2. ASSUME NEW u \in Transfers, NEW j \in Legs(u)
          PROVE  SentOn(w, came1, sent, r, u, j)
      <4>1. SentOn(w, came, sent, r, u, j)
        BY <3>1 DEF AllSentOn
      <4>2. CASE u = t /\ j = k
        BY <4>2 DEF SentOn
      <4>3. CASE ~(u = t /\ j = k)
        <5>1. came1[u][j] = came[u][j]
          BY <4>3, LegsOf DEF Arrives
        <5>. QED
          BY <4>1, <5>1 DEF SentOn
      <4>. QED
        BY <4>2, <4>3
    <3>3. AllSentOn(w, came1, sent, r)
      BY <3>2 DEF AllSentOn
    <3>. QED
      BY <2>2, <3>1, <3>3 DEF Sending
  <2>. QED
    BY <2>1, <2>2
<1>. QED
  BY <1>1 DEF Outboxes, Running, Sending, AllSentOn, SentOn, Sends

LEMMA ArrivedMemory ==
  ASSUME NEW w, NEW came, NEW sent, NEW came1, NEW t, NEW k, NEW n,
         Arrives(w, came, sent, came1, t, k, n),
         NEW q, w[t][k] # q \/ k \notin Legs(t) \/ k = 0,
         NEW p \in Packet, HopOf(p) # 0
  PROVE  /\ PassedLast(w, came, q, p) => PassedLast(w, came1, q, p)
         /\ Passed(w, came, q, p) => Passed(w, came1, q, p)
<1>1. ASSUME PassedLast(w, came, q, p) \/ Passed(w, came, q, p)
      PROVE  came1[p.t][HopOf(p)] = came[p.t][HopOf(p)]
  <2>1. p.t \in Transfers /\ HopOf(p) \in Legs(p.t) /\ w[p.t][HopOf(p)] = q
    BY <1>1, PacketFields DEF PassedLast, Passed
  <2>2. HopOf(p) \in Hops /\ ~(p.t = t /\ HopOf(p) = k)
    BY <2>1, LegsOf
  <2>. QED
    BY <2>1, <2>2 DEF Arrives
<1>. QED
  BY <1>1 DEF PassedLast, Passed

LEMMA TowardsSettled ==
  ASSUME NEW r, NEW d, NEW ps, Towards(r, d, ps), nexthop' = nexthop
  PROVE  Settled
BY DEF Towards, Settled

LEMMA ArrivedCounts ==
  ASSUME NEW w, NEW came, NEW sent, NEW came1, NEW t, NEW k, NEW n,
         Arrives(w, came, sent, came1, t, k, n), Counts(w, came, sent), Settled,
         came[t][k] <= n, n <= Final(t),
         \A u \in Transfers : came1[u][0] = IF u \in commands' THEN 0 ELSE Final(u),
         \A j \in Legs(t) : j + 1 = k => n <= sent[t][j] /\ \A i \in 0 .. j : sent[t][i] > 0
  PROVE  Counts(w, came1, sent)'
<1>1. t \in Transfers /\ k \in Hops /\ n \in Nat /\ FlowType(w, came, sent) /\ FlowType(w, came1, sent)
  BY DEF Arrives
<1>2. \A u \in Transfers : \A j \in Hops :
        came1[u][j] = IF u = t /\ j = k THEN n ELSE came[u][j]
  BY DEF Arrives
<1> SUFFICES ASSUME NEW u \in Transfers
             PROVE  /\ w[u][0] = u.src
                    /\ came1[u][0] = IF u \in commands' THEN 0 ELSE Final(u)
                    /\ \A j \in Hops : sent[u][j] <= came1[u][j] /\ came1[u][j] <= Final(u)
                    /\ \A j \in Legs(u) : Leg(w, came1, sent, u, j)'
  BY DEF Counts
<1>3. ASSUME NEW j \in Hops PROVE sent[u][j] <= came1[u][j] /\ came1[u][j] <= Final(u)
  <2>1. sent[u][j] <= came[u][j] /\ came[u][j] <= Final(u)
    BY DEF Counts
  <2>2. sent[u][j] \in Nat /\ came[u][j] \in Nat /\ n \in Nat
    BY <1>1 DEF FlowType
  <2>3. CASE u = t /\ j = k
    <3>1. came1[u][j] = n
      BY <1>2, <2>3
    <3>2. came[u][j] <= n /\ n <= Final(u)
      BY <2>3
    <3>. QED
      BY <2>1, <2>2, <3>1, <3>2
  <2>4. CASE ~(u = t /\ j = k)
    BY <1>2, <2>1, <2>4
  <2>. QED
    BY <2>3, <2>4
<1>4. ASSUME NEW j \in Legs(u) PROVE Leg(w, came1, sent, u, j)'
  <2>1. j \in Hops /\ j + 1 \in Hops
    BY LegsOf
  <2>2. Leg(w, came, sent, u, j)
    BY DEF Counts
  <2>3. Leg(w, came1, sent, u, j)
    <3>1. CASE u = t /\ j + 1 = k
      <4>1. came1[u][j + 1] = n
        BY <1>2, <2>1, <3>1
      <4>. QED
        BY <2>2, <3>1, <4>1 DEF Leg
    <3>2. CASE ~(u = t /\ j + 1 = k)
      <4>1. came1[u][j + 1] = came[u][j + 1]
        BY <1>2, <2>1, <3>2
      <4>. QED
        BY <2>2, <4>1 DEF Leg
    <3>. QED
      BY <3>1, <3>2
  <2>. QED
    BY <1>1, <2>3, LegKept
<1>. QED
  BY <1>3, <1>4 DEF Counts

LEMMA ArrivedStored ==
  ASSUME NEW w, NEW came, NEW sent, NEW came1, NEW t, NEW k, NEW n,
         Arrives(w, came, sent, came1, t, k, n), w[t][k] # t.dest \/ k \notin Legs(t),
         NEW u \in Transfers, Stored(w, came, u)
  PROVE  Stored(w, came1, u)
<1>1. ASSUME NEW j \in Legs(u), w[u][j] = u.dest PROVE came1[u][j] = came[u][j]
  <2>1. j \in Hops /\ ~(u = t /\ j = k)
    BY <1>1, LegsOf
  <2>. QED
    BY <2>1 DEF Arrives
<1>. QED
  BY <1>1 DEF Stored

LEMMA FirstOf ==
  ASSUME NEW s \in Seq(Packet), s # << >>
  PROVE  s[1] \in Packet
<1>1. Head(s) = s[1] /\ Head(s) \in Packet
  BY HeadTailProperties
<1>. QED
  BY <1>1

LEMMA ArrivedRemembered ==
  ASSUME NEW w, NEW came, NEW sent, NEW came1, NEW t, NEW k, NEW n,
         Arrives(w, came, sent, came1, t, k, n), commands' \subseteq commands,
         NEW q, w[t][k] # q \/ k \notin Legs(t) \/ k = 0,
         NEW last \in Seq(Packet), NEW pen \in Seq(Packet), NEW flag,
         MemoryOK(w, came, q, last, pen, flag)
  PROVE  MemoryOK(w, came1, q, last, pen, flag)'
<1>1. LastOK(w, came1, q, last)'
  <2>1. ASSUME last # << >>, HopOf(last[1]) = 0 PROVE last[1].t \notin commands'
    BY <2>1 DEF MemoryOK, LastOK
  <2>2. ASSUME last # << >>, HopOf(last[1]) # 0 PROVE PassedLast(w, came1, q, last[1])
    <3>1. PICK l \in Packet : l = last[1]
      BY <2>2, FirstOf
    <3>2. PassedLast(w, came, q, l)
      BY <2>2, <3>1 DEF MemoryOK, LastOK
    <3>. QED
      BY <2>2, <3>1, <3>2, ArrivedMemory
  <2>. QED
    BY <2>1, <2>2 DEF LastOK, PassedLast
<1>2. PenultimateOK(w, came1, q, pen, flag)'
  <2>1. ASSUME pen # << >>, HopOf(pen[1]) = 0 PROVE pen[1].t \notin commands'
    BY <2>1 DEF MemoryOK, PenultimateOK
  <2>2. ASSUME pen # << >>, HopOf(pen[1]) # 0, ~flag PROVE Passed(w, came1, q, pen[1])
    <3>1. PICK l \in Packet : l = pen[1]
      BY <2>2, FirstOf
    <3>2. Passed(w, came, q, l)
      BY <2>2, <3>1 DEF MemoryOK, PenultimateOK
    <3>. QED
      BY <2>2, <3>1, <3>2, ArrivedMemory
  <2>. QED
    BY <2>1, <2>2 DEF PenultimateOK, Passed
<1>. QED
  BY <1>1, <1>2 DEF MemoryOK

-----------------------------------------------------------------------------
(* A SENDFILE                                                               *)

LEMMA GivenOnLeg ==
  ASSUME Settled, NEW w, NEW came, NEW sent, NEW came1, NEW t, NEW n,
         Arrives(w, came, sent, came1, t, 0, n),
         NEW p \in Packet, NEW c \in Conn, NEW r \in Router, OnLeg(w, came, sent, p, c, r)
  PROVE  OnLeg(w, came1, sent, p, c, r)'
<1>1. p.t \in Transfers /\ HopOf(p) \in Legs(p.t)
  BY PacketFields DEF OnLeg
<1>2. HopOf(p) + 1 \in Hops /\ HopOf(p) + 1 # 0
  BY <1>1, LegsOf
<1>3. came1[p.t][HopOf(p) + 1] = came[p.t][HopOf(p) + 1]
  BY <1>1, <1>2 DEF Arrives
<1>4. OnLeg(w, came1, sent, p, c, r)
  BY <1>3 DEF OnLeg
<1>5. FlowType(w, came1, sent)
  BY DEF Arrives
<1>. QED
  BY <1>4, <1>5, OnLegKept

LEMMA GivenQueues ==
  ASSUME NetworkTypeOK, Settled, NEW w, NEW came, NEW sent, NEW came1, NEW t, NEW n,
         Arrives(w, came, sent, came1, t, 0, n), Queues(w, came, sent), queue' = queue
  PROVE  Queues(w, came1, sent)'
<1>1. queue \in [Conn -> [Router -> Seq(Packet)]]
  BY DEF NetworkTypeOK
<1>2. ASSUME NEW c \in Conn, NEW r \in Router, NEW x \in DOMAIN queue[c][r]
      PROVE  OnLeg(w, came1, sent, queue[c][r][x], c, r)'
  <2>1. PICK p \in Packet : p = queue[c][r][x]
    BY <1>1, <1>2
  <2>2. OnLeg(w, came, sent, p, c, r)
    BY <1>2, <2>1 DEF Queues
  <2>3. OnLeg(w, came1, sent, p, c, r)'
    BY <2>2, GivenOnLeg
  <2>4. queue'[c][r][x] = p
    BY <2>1
  <2>. QED
    BY <2>3, <2>4 DEF OnLeg
<1>. QED
  BY <1>2 DEF Queues, InTurn

LEMMA GivenComplete ==
  ASSUME Settled, NEW w, NEW came, NEW sent, NEW came1, NEW t, NEW n,
         Arrives(w, came, sent, came1, t, 0, n),
         Counts(w, came, sent), Complete(w, came, sent), queue' = queue
  PROVE  Complete(w, came1, sent)'
<1>1. ASSUME NEW u \in Transfers, NEW k \in Legs(u), NEW i \in Nat,
             came1[u][k + 1] < i, i <= sent[u][k]
      PROVE  Holds(queue[data_fd[w[u][k]][w[u][k + 1]]][w[u][k + 1]], u, k, i)'
  <2>1. FlowType(w, came, sent)
    BY DEF Arrives
  <2>2. k \in Hops /\ k + 1 \in Hops /\ k + 1 # 0
    BY LegsOf
  <2>3. came1[u][k + 1] = came[u][k + 1] /\ came[u][k + 1] \in Nat /\ sent[u][k] \in Nat
    BY <2>1, <2>2 DEF Arrives, FlowType
  <2>4. sent[u][k] > 0
    BY <1>1, <2>3
  <2>5. data_fd'[w[u][k]][w[u][k + 1]] = data_fd[w[u][k]][w[u][k + 1]]
    BY <2>1, <2>4, BetweenKept
  <2>. QED
    BY <1>1, <2>3, <2>5 DEF Complete
<1>. QED
  BY <1>1 DEF Complete

LEMMA FilePackets ==
  ASSUME NEW t \in Transfers, NEW ps, ps = [i \in 1 .. Final(t) |-> FilePacket(t, i)]
  PROVE  /\ Final(t) \in Nat \ {0} /\ Len(ps) = Final(t) /\ ps # << >>
         /\ DOMAIN ps = 1 .. Final(t)
         /\ \A x \in DOMAIN ps : ps[x].t = t /\ HopOf(ps[x]) = 0 /\ ps[x].i = x
<1>1. PICK n : n = Final(t)
  OBVIOUS
<1>2. n \in Nat \ {0}
  BY <1>1, PacketOf
<1>3. Len(ps) = n /\ DOMAIN ps = 1 .. n
  BY <1>1, <1>2
<1>4. \A x \in DOMAIN ps : ps[x] = FilePacket(t, x)
  BY <1>1, <1>3
<1>. QED
  BY <1>1, <1>2, <1>3, <1>4, FirstHop

LEMMA GivenRemembered ==
  ASSUME MemoryTypeOK, NEW w, NEW came, NEW sent, NEW came1,
         NEW r \in Router, NEW t \in Transfers, sendfile_handler(r, t),
         NEW n, Arrives(w, came, sent, came1, t, 0, n), Remembered(w, came)
  PROVE  Remembered(w, came1)'
<1>1. /\ last_data_packet \in [Router -> Seq(Packet)]
      /\ penultimate_data_packet \in [Router -> Seq(Packet)]
      /\ commands' \subseteq commands /\ t \notin commands'
      /\ data_packet_flag' = data_packet_flag
  BY DEF MemoryTypeOK, sendfile_handler
<1>2. PICK ps : ps = [i \in 1 .. Final(t) |-> FilePacket(t, i)]
  OBVIOUS
<1>3. /\ Final(t) \in Nat \ {0} /\ DOMAIN ps = 1 .. Final(t)
      /\ \A x \in DOMAIN ps : ps[x].t = t /\ HopOf(ps[x]) = 0 /\ ps[x].i = x
  BY <1>2, FilePackets
<1>4. /\ last_data_packet' = [last_data_packet EXCEPT ![r] = <<ps[Final(t)]>>]
      /\ penultimate_data_packet' =
           IF t.packets_n > 1
           THEN [penultimate_data_packet EXCEPT ![r] = <<ps[t.packets_n - 1]>>]
           ELSE penultimate_data_packet
  BY <1>2 DEF sendfile_handler
<1>5. t.packets_n \in Nat
  BY TransferAssumption
<1>6. ASSUME NEW q \in Router, q # r
      PROVE  MemoryOK(w, came1, q, last_data_packet[q], penultimate_data_packet[q], data_packet_flag[q])'
  <2>1. /\ last_data_packet'[q] = last_data_packet[q]
        /\ penultimate_data_packet'[q] = penultimate_data_packet[q]
        /\ data_packet_flag'[q] = data_packet_flag[q]
    BY <1>1, <1>4, <1>6
  <2>2. PICK last \in Seq(Packet) : last = last_data_packet[q]
    BY <1>1
  <2>3. PICK pen \in Seq(Packet) : pen = penultimate_data_packet[q]
    BY <1>1
  <2>4. PICK flag : flag = data_packet_flag[q]
    OBVIOUS
  <2>5. MemoryOK(w, came, q, last, pen, flag)
    BY <2>2, <2>3, <2>4 DEF Remembered
  <2>6. MemoryOK(w, came1, q, last, pen, flag)'
    BY <1>1, <2>5, ArrivedRemembered
  <2>. QED
    BY <2>1, <2>2, <2>3, <2>4, <2>6 DEF MemoryOK, LastOK, PenultimateOK
<1>7. MemoryOK(w, came1, r, last_data_packet[r], penultimate_data_packet[r], data_packet_flag[r])'
  <2>1. PICK pen \in Seq(Packet) : pen = penultimate_data_packet[r]
    BY <1>1
  <2>2. PICK flag : flag = data_packet_flag[r]
    OBVIOUS
  <2>3. PICK m : m = Final(t)
    OBVIOUS
  <2>4. PICK l : l = ps[m]
    OBVIOUS
  <2>5. l.t = t /\ HopOf(l) = 0 /\ l.i = m
    BY <1>3, <2>3, <2>4
  <2>6. last_data_packet'[r] = <<l>>
    BY <1>1, <1>4, <2>3, <2>4
  <2>7. PICK last1, pen1, flag1 :
          /\ last1 = last_data_packet'[r] /\ pen1 = penultimate_data_packet'[r]
          /\ flag1 = data_packet_flag'[r]
    OBVIOUS
  <2>8. LastOK(w, came1, r, last1)'
    BY <1>1, <2>5, <2>6, <2>7 DEF LastOK
  <2>9. PenultimateOK(w, came1, r, pen1, flag1)' /\ (pen1 # << >> => InSuccession(l, pen1[1]))
    <3>1. CASE t.packets_n > 1
      <4>1. m = t.packets_n /\ t.packets_n - 1 \in 1 .. m
        BY <1>5, <2>3, <3>1 DEF Final
      <4>2. PICK p : p = ps[t.packets_n - 1]
        OBVIOUS
      <4>3. p.t = t /\ HopOf(p) = 0 /\ p.i = m - 1
        BY <1>3, <2>3, <4>1, <4>2
      <4>4. pen1 = <<p>>
        BY <1>1, <1>4, <2>7, <3>1, <4>2
      <4>5. PenultimateOK(w, came1, r, pen1, flag1)'
        BY <1>1, <4>3, <4>4 DEF PenultimateOK
      <4>6. InSuccession(l, p)
        BY <2>5, <4>3 DEF InSuccession
      <4>. QED
        BY <4>4, <4>5, <4>6
    <3>2. CASE ~(t.packets_n > 1)
      <4>1. m = 1
        BY <1>5, <2>3, <3>2 DEF Final
      <4>2. pen1 = pen /\ flag1 = flag
        BY <1>1, <1>4, <2>1, <2>2, <2>7, <3>2
      <4>3. PICK last \in Seq(Packet) : last = last_data_packet[r]
        BY <1>1
      <4>4. MemoryOK(w, came, r, last, pen, flag)
        BY <2>1, <2>2, <4>3 DEF Remembered
      <4>5. MemoryOK(w, came1, r, last, pen, flag)'
        BY <1>1, <4>4, ArrivedRemembered
      <4>6. InSuccession(l, pen[1])
        BY <2>5, <4>1 DEF InSuccession
      <4>. QED
        BY <4>2, <4>5, <4>6 DEF MemoryOK
    <3>. QED
      BY <3>1, <3>2
  <2>10. InSuccession(last1[1], pen1[1]) <=> InSuccession(l, pen1[1])
    BY <2>6, <2>7
  <2>11. MemoryOK(w, came1, r, last1, pen1, flag1)'
    BY <2>8, <2>9, <2>10 DEF MemoryOK
  <2>. QED
    BY <2>7, <2>11 DEF MemoryOK, LastOK, PenultimateOK
<1>. QED
  BY <1>6, <1>7 DEF Remembered

LEMMA SendfileFlow ==
  ASSUME NetworkTypeOK, MemoryTypeOK, NEW r \in Router, NEW t \in Transfers, sendfile_handler(r, t),
         NEW w, NEW came, NEW sent, Flow(w, came, sent)
  PROVE  \E came1 : Flow(w, came1, sent)'
<1>1. /\ FlowType(w, came, sent) /\ Counts(w, came, sent) /\ Queues(w, came, sent)
      /\ Complete(w, came, sent) /\ Outboxes(w, came, sent)
      /\ \A u \in Transfers : Stored(w, came, u)
      /\ Remembered(w, came)
  BY DEF Flow
<1>2. 0 \in Hops /\ 0 \in Legs(t)
  BY LegsOf
<1>3. PICK ps : ps = [i \in 1 .. Final(t) |-> FilePacket(t, i)]
  OBVIOUS
<1>4. /\ Final(t) \in Nat \ {0} /\ Len(ps) = Final(t) /\ ps # << >>
      /\ \A x \in DOMAIN ps : ps[x].t = t /\ HopOf(ps[x]) = 0 /\ ps[x].i = x
      /\ DOMAIN ps = 1 .. Final(t)
  BY <1>3, FilePackets
<1>5. PICK n \in Nat : n = Final(t)
  BY <1>4
<1>6. PICK came1 : came1 = [came EXCEPT ![t][0] = n]
  OBVIOUS
<1>7. Arrives(w, came, sent, came1, t, 0, n)
  BY <1>1, <1>2, <1>6, ArrivesFits
<1>8. /\ Idle(r) /\ t \in commands /\ t.src = r /\ commands' = commands \ {t}
      /\ nexthop' = nexthop /\ queue' = queue /\ UNCHANGED disk
      /\ SendTowards(r, t.dest, ps)
  BY <1>3 DEF sendfile_handler
<1>9. t.dest \in Router /\ t.src # t.dest
  BY TransferAssumption
<1>10. Towards(r, t.dest, ps)
  BY <1>8, <1>9, TowardsFits
<1>11. Settled
  BY <1>8, <1>10, TowardsSettled
<1>12. w[t][0] = r /\ came[t][0] = 0 /\ sent[t][0] = 0
  <2>1. sent[t][0] <= came[t][0] /\ came[t][0] = 0 /\ w[t][0] = r
    BY <1>1, <1>2, <1>8 DEF Counts
  <2>2. sent[t][0] \in Nat
    BY <1>1, <1>2 DEF FlowType
  <2>. QED
    BY <2>1, <2>2
<1>13. FlowType(w, came1, sent)
  BY <1>7 DEF Arrives
<1>14. Counts(w, came1, sent)'
  <2>1. \A u \in Transfers : came1[u][0] = IF u \in commands' THEN 0 ELSE Final(u)
    <3>1. \A u \in Transfers : came1[u][0] = IF u = t THEN n ELSE came[u][0]
      BY <1>2, <1>7 DEF Arrives
    <3>2. \A u \in Transfers : came[u][0] = IF u \in commands THEN 0 ELSE Final(u)
      BY <1>1 DEF Counts
    <3>. QED
      BY <1>5, <1>8, <3>1, <3>2
  <2>2. \A j \in Legs(t) : j + 1 # 0
    BY LegsOf
  <2>3. came[t][0] <= n /\ n <= Final(t)
    BY <1>4, <1>5, <1>12
  <2>. QED
    BY <1>1, <1>7, <1>11, <2>1, <2>2, <2>3, ArrivedCounts
<1>15. Queues(w, came1, sent)'
  BY <1>1, <1>7, <1>8, <1>11, GivenQueues
<1>16. Complete(w, came1, sent)'
  BY <1>1, <1>7, <1>8, <1>11, GivenComplete
<1>17. Outboxes(w, came1, sent)'
  <2>1. nexthop \in [Router -> [Router -> Router \cup {NoRoute}]]
    BY DEF NetworkTypeOK
  <2>2. sent[t][0] < n /\ Len(ps) = n - sent[t][0] /\ r # t.dest
    BY <1>4, <1>5, <1>8, <1>9, <1>12
  <2>3. \A x \in DOMAIN ps : ps[x].t = t /\ HopOf(ps[x]) = 0 /\ ps[x].i = sent[t][0] + x
    BY <1>4, <1>12
  <2>4. /\ Outboxes(w, came, sent) /\ Settled /\ nexthop' = nexthop /\ Idle(r)
        /\ w[t][0] = r /\ 0 \in Legs(t) /\ Towards(r, t.dest, ps) /\ ps # << >>
        /\ Arrives(w, came, sent, came1, t, 0, n)
    BY <1>1, <1>2, <1>4, <1>7, <1>8, <1>10, <1>11, <1>12
  <2>. QED
    BY <2>1, <2>2, <2>3, <2>4, ArrivedSending
<1>18. ASSUME NEW u \in Transfers PROVE Stored(w, came1, u)'
  <2>1. Stored(w, came, u)
    BY <1>1
  <2>2. w[t][0] # t.dest
    BY <1>8, <1>9, <1>12
  <2>3. Stored(w, came1, u)
    BY <1>7, <2>1, <2>2, ArrivedStored
  <2>4. Stays(u)
    BY <1>8, DiskStays
  <2>. QED
    BY <2>3, <2>4, StoredStays
<1>19. Remembered(w, came1)'
  BY <1>1, <1>7, GivenRemembered
<1>20. Flow(w, came1, sent)'
  BY <1>13, <1>14, <1>15, <1>16, <1>17, <1>18, <1>19 DEF Flow, FlowType
<1>. QED
  BY <1>20

-----------------------------------------------------------------------------
(* A packet is read                                                         *)

LEMMA SentBefore ==
  ASSUME NEW w, NEW came, NEW sent, FlowType(w, came, sent), Counts(w, came, sent),
         NEW t \in Transfers, NEW k \in Legs(t), sent[t][k] > 0
  PROVE  \A j \in 0 .. k : sent[t][j] > 0
<1>1. k \in Hops /\ k \in Nat
  BY LegsOf
<1>2. CASE k = 0
  BY <1>2
<1>3. CASE k # 0
  <2>1. PICK j \in Nat : j + 1 = k /\ j \in 0 .. k
    BY <1>1, <1>3
  <2>2. j \in Legs(t)
    BY <2>1, LegsOf
  <2>3. Leg(w, came, sent, t, j)
    BY <2>2 DEF Counts
  <2>4. came[t][j + 1] > 0
    <3>1. sent[t][k] <= came[t][k] /\ sent[t][k] \in Nat /\ came[t][k] \in Nat
      BY <1>1 DEF Counts, FlowType
    <3>2. came[t][k] > 0
      BY <3>1
    <3>. QED
      BY <2>1, <3>2
  <2>5. \A x \in 0 .. j : sent[t][x] > 0
    BY <2>3, <2>4 DEF Leg
  <2>6. \A x \in 0 .. k : x \in 0 .. j \/ x = k
    BY <1>1, <2>1
  <2>. QED
    BY <2>5, <2>6
<1>. QED
  BY <1>2, <1>3

(* The first packet in a queue is the next of its leg. *)
Comes(w, came, sent, came1, c, r, p, t, k, kk, n) ==
  /\ p \in Packet /\ p.t = t /\ HopOf(p) = k /\ p.i = n
  /\ t \in Transfers /\ k \in Legs(t) /\ kk = k + 1
  /\ w[t][kk] = r /\ data_fd[w[t][k]][r] = c
  /\ n = came[t][kk] + 1 /\ n <= sent[t][k]
  /\ Arrives(w, came, sent, came1, t, kk, n)

LEMMA HeadNext ==
  ASSUME NEW w, NEW came, NEW sent, FlowType(w, came, sent),
         Queues(w, came, sent), Complete(w, came, sent),
         NEW c \in Conn, NEW r \in Router, NEW q \in Seq(Packet), q = queue[c][r], q # << >>
  PROVE  \E came1, t, k, kk, n : Comes(w, came, sent, came1, c, r, Head(q), t, k, kk, n)
<1>1. PICK p \in Packet : p = q[1] /\ p = Head(q) /\ 1 \in DOMAIN q
  BY TailOf
<1>2. OnLeg(w, came, sent, p, c, r) /\ InTurn(q)
  BY <1>1 DEF Queues
<1>3. PICK t \in Transfers : t = p.t
  BY PacketFields
<1>4. PICK k \in Legs(t) : k = HopOf(p)
  BY <1>2, <1>3 DEF OnLeg
<1>5. PICK n \in Nat : n = p.i
  BY PacketFields
<1>6. PICK kk \in Hops : kk = k + 1
  BY LegsOf
<1>7. w[t][kk] = r /\ data_fd[w[t][k]][r] = c /\ came[t][kk] < n /\ n <= sent[t][k]
  BY <1>2, <1>3, <1>4, <1>5, <1>6 DEF OnLeg
<1>8. came[t][kk] \in Nat /\ sent[t][k] \in Nat
  BY <1>6, LegsOf DEF FlowType
<1>9. PICK m \in Nat : m = came[t][kk] + 1
  BY <1>8
<1>10. n = m
  <2>1. came[t][kk] < m /\ m <= sent[t][k] /\ m <= n
    BY <1>7, <1>8, <1>9
  <2>2. Holds(queue[data_fd[w[t][k]][w[t][kk]]][w[t][kk]], t, k, m)
    BY <1>6, <2>1 DEF Complete
  <2>3. Holds(q, t, k, m)
    BY <1>7, <2>2
  <2>4. PICK x \in DOMAIN q : q[x].t = t /\ q[x].i = m /\ HopOf(q[x]) = k
    BY <2>3 DEF Holds
  <2>5. CASE x = 1
    BY <1>1, <1>5, <2>4, <2>5
  <2>6. CASE x # 1
    <3>1. x \in Nat /\ 1 < x
      BY <2>6
    <3>2. q[1].i < q[x].i
      BY <1>1, <1>2, <1>3, <1>4, <2>4, <3>1 DEF InTurn
    <3>. QED
      BY <1>1, <1>5, <2>1, <2>4, <3>2
  <2>. QED
    BY <2>5, <2>6
<1>11. PICK came1 : came1 = [came EXCEPT ![t][kk] = n]
  OBVIOUS
<1>12. Arrives(w, came, sent, came1, t, kk, n)
  BY <1>11, ArrivesFits
<1>13. Comes(w, came, sent, came1, c, r, p, t, k, kk, n)
  BY <1>3, <1>4, <1>5, <1>6, <1>7, <1>9, <1>10, <1>12 DEF Comes
<1>. QED
  BY <1>1, <1>13

(* The packets that stay in their queues are those of other legs and the    *)
(* later ones.                                                              *)
Popped(c, r) == queue' = [queue EXCEPT ![c][r] = Tail(@)]

LEMMA PoppedQueues ==
  ASSUME NetworkTypeOK, NEW c \in Conn, NEW r \in Router, Popped(c, r)
  PROVE  \A c2 \in Conn : \A r2 \in Router :
           queue'[c2][r2] = IF c2 = c /\ r2 = r THEN Tail(queue[c][r]) ELSE queue[c2][r2]
<1>1. queue \in [Conn -> [Router -> Seq(Packet)]]
  BY DEF NetworkTypeOK
<1>. QED
  BY <1>1 DEF Popped

LEMMA TailInTurn ==
  ASSUME NEW q \in Seq(Packet), q # << >>, InTurn(q), NEW rest, rest = Tail(q)
  PROVE  InTurn(rest)
<1>1. \A x \in DOMAIN rest : x \in Nat /\ x + 1 \in DOMAIN q /\ rest[x] = q[x + 1]
  BY TailOf
<1>2. ASSUME NEW x \in DOMAIN rest, NEW y \in DOMAIN rest, x < y,
             rest[x].t = rest[y].t, HopOf(rest[x]) = HopOf(rest[y])
      PROVE  rest[x].i < rest[y].i
  <2>1. x + 1 < y + 1
    BY <1>1, <1>2
  <2>. QED
    BY <1>1, <1>2, <2>1 DEF InTurn
<1>. QED
  BY <1>2 DEF InTurn

LEMMA LeftOnLeg ==
  ASSUME Settled, NEW w, NEW came, NEW sent, NEW came1, NEW c \in Conn, NEW r \in Router,
         NEW p0, NEW t, NEW k, NEW kk, NEW n,
         Comes(w, came, sent, came1, c, r, p0, t, k, kk, n),
         NEW c2 \in Conn, NEW r2 \in Router, NEW p \in Packet, OnLeg(w, came, sent, p, c2, r2),
         c2 = c /\ r2 = r /\ p.t = t /\ HopOf(p) = k => n < p.i
  PROVE  OnLeg(w, came1, sent, p, c2, r2)'
<1>1. PICK u \in Transfers : u = p.t
  BY PacketFields
<1>2. PICK j \in Legs(u) : j = HopOf(p)
  BY <1>1 DEF OnLeg
<1>3. /\ w[u][j + 1] = r2 /\ data_fd[w[u][j]][r2] = c2
      /\ came[u][j + 1] < p.i /\ p.i <= sent[u][j]
  BY <1>1, <1>2 DEF OnLeg
<1>4. j \in Nat /\ j + 1 \in Hops
  BY LegsOf
<1>5. came1[u][j + 1] < p.i
  <2>1. Arrives(w, came, sent, came1, t, kk, n) /\ t \in Transfers /\ k \in Legs(t) /\ kk = k + 1
    BY DEF Comes
  <2>2. came1[u][j + 1] = IF u = t /\ j + 1 = kk THEN n ELSE came[u][j + 1]
    BY <1>4, <2>1 DEF Arrives
  <2>3. CASE u = t /\ j + 1 = kk
    <3>1. k \in Nat
      BY <2>1, LegsOf
    <3>2. j = k
      BY <1>4, <2>1, <2>3, <3>1
    <3>3. r2 = r /\ c2 = c
      BY <1>3, <2>3, <3>2 DEF Comes
    <3>. QED
      BY <1>1, <1>2, <2>2, <2>3, <3>2, <3>3
  <2>4. CASE ~(u = t /\ j + 1 = kk)
    BY <1>3, <2>2, <2>4
  <2>. QED
    BY <2>3, <2>4
<1>6. OnLeg(w, came1, sent, p, c2, r2)
  BY <1>1, <1>2, <1>3, <1>5 DEF OnLeg
<1>7. FlowType(w, came1, sent)
  BY DEF Comes, Arrives
<1>. QED
  BY <1>6, <1>7, OnLegKept

LEMMA ReadQueues ==
  ASSUME NetworkTypeOK, Settled, NEW w, NEW came, NEW sent, NEW came1,
         NEW c \in Conn, NEW r \in Router,
         NEW q \in Seq(Packet), q = queue[c][r], q # << >>,
         NEW t, NEW k, NEW kk, NEW n,
         Comes(w, came, sent, came1, c, r, Head(q), t, k, kk, n),
         Queues(w, came, sent), Popped(c, r)
  PROVE  Queues(w, came1, sent)'
<1>1. queue \in [Conn -> [Router -> Seq(Packet)]]
  BY DEF NetworkTypeOK
<1>2. PICK rest \in Seq(Packet) : rest = Tail(q)
  BY TailOf
<1>3. \A c2 \in Conn : \A r2 \in Router :
        queue'[c2][r2] = IF c2 = c /\ r2 = r THEN rest ELSE queue[c2][r2]
  BY <1>2, PoppedQueues
<1>4. InTurn(q) /\ InTurn(rest)
  <2>1. InTurn(q)
    BY DEF Queues
  <2>. QED
    BY <1>2, <2>1, TailInTurn
<1>5. /\ 1 \in DOMAIN q /\ Head(q) = q[1]
      /\ \A x \in DOMAIN rest : x \in Nat /\ x + 1 \in DOMAIN q /\ rest[x] = q[x + 1]
  BY <1>2, TailOf
<1> SUFFICES ASSUME NEW c2 \in Conn, NEW r2 \in Router, NEW q2, q2 = queue'[c2][r2]
             PROVE  InTurn(q2) /\ \A x \in DOMAIN q2 : OnLeg(w, came1, sent, q2[x], c2, r2)'
  <2>1. ASSUME NEW c2 \in Conn, NEW r2 \in Router, NEW q2, q2 = queue'[c2][r2],
               InTurn(q2) /\ \A x \in DOMAIN q2 : OnLeg(w, came1, sent, q2[x], c2, r2)'
        PROVE  /\ InTurn(queue[c2][r2])'
               /\ \A x \in DOMAIN queue'[c2][r2] : OnLeg(w, came1, sent, queue[c2][r2][x], c2, r2)'
    <3>1. InTurn(queue[c2][r2])'
      BY <2>1 DEF InTurn
    <3>2. ASSUME NEW x \in DOMAIN q2 PROVE OnLeg(w, came1, sent, queue[c2][r2][x], c2, r2)'
      BY <2>1, <3>2 DEF OnLeg
    <3>. QED
      BY <2>1, <3>1, <3>2
  <2>. QED
    BY <2>1 DEF Queues
<1>6. CASE c2 = c /\ r2 = r
  <2>1. q2 = rest
    BY <1>3, <1>6
  <2>2. ASSUME NEW x \in DOMAIN rest PROVE OnLeg(w, came1, sent, rest[x], c2, r2)'
    <3>1. PICK p \in Packet : p = rest[x]
      BY <2>2
    <3>2. x \in Nat /\ x + 1 \in DOMAIN q /\ p = q[x + 1] /\ 1 < x + 1
      <4>1. x \in Nat /\ x + 1 \in DOMAIN q /\ p = q[x + 1] /\ x # 0
        BY <1>5, <2>2, <3>1
      <4>. QED
        BY <4>1
    <3>3. OnLeg(w, came, sent, p, c2, r2)
      BY <1>6, <3>2 DEF Queues
    <3>4. p.t = t /\ HopOf(p) = k => n < p.i
      <4>1. Head(q).t = t /\ HopOf(Head(q)) = k /\ Head(q).i = n
        BY DEF Comes
      <4>. QED
        BY <1>4, <1>5, <3>2, <4>1 DEF InTurn
    <3>5. OnLeg(w, came1, sent, p, c2, r2)'
      BY <3>3, <3>4, LeftOnLeg
    <3>. QED
      BY <3>1, <3>5 DEF OnLeg
  <2>. QED
    BY <1>4, <2>1, <2>2
<1>7. CASE ~(c2 = c /\ r2 = r)
  <2>1. q2 = queue[c2][r2]
    BY <1>3, <1>7
  <2>2. PICK s \in Seq(Packet) : s = queue[c2][r2]
    BY <1>1
  <2>3. ASSUME NEW x \in DOMAIN s PROVE OnLeg(w, came1, sent, s[x], c2, r2)'
    <3>1. PICK p \in Packet : p = s[x]
      BY <2>3
    <3>2. OnLeg(w, came, sent, p, c2, r2)
      BY <2>2, <2>3, <3>1 DEF Queues
    <3>3. OnLeg(w, came1, sent, p, c2, r2)'
      BY <1>7, <3>2, LeftOnLeg
    <3>. QED
      BY <3>1, <3>3 DEF OnLeg
  <2>4. InTurn(s)
    BY <2>2 DEF Queues
  <2>. QED
    BY <2>1, <2>2, <2>3, <2>4
<1>. QED
  BY <1>6, <1>7

LEMMA PoppedHolds ==
  ASSUME NEW q \in Seq(Packet), q # << >>, NEW t, NEW k, NEW i, Holds(q, t, k, i),
         ~(Head(q).t = t /\ HopOf(Head(q)) = k /\ Head(q).i = i)
  PROVE  Holds(Tail(q), t, k, i)
<1>1. PICK y \in DOMAIN q : q[y].t = t /\ q[y].i = i /\ HopOf(q[y]) = k
  BY DEF Holds
<1>2. Head(q) = q[1]
  BY TailOf
<1>3. y # 1
  BY <1>1, <1>2
<1>4. y - 1 \in DOMAIN Tail(q) /\ Tail(q)[y - 1] = q[y]
  BY <1>3, TailOf
<1>. QED
  BY <1>1, <1>4 DEF Holds

LEMMA ReadComplete ==
  ASSUME NetworkTypeOK, Settled, NEW w, NEW came, NEW sent, NEW came1,
         NEW c \in Conn, NEW r \in Router,
         NEW q \in Seq(Packet), q = queue[c][r], q # << >>,
         NEW t, NEW k, NEW kk, NEW n,
         Comes(w, came, sent, came1, c, r, Head(q), t, k, kk, n),
         Counts(w, came, sent), Complete(w, came, sent), Popped(c, r)
  PROVE  Complete(w, came1, sent)'
<1>1. FlowType(w, came, sent)
  BY DEF Comes, Arrives
<1>2. ASSUME NEW u \in Transfers, NEW j \in Legs(u), NEW i \in Nat,
             came1[u][j + 1] < i, i <= sent[u][j]
      PROVE  Holds(queue[data_fd[w[u][j]][w[u][j + 1]]][w[u][j + 1]], u, j, i)'
  <2>1. j \in Hops /\ j + 1 \in Hops /\ j \in Nat
    BY LegsOf
  <2>2. /\ Arrives(w, came, sent, came1, t, kk, n) /\ kk = k + 1 /\ k \in Legs(t)
        /\ t \in Transfers /\ n = came[t][kk] + 1
        /\ Head(q).t = t /\ HopOf(Head(q)) = k /\ Head(q).i = n
    BY DEF Comes
  <2>3. k \in Nat /\ kk \in Hops
    BY <2>2, LegsOf
  <2>4. came1[u][j + 1] = IF u = t /\ j + 1 = kk THEN n ELSE came[u][j + 1]
    BY <2>1, <2>2 DEF Arrives
  <2>5. /\ came[u][j + 1] \in Nat /\ sent[u][j] \in Nat /\ came[t][kk] \in Nat
        /\ came[u][j + 1] < i
        /\ ~(u = t /\ j = k /\ i = n)
    <3>1. came[u][j + 1] \in Nat /\ sent[u][j] \in Nat /\ came[t][kk] \in Nat
      BY <1>1, <2>1, <2>2, <2>3 DEF FlowType
    <3>2. CASE u = t /\ j + 1 = kk
      BY <1>2, <2>2, <2>4, <3>1, <3>2
    <3>3. CASE ~(u = t /\ j + 1 = kk)
      <4>1. ~(u = t /\ j = k)
        BY <2>2, <3>3
      <4>. QED
        BY <1>2, <2>4, <3>1, <3>3, <4>1
    <3>. QED
      BY <3>2, <3>3
  <2>6. sent[u][j] > 0
    BY <1>2, <2>5
  <2>7. PICK d : d = data_fd[w[u][j]][w[u][j + 1]]
    OBVIOUS
  <2>8. PICK r2 \in Router : r2 = w[u][j + 1]
    BY <1>1, <2>1 DEF FlowType
  <2>9. d \in Conn /\ data_fd'[w[u][j]][w[u][j + 1]] = d
    <3>1. /\ d # NoConn /\ w[u][j] \in Router /\ data_fd'[w[u][j]][w[u][j + 1]] = d
      BY <1>1, <2>6, <2>7, BetweenKept
    <3>. QED
      BY <2>7, <2>8, <3>1 DEF NetworkTypeOK
  <2>10. Holds(queue[d][r2], u, j, i)
    BY <1>2, <2>5, <2>7, <2>8 DEF Complete
  <2>11. Holds(queue'[d][r2], u, j, i)
    <3>1. queue'[d][r2] = IF d = c /\ r2 = r THEN Tail(q) ELSE queue[d][r2]
      BY <2>9, PoppedQueues
    <3>2. CASE d = c /\ r2 = r
      <4>1. Holds(q, u, j, i)
        BY <2>10, <3>2
      <4>2. ~(Head(q).t = u /\ HopOf(Head(q)) = j /\ Head(q).i = i)
        BY <2>2, <2>5
      <4>3. Holds(Tail(q), u, j, i)
        BY <4>1, <4>2, PoppedHolds
      <4>. QED
        BY <3>1, <3>2, <4>3
    <3>3. CASE ~(d = c /\ r2 = r)
      BY <2>10, <3>1, <3>3
    <3>. QED
      BY <3>2, <3>3
  <2>. QED
    BY <2>8, <2>9, <2>11 DEF Holds
<1>. QED
  BY <1>2 DEF Complete

LEMMA ComesFits ==
  ASSUME NEW w, NEW came, NEW sent, NEW came1, NEW c, NEW r, NEW p,
         NEW t, NEW k, NEW kk, NEW n, Comes(w, came, sent, came1, c, r, p, t, k, kk, n),
         Counts(w, came, sent)
  PROVE  /\ k \in Nat /\ kk \in Nat /\ kk # 0 /\ kk \in Hops /\ n \in Nat /\ t \in Transfers
         /\ came[t][kk] \in Nat /\ came[t][kk] < n /\ n <= Final(t) /\ Final(t) \in Nat
         /\ \A j \in 0 .. k : sent[t][j] > 0
<1>1. /\ t \in Transfers /\ k \in Legs(t) /\ kk = k + 1
      /\ n = came[t][kk] + 1 /\ n <= sent[t][k]
      /\ FlowType(w, came, sent)
  BY DEF Comes, Arrives
<1>2. k \in Nat /\ kk \in Nat /\ kk # 0 /\ kk \in Hops /\ k \in Hops
  BY <1>1, LegsOf
<1>3. came[t][kk] \in Nat /\ sent[t][k] \in Nat /\ came[t][k] \in Nat
  BY <1>1, <1>2 DEF FlowType
<1>4. sent[t][k] <= came[t][k] /\ came[t][k] <= Final(t)
  BY <1>1, <1>2 DEF Counts
<1>5. Final(t) \in Nat
  BY <1>1, TransferAssumption DEF Final
<1>6. n \in Nat /\ came[t][kk] < n /\ n <= Final(t) /\ sent[t][k] > 0
  BY <1>1, <1>3, <1>4, <1>5
<1>7. \A j \in 0 .. k : sent[t][j] > 0
  BY <1>1, <1>6, SentBefore
<1>. QED
  BY <1>1, <1>2, <1>3, <1>5, <1>6, <1>7

LEMMA ReadCounts ==
  ASSUME NEW w, NEW came, NEW sent, NEW came1, NEW c, NEW r, NEW p,
         NEW t, NEW k, NEW kk, NEW n, Comes(w, came, sent, came1, c, r, p, t, k, kk, n),
         Counts(w, came, sent), Settled, commands' = commands
  PROVE  Counts(w, came1, sent)'
<1>1. /\ k \in Nat /\ kk \in Nat /\ kk # 0 /\ kk \in Hops /\ n \in Nat /\ t \in Transfers
      /\ came[t][kk] \in Nat /\ came[t][kk] < n /\ n <= Final(t) /\ Final(t) \in Nat
      /\ \A j \in 0 .. k : sent[t][j] > 0
  BY ComesFits
<1>2. /\ Arrives(w, came, sent, came1, t, kk, n) /\ kk = k + 1 /\ n <= sent[t][k]
  BY DEF Comes
<1>3. \A u \in Transfers : came1[u][0] = IF u \in commands' THEN 0 ELSE Final(u)
  <2>1. 0 \in Hops
    BY <1>1, LegsOf
  <2>2. \A u \in Transfers : came1[u][0] = came[u][0]
    BY <1>1, <1>2, <2>1 DEF Arrives
  <2>. QED
    BY <2>2 DEF Counts
<1>4. \A j \in Legs(t) : j + 1 = kk => n <= sent[t][j] /\ \A i \in 0 .. j : sent[t][i] > 0
  <2>1. \A j \in Legs(t) : j + 1 = kk => j = k
    BY <1>1, <1>2, LegsOf
  <2>. QED
    BY <1>1, <1>2, <2>1
<1>5. came[t][kk] <= n
  BY <1>1
<1>. QED
  BY <1>1, <1>2, <1>3, <1>4, <1>5, ArrivedCounts

LEMMA StoredOther ==
  ASSUME NEW w, NEW came, NEW sent, NEW came1, NEW t, NEW k, NEW n,
         Arrives(w, came, sent, came1, t, k, n),
         NEW u \in Transfers, u # t, Stored(w, came, u)
  PROVE  Stored(w, came1, u)
<1>1. ASSUME NEW j \in Legs(u) PROVE came1[u][j] = came[u][j]
  <2>1. j \in Hops
    BY LegsOf
  <2>. QED
    BY <2>1 DEF Arrives
<1>. QED
  BY <1>1 DEF Stored

(* Only the last of the routers t's packets come to is the destination.     *)
LEMMA OneEnd ==
  ASSUME NEW w, NEW came, NEW sent, Counts(w, came, sent),
         NEW t \in Transfers, NEW k \in Nat, \A j \in 0 .. k : sent[t][j] > 0,
         NEW j \in Legs(t), j # k + 1, came[t][j] > 0, k + 1 \in Legs(t), w[t][k + 1] = t.dest
  PROVE  w[t][j] # t.dest
<1>1. j \in Nat
  BY LegsOf
<1>2. CASE j <= k
  <2>1. sent[t][j] > 0
    BY <1>1, <1>2
  <2>. QED
    BY <2>1 DEF Counts, Leg
<1>3. CASE ~(j <= k)
  <2>1. PICK i \in Nat : j = i + 1 /\ k + 1 \in 0 .. i /\ i \in 0 .. j
    BY <1>1, <1>3
  <2>2. i \in Legs(t)
    BY <2>1, LegsOf
  <2>3. sent[t][k + 1] > 0
    BY <2>1, <2>2 DEF Counts, Leg
  <2>. QED
    BY <2>3 DEF Counts, Leg
<1>. QED
  BY <1>2, <1>3

LEMMA StoredGrows ==
  ASSUME NEW w, NEW came, NEW sent, NEW came1, NEW c, NEW r, NEW p,
         NEW t, NEW k, NEW kk, NEW n, Comes(w, came, sent, came1, c, r, p, t, k, kk, n),
         Counts(w, came, sent), Stored(w, came, t),
         kk \in Legs(t), r = t.dest, NEW new, Grows(t, new, n)
  PROVE  Stored(w, came1, t)'
<1>1. /\ k \in Nat /\ kk \in Nat /\ kk # 0 /\ kk \in Hops /\ n \in Nat /\ t \in Transfers
      /\ came[t][kk] \in Nat
      /\ \A j \in 0 .. k : sent[t][j] > 0
  BY ComesFits
<1>2. /\ kk = k + 1 /\ w[t][kk] = t.dest /\ n = came[t][kk] + 1
      /\ Arrives(w, came, sent, came1, t, kk, n)
      /\ FlowType(w, came, sent)
  BY DEF Comes, Arrives
<1>3. \A j \in Legs(t) : j # kk /\ came[t][j] > 0 => w[t][j] # t.dest
  BY <1>1, <1>2, OneEnd
<1>4. {Nth(t, pl) : pl \in PlacesOf(t)} = 1 .. came[t][kk]
  <2>1. CASE came[t][kk] > 0
    BY <1>2, <2>1 DEF Stored
  <2>2. CASE came[t][kk] = 0
    <3>1. \A j \in Legs(t) : ~(came[t][j] > 0 /\ w[t][j] = t.dest)
      BY <1>3, <2>2
    <3>2. PlacesOf(t) = {}
      BY <3>1 DEF Stored
    <3>3. {Nth(t, pl) : pl \in PlacesOf(t)} = {}
      BY <3>2
    <3>. QED
      BY <2>2, <3>3
  <2>. QED
    BY <1>1, <2>1, <2>2
<1>5. PICK P : P = PlacesOf(t)
  OBVIOUS
<1>6. /\ PlacesOf(t)' = P \cup {new} /\ new \notin P /\ Nth(t, new)' = n
      /\ ~Before(new, new)
      /\ \A pl \in P : Nth(t, pl)' = Nth(t, pl) /\ Before(pl, new) /\ ~Before(new, pl)
  BY <1>5 DEF Grows
<1>7. 1 .. n = 1 .. came[t][kk] \cup {n} /\ n - 1 = came[t][kk]
  BY <1>1, <1>2
<1>8. {Nth(t, pl)' : pl \in P \cup {new}} = 1 .. n
  <2>1. {Nth(t, pl)' : pl \in P \cup {new}} = {Nth(t, pl) : pl \in P} \cup {n}
    BY <1>6
  <2>. QED
    BY <1>4, <1>5, <1>7, <2>1
<1>9. InSequence(t)'
  <2>0. PICK Q : Q = PlacesOf(t)'
    OBVIOUS
  <2>1. ASSUME NEW pl \in Q
        PROVE  {Nth(t, q)' : q \in {q \in Q : Before(q, pl)}} = 1 .. Nth(t, pl)' - 1
    <3>0. Q = P \cup {new}
      BY <1>6, <2>0
    <3>1. CASE pl = new
      <4>1. {q \in Q : Before(q, pl)} = P
        BY <1>6, <3>0, <3>1
      <4>2. {Nth(t, q)' : q \in P} = {Nth(t, q) : q \in P}
        BY <1>6
      <4>. QED
        BY <1>4, <1>5, <1>6, <1>7, <3>1, <4>1, <4>2
    <3>2. CASE pl \in P
      <4>1. {q \in Q : Before(q, pl)} = {q \in P : Before(q, pl)}
        BY <1>6, <3>0, <3>2
      <4>2. {Nth(t, q)' : q \in {q \in P : Before(q, pl)}} = {Nth(t, q) : q \in {q \in P : Before(q, pl)}}
        BY <1>6
      <4>3. {Nth(t, q) : q \in {q \in P : Before(q, pl)}} = 1 .. Nth(t, pl) - 1
        BY <1>5, <3>2 DEF Stored, InSequence
      <4>. QED
        BY <1>6, <3>2, <4>1, <4>2, <4>3
    <3>. QED
      BY <2>1, <3>0, <3>1, <3>2
  <2>. QED
    BY <2>0, <2>1 DEF InSequence
<1>10. \A j \in Hops : came1[t][j] = IF j = kk THEN n ELSE came[t][j]
  BY <1>1, <1>2 DEF Arrives
<1>11. ASSUME NEW j \in Legs(t), came1[t][j] > 0, w[t][j] = t.dest
       PROVE  {Nth(t, pl) : pl \in PlacesOf(t)}' = 1 .. came1[t][j]
  <2>1. j \in Hops
    BY <1>1, LegsOf
  <2>2. j = kk
    BY <1>3, <1>10, <1>11, <2>1
  <2>3. came1[t][j] = n
    BY <1>10, <2>1, <2>2
  <2>. QED
    BY <1>6, <1>8, <2>3
<1>12. came1[t][kk] > 0 /\ w[t][kk] = t.dest
  <2>1. came1[t][kk] = n
    BY <1>1, <1>10
  <2>2. n > 0
    BY <1>1, <1>2
  <2>. QED
    BY <1>2, <2>1, <2>2
<1>. QED
  BY <1>9, <1>11, <1>12 DEF Stored

(* What r remembers after a packet with TTL left. *)
LEMMA ReadMemory ==
  ASSUME NEW w, NEW came, NEW sent, NEW came1, NEW c, NEW r, NEW p0,
         NEW t, NEW k, NEW kk, NEW n, Comes(w, came, sent, came1, c, r, p0, t, k, kk, n),
         Counts(w, came, sent), commands' = commands,
         NEW p \in Packet, p.t = t, p.i = n, HopOf(p) = kk, kk \in Legs(t),
         NEW last \in Seq(Packet), NEW pen \in Seq(Packet), NEW flag \in BOOLEAN,
         MemoryOK(w, came, r, last, pen, flag),
         NEW last1, last1 = <<p>>,
         NEW pen1, pen1 = (IF flag THEN last ELSE pen),
         NEW flag1 \in BOOLEAN, flag1 <=> ~IsFin(p)
  PROVE  MemoryOK(w, came1, r, last1, pen1, flag1)'
<1>1. /\ kk # 0 /\ kk \in Hops /\ n \in Nat /\ t \in Transfers
      /\ came[t][kk] \in Nat /\ came[t][kk] < n /\ n <= Final(t) /\ Final(t) \in Nat
  BY ComesFits
<1>2. w[t][kk] = r /\ n = came[t][kk] + 1 /\ Arrives(w, came, sent, came1, t, kk, n)
  BY DEF Comes
<1>3. \A u \in Transfers : \A j \in Hops :
        came1[u][j] = IF u = t /\ j = kk THEN n ELSE came[u][j]
  BY <1>2 DEF Arrives
<1>4. LastOK(w, came1, r, last1)'
  <2>1. last1[1] = p /\ came1[t][kk] = n
    BY <1>1, <1>3
  <2>. QED
    BY <1>1, <1>2, <2>1 DEF LastOK, PassedLast
<1>5. ~flag1 => n = Final(t)
  BY DEF IsFin
<1>6. ASSUME NEW b \in Packet, PassedLast(w, came, r, b) \/ Passed(w, came, r, b)
      PROVE  ~flag1 => Passed(w, came1, r, b)
  <2>1. PICK u \in Transfers : u = b.t
    BY PacketFields
  <2>2. /\ HopOf(b) \in Legs(u) /\ w[u][HopOf(b)] = r
        /\ b.i = came[u][HopOf(b)] \/ came[u][HopOf(b)] = Final(u)
    BY <1>6, <2>1 DEF PassedLast, Passed
  <2>3. PICK j \in Legs(u) : j = HopOf(b)
    BY <2>2
  <2>4. came1[u][j] = IF u = t /\ j = kk THEN n ELSE came[u][j]
    BY <1>3, LegsOf
  <2>. QED
    BY <1>5, <2>1, <2>2, <2>3, <2>4 DEF Passed
<1>7. ASSUME NEW b \in Packet, b.t = t, b.TTL = p.TTL,
             HopOf(b) # 0 => PassedLast(w, came, r, b) \/ Passed(w, came, r, b)
      PROVE  b.i = n - 1
  <2>1. HopOf(b) = kk
    BY <1>7 DEF HopOf
  <2>2. b.i = came[t][kk] \/ came[t][kk] = Final(t)
    BY <1>1, <1>7, <2>1 DEF PassedLast, Passed
  <2>3. b.i \in Nat
    BY PacketFields
  <2>. QED
    BY <1>1, <1>2, <2>2, <2>3
<1>8. PenultimateOK(w, came1, r, pen1, flag1)' /\ (pen1 # << >> => InSuccession(p, pen1[1]))
  <2>1. CASE pen1 = << >>
    BY <2>1 DEF PenultimateOK
  <2>2. CASE pen1 # << >>
    <3>1. PICK b \in Packet : b = pen1[1]
      BY <2>2, FirstOf
    <3>2. IF HopOf(b) = 0 THEN b.t \notin commands
          ELSE PassedLast(w, came, r, b) \/ Passed(w, came, r, b)
      <4>1. CASE flag
        BY <2>2, <3>1, <4>1 DEF MemoryOK, LastOK
      <4>2. CASE ~flag
        BY <2>2, <3>1, <4>2 DEF MemoryOK, PenultimateOK
      <4>. QED
        BY <4>1, <4>2
    <3>3. PenultimateOK(w, came1, r, pen1, flag1)'
      <4>1. CASE HopOf(b) = 0
        BY <3>1, <3>2, <4>1 DEF PenultimateOK
      <4>2. CASE HopOf(b) # 0
        <5>1. ~flag1 => Passed(w, came1, r, b)
          BY <1>6, <3>2, <4>2
        <5>. QED
          BY <3>1, <4>2, <5>1 DEF PenultimateOK, Passed
      <4>. QED
        BY <4>1, <4>2
    <3>4. InSuccession(p, b)
      <4>1. p.t = b.t /\ p.TTL = b.TTL => b.i = n - 1
        BY <1>7, <3>2
      <4>. QED
        BY <4>1 DEF InSuccession
    <3>. QED
      BY <3>1, <3>3, <3>4
  <2>. QED
    BY <2>1, <2>2
<1>9. last1[1] = p
  OBVIOUS
<1>. QED
  BY <1>4, <1>8, <1>9 DEF MemoryOK

LEMMA ReadRemembered ==
  ASSUME MemoryTypeOK, NEW w, NEW came, NEW sent, NEW came1,
         NEW c \in Conn, NEW r \in Router, NEW p0 \in Packet,
         NEW t, NEW k, NEW kk, NEW n, Comes(w, came, sent, came1, c, r, p0, t, k, kk, n),
         Counts(w, came, sent), Remembered(w, came), commands' = commands,
         NEW p \in Packet, p.t = t, p.i = n, p.TTL > 0 <=> kk \in Legs(t),
         p.TTL > 0 => HopOf(p) = kk,
         IF p.TTL > 0 THEN Remember(r, p) ELSE UNCHANGED memory
  PROVE  Remembered(w, came1)'
<1>1. /\ last_data_packet \in [Router -> Seq(Packet)]
      /\ penultimate_data_packet \in [Router -> Seq(Packet)]
      /\ data_packet_flag \in [Router -> BOOLEAN]
  BY DEF MemoryTypeOK
<1>2. Arrives(w, came, sent, came1, t, kk, n) /\ w[t][kk] = r /\ commands' \subseteq commands
  BY DEF Comes
<1>3. ASSUME NEW q \in Router,
             /\ last_data_packet'[q] = last_data_packet[q]
             /\ penultimate_data_packet'[q] = penultimate_data_packet[q]
             /\ data_packet_flag'[q] = data_packet_flag[q],
             q # r \/ kk \notin Legs(t)
      PROVE  MemoryOK(w, came1, q, last_data_packet[q], penultimate_data_packet[q], data_packet_flag[q])'
  <2>1. PICK last \in Seq(Packet) : last = last_data_packet[q]
    BY <1>1
  <2>2. PICK pen \in Seq(Packet) : pen = penultimate_data_packet[q]
    BY <1>1
  <2>3. PICK flag : flag = data_packet_flag[q]
    OBVIOUS
  <2>4. MemoryOK(w, came, q, last, pen, flag)
    BY <2>1, <2>2, <2>3 DEF Remembered
  <2>5. w[t][kk] # q \/ kk \notin Legs(t) \/ kk = 0
    BY <1>2, <1>3
  <2>6. MemoryOK(w, came1, q, last, pen, flag)'
    BY <1>2, <2>4, <2>5, ArrivedRemembered
  <2>. QED
    BY <1>3, <2>1, <2>2, <2>3, <2>6 DEF MemoryOK, LastOK, PenultimateOK
<1>4. CASE p.TTL > 0
  <2>1. Remember(r, p)
    BY <1>4
  <2>2. ASSUME NEW q \in Router, q # r
        PROVE  /\ last_data_packet'[q] = last_data_packet[q]
               /\ penultimate_data_packet'[q] = penultimate_data_packet[q]
               /\ data_packet_flag'[q] = data_packet_flag[q]
    BY <1>1, <2>1, <2>2 DEF Remember
  <2>3. MemoryOK(w, came1, r, last_data_packet[r], penultimate_data_packet[r], data_packet_flag[r])'
    <3>1. PICK last \in Seq(Packet) : last = last_data_packet[r]
      BY <1>1
    <3>2. PICK pen \in Seq(Packet) : pen = penultimate_data_packet[r]
      BY <1>1
    <3>3. PICK flag \in BOOLEAN : flag = data_packet_flag[r]
      BY <1>1
    <3>4. PICK last1, pen1, flag1 :
            /\ last1 = last_data_packet'[r] /\ pen1 = penultimate_data_packet'[r]
            /\ flag1 = data_packet_flag'[r]
      OBVIOUS
    <3>5. last1 = <<p>>
      BY <1>1, <2>1, <3>4 DEF Remember
    <3>6. pen1 = IF flag THEN last ELSE pen
      BY <1>1, <2>1, <3>1, <3>2, <3>3, <3>4 DEF Remember
    <3>7. flag1 = ~IsFin(p)
      BY <1>1, <2>1, <3>4 DEF Remember
    <3>8. flag1 \in BOOLEAN /\ (flag1 <=> ~IsFin(p))
      BY <3>7
    <3>9. MemoryOK(w, came, r, last, pen, flag)
      BY <3>1, <3>2, <3>3 DEF Remembered
    <3>10. HopOf(p) = kk /\ kk \in Legs(t)
      BY <1>4
    <3>11. MemoryOK(w, came1, r, last1, pen1, flag1)'
      BY <3>5, <3>6, <3>8, <3>9, <3>10, ReadMemory
    <3>. QED
      BY <3>4, <3>11 DEF MemoryOK, LastOK, PenultimateOK
  <2>4. \A q \in Router : MemoryOK(w, came1, q, last_data_packet[q], penultimate_data_packet[q], data_packet_flag[q])'
    BY <1>3, <2>2, <2>3
  <2>. QED
    BY <2>4 DEF Remembered
<1>5. CASE ~(p.TTL > 0)
  <2>1. UNCHANGED memory /\ kk \notin Legs(t)
    BY <1>5
  <2>2. \A q \in Router : MemoryOK(w, came1, q, last_data_packet[q], penultimate_data_packet[q], data_packet_flag[q])'
    BY <1>3, <2>1 DEF memory
  <2>. QED
    BY <2>2 DEF Remembered
<1>. QED
  BY <1>4, <1>5

LEMMA ReadStored ==
  ASSUME DiskTypeOK, NEW w, NEW came, NEW sent, NEW came1,
         NEW c \in Conn, NEW r \in Router, NEW p0 \in Packet,
         NEW t, NEW k, NEW kk, NEW n, Comes(w, came, sent, came1, c, r, p0, t, k, kk, n),
         Counts(w, came, sent), \A u \in Transfers : Stored(w, came, u),
         NEW p \in Packet, p.t = t, p.i = n, p.TTL > 0 <=> kk \in Legs(t),
         IF p.TTL > 0 /\ t.dest = r THEN Store(r, p) ELSE UNCHANGED disk
  PROVE  \A u \in Transfers : Stored(w, came1, u)'
<1>1. t \in Transfers /\ Arrives(w, came, sent, came1, t, kk, n) /\ w[t][kk] = r
  BY DEF Comes
<1> SUFFICES ASSUME NEW u \in Transfers
             PROVE  Stored(w, came1, u)'
  OBVIOUS
<1>2. Stored(w, came, u)
  OBVIOUS
<1>3. CASE p.TTL > 0 /\ t.dest = r
  <2>1. Store(r, p) /\ kk \in Legs(t)
    BY <1>3
  <2>2. CASE u = t
    <3>1. Store(t.dest, p)
      BY <1>3, <2>1
    <3>2. PICK new : Grows(t, new, n)
      BY <1>1, <3>1, StoreGrows
    <3>3. Stored(w, came, t) /\ r = t.dest
      BY <1>2, <1>3, <2>2
    <3>4. Stored(w, came1, t)'
      BY <2>1, <3>2, <3>3, StoredGrows
    <3>. QED
      BY <2>2, <3>4
  <2>3. CASE u # t
    <3>1. Stays(u)
      BY <2>1, <2>3, StoreStays
    <3>2. Stored(w, came1, u)
      BY <1>1, <1>2, <2>3, StoredOther
    <3>. QED
      BY <3>1, <3>2, StoredStays
  <2>. QED
    BY <2>2, <2>3
<1>4. CASE ~(p.TTL > 0 /\ t.dest = r)
  <2>1. w[t][kk] # t.dest \/ kk \notin Legs(t)
    BY <1>1, <1>4
  <2>2. Stored(w, came1, u)
    BY <1>1, <1>2, <2>1, ArrivedStored
  <2>3. Stays(u)
    BY <1>4, DiskStays
  <2>. QED
    BY <2>2, <2>3, StoredStays
<1>. QED
  BY <1>3, <1>4

LEMMA ReadOutboxes ==
  ASSUME NetworkTypeOK, NEW w, NEW came, NEW sent, NEW came1,
         NEW c \in Conn, NEW r \in Router, NEW p0 \in Packet,
         NEW t, NEW k, NEW kk, NEW n, Comes(w, came, sent, came1, c, r, p0, t, k, kk, n),
         Counts(w, came, sent), Outboxes(w, came, sent), Settled, Idle(r), nexthop' = nexthop,
         NEW p \in Packet, p.t = t, p.i = n, p.TTL > 0 <=> kk \in Legs(t),
         p.TTL > 0 => HopOf(p) = kk,
         IF p.TTL > 0 /\ t.dest # r
         THEN Towards(r, t.dest, <<p>>)
         ELSE UNCHANGED <<up, data_fd, outbox>>
  PROVE  Outboxes(w, came1, sent)'
<1>1. t \in Transfers /\ Arrives(w, came, sent, came1, t, kk, n) /\ w[t][kk] = r /\ n = came[t][kk] + 1
  BY DEF Comes
<1>2. came[t][kk] \in Nat /\ n \in Nat
  BY ComesFits
<1>3. nexthop \in [Router -> [Router -> Router \cup {NoRoute}]]
  BY DEF NetworkTypeOK
<1>4. CASE p.TTL > 0 /\ t.dest # r
  <2>1. PICK ps : ps = <<p>>
    OBVIOUS
  <2>2. kk \in Legs(t) /\ HopOf(p) = kk /\ Towards(r, t.dest, ps) /\ r # t.dest
    BY <1>4, <2>1
  <2>3. sent[t][kk] = came[t][kk]
    <3>1. AllSentOn(w, came, sent, r)
      BY DEF Outboxes, Idle, Sending
    <3>2. SentOn(w, came, sent, r, t, kk)
      BY <1>1, <2>2, <3>1 DEF AllSentOn
    <3>. QED
      BY <1>1, <2>2, <3>2 DEF SentOn
  <2>4. sent[t][kk] < n /\ n - sent[t][kk] = 1 /\ n = sent[t][kk] + 1
    BY <1>1, <1>2, <2>3
  <2>5. Len(ps) = 1 /\ DOMAIN ps = {1} /\ ps[1] = p /\ ps # << >>
    BY <2>1
  <2>6. /\ sent[t][kk] < n /\ Len(ps) = n - sent[t][kk] /\ ps # << >>
        /\ \A x \in DOMAIN ps : ps[x].t = t /\ HopOf(ps[x]) = kk /\ ps[x].i = sent[t][kk] + x
    BY <2>2, <2>4, <2>5
  <2>7. /\ Outboxes(w, came, sent) /\ Settled /\ nexthop' = nexthop /\ Idle(r)
        /\ w[t][kk] = r /\ r # t.dest /\ kk \in Legs(t) /\ Towards(r, t.dest, ps)
        /\ Arrives(w, came, sent, came1, t, kk, n)
    BY <1>1, <2>2
  <2>. QED
    BY <1>3, <2>6, <2>7, ArrivedSending
<1>5. CASE ~(p.TTL > 0 /\ t.dest # r)
  <2>1. UNCHANGED <<up, nexthop, data_fd, outbox>>
    BY <1>5
  <2>2. r = t.dest \/ kk \notin Legs(t)
    BY <1>5
  <2>. QED
    BY <1>1, <2>1, <2>2, ArrivedResting
<1>. QED
  BY <1>4, <1>5

LEMMA ReadFlow ==
  ASSUME TypeOK, NEW r \in Router, NEW c \in Conn, process_data_packet(r, c),
         NEW w, NEW came, NEW sent, Flow(w, came, sent)
  PROVE  \E came1 : Flow(w, came1, sent)'
<1>1. /\ FlowType(w, came, sent) /\ Counts(w, came, sent) /\ Queues(w, came, sent)
      /\ Complete(w, came, sent) /\ Outboxes(w, came, sent)
      /\ \A u \in Transfers : Stored(w, came, u)
      /\ Remembered(w, came)
  BY DEF Flow
<1>2. NetworkTypeOK /\ MemoryTypeOK /\ DiskTypeOK
  BY DEF TypeOK
<1>3. PICK q \in Seq(Packet) : q = queue[c][r]
  BY <1>2 DEF NetworkTypeOK
<1>4. Idle(r) /\ q # << >> /\ Popped(c, r) /\ nexthop' = nexthop /\ commands' = commands
  BY <1>3 DEF process_data_packet, Popped
<1>5. PICK p0 \in Packet : p0 = Head(q)
  BY <1>4, TailOf
<1>6. PICK came1, t, k, kk, n : Comes(w, came, sent, came1, c, r, p0, t, k, kk, n)
  BY <1>1, <1>3, <1>4, <1>5, HeadNext
<1>7. PICK p \in Packet : p = Aged(p0)
  BY AgedIsPacket
<1>8. /\ p.t = t /\ p.i = n
      /\ p.TTL > 0 <=> kk \in Legs(t)
      /\ p.TTL > 0 => HopOf(p) = kk
  <2>1. p0.t = t /\ p0.i = n /\ HopOf(p0) = k /\ k \in Legs(t) /\ kk = k + 1
    BY <1>6 DEF Comes
  <2>2. HopOf(p0) \in Legs(p0.t)
    BY <2>1
  <2>. QED
    BY <1>7, <2>1, <2>2, NextHop
<1>9. t \in Transfers /\ t.dest \in Router
  BY <1>6, TransferAssumption DEF Comes
<1>10. /\ IF p.TTL > 0 THEN Remember(r, p) ELSE UNCHANGED memory
       /\ IF p.TTL > 0 /\ t.dest = r THEN Store(r, p) ELSE UNCHANGED disk
       /\ IF p.TTL > 0 /\ t.dest # r
          THEN SendTowards(r, t.dest, <<p>>)
          ELSE UNCHANGED <<up, conn, data_fd, outbox, first>>
  BY <1>3, <1>5, <1>7, <1>8 DEF process_data_packet
<1>11. IF p.TTL > 0 /\ t.dest # r
       THEN Towards(r, t.dest, <<p>>)
       ELSE UNCHANGED <<up, data_fd, outbox>>
  <2>1. ASSUME NEW ps, ps = <<p>>, SendTowards(r, t.dest, ps) PROVE Towards(r, t.dest, ps)
    BY <1>2, <1>9, <2>1, TowardsFits
  <2>. QED
    BY <1>10, <2>1
<1>12. Settled
  <2>1. CASE p.TTL > 0 /\ t.dest # r
    BY <1>4, <1>11, <2>1, TowardsSettled
  <2>2. CASE ~(p.TTL > 0 /\ t.dest # r)
    BY <1>4, <1>11, <2>2 DEF Settled
  <2>. QED
    BY <2>1, <2>2
<1>13. Comes(w, came, sent, came1, c, r, Head(q), t, k, kk, n)
  BY <1>5, <1>6
<1>14. Counts(w, came1, sent)'
  BY <1>1, <1>4, <1>6, <1>12, ReadCounts
<1>15. Queues(w, came1, sent)'
  BY <1>1, <1>2, <1>3, <1>4, <1>12, <1>13, ReadQueues
<1>16. Complete(w, came1, sent)'
  BY <1>1, <1>2, <1>3, <1>4, <1>12, <1>13, ReadComplete
<1>17. Outboxes(w, came1, sent)'
  BY <1>1, <1>2, <1>4, <1>6, <1>8, <1>11, <1>12, ReadOutboxes
<1>18. \A u \in Transfers : Stored(w, came1, u)'
  BY <1>1, <1>2, <1>6, <1>8, <1>10, ReadStored
<1>19. Remembered(w, came1)'
  BY <1>1, <1>2, <1>4, <1>6, <1>8, <1>10, ReadRemembered
<1>20. FlowType(w, came1, sent)
  BY <1>6 DEF Comes, Arrives
<1>21. Flow(w, came1, sent)'
  BY <1>14, <1>15, <1>16, <1>17, <1>18, <1>19, <1>20 DEF Flow, FlowType
<1>. QED
  BY <1>21

-----------------------------------------------------------------------------
(* The flow in every step                                                   *)

LEMMA InitPlaces ==
  ASSUME Init, NEW t \in Transfers
  PROVE  PlacesOf(t) = {}
<1>1. t.dest \in Router
  BY TransferAssumption
<1>2. files[t.dest] = << >> /\ file_buffer[t.dest] = << >>
  BY <1>1 DEF Init
<1>3. \A k : DOMAIN Volume(t.dest, k) = {}
  BY <1>2 DEF Volume
<1>4. Places(t.dest) = {}
  BY <1>3 DEF Places
<1>. QED
  BY <1>4 DEF PlacesOf

LEMMA InitFlow == Init => FlowInv
<1> SUFFICES ASSUME Init PROVE \E w, came, sent : Flow(w, came, sent)
  BY DEF FlowInv
<1>1. PICK w : w = [t \in Transfers |-> [k \in Hops |-> t.src]]
  OBVIOUS
<1>2. PICK zero : zero = [t \in Transfers |-> [k \in Hops |-> 0]]
  OBVIOUS
<1>3. \A t \in Transfers : \A k \in Hops : w[t][k] = t.src /\ zero[t][k] = 0
  BY <1>1, <1>2
<1>4. FlowType(w, zero, zero)
  <2>1. \A t \in Transfers : t.src \in Router
    BY TransferAssumption
  <2>. QED
    BY <1>1, <1>2, <2>1 DEF FlowType
<1>5. Counts(w, zero, zero)
  <2>1. \A t \in Transfers : \A k \in Legs(t) : k \in Hops /\ k + 1 \in Hops
    BY LegsOf
  <2>2. \A t \in Transfers : \A k \in Legs(t) : Leg(w, zero, zero, t, k)
    BY <1>3, <2>1 DEF Leg
  <2>3. \A t \in Transfers : Final(t) \in Nat /\ 0 \in Hops
    BY TransferAssumption, LegsOf DEF Final
  <2>4. commands = Transfers
    BY DEF Init
  <2>. QED
    BY <1>3, <2>2, <2>3, <2>4 DEF Counts
<1>6. Queues(w, zero, zero)
  <2>1. \A c \in Conn, r \in Router : queue[c][r] = << >>
    BY DEF Init
  <2>. QED
    BY <2>1 DEF Queues, InTurn
<1>7. Complete(w, zero, zero)
  <2>1. \A t \in Transfers : \A k \in Legs(t) : zero[t][k] = 0 /\ zero[t][k + 1] = 0
    BY <1>3, LegsOf
  <2>. QED
    BY <2>1 DEF Complete
<1>8. Outboxes(w, zero, zero)
  <2>1. \A r \in Router : outbox[r].packets = << >>
    BY DEF Init
  <2>. QED
    BY <2>1 DEF Outboxes, Sending, AllSentOn, SentOn
<1>9. ASSUME NEW t \in Transfers PROVE Stored(w, zero, t)
  <2>1. \A k \in Legs(t) : zero[t][k] = 0
    BY <1>3, LegsOf
  <2>2. PlacesOf(t) = {}
    BY InitPlaces
  <2>. QED
    BY <2>1, <2>2 DEF Stored, InSequence
<1>10. Remembered(w, zero)
  <2>1. \A r \in Router : last_data_packet[r] = << >> /\ penultimate_data_packet[r] = << >>
    BY DEF Init
  <2>. QED
    BY <2>1 DEF Remembered, MemoryOK, LastOK, PenultimateOK
<1>. QED
  BY <1>4, <1>5, <1>6, <1>7, <1>8, <1>9, <1>10 DEF Flow

(* A route or a connection that is not in use may be replaced.              *)
LEMMA RerouteSettled ==
  ASSUME NetworkTypeOK, NEW r \in Router, Reroute(r), ~disturbed'
  PROVE  Settled
<1>1. PICK row : /\ nexthop' = [nexthop EXCEPT ![r] = row]
                 /\ disturbed' = (disturbed \/ \E d \in Router : nexthop[r][d] \notin {NoRoute, row[d]})
  BY DEF Reroute
<1>2. \A d \in Router : nexthop[r][d] \in {NoRoute, row[d]}
  BY <1>1, Zenon
<1>3. nexthop \in [Router -> [Router -> Router \cup {NoRoute}]] /\ UNCHANGED data_fd
  BY DEF NetworkTypeOK, Reroute, network
<1>. QED
  BY <1>1, <1>2, <1>3 DEF Settled

LEMMA AcceptSettled ==
  ASSUME NetworkTypeOK, NEW r \in Router, NEW a \in Router, new_data_conn(r, a), ~disturbed'
  PROVE  Settled
<1>1. data_fd \in [Router -> [Router -> Conn \cup {NoConn}]] /\ nexthop' = nexthop
  BY DEF NetworkTypeOK, new_data_conn
<1>2. CASE /\ data_fd' = [data_fd EXCEPT ![r][a] = <<a, r>>]
           /\ disturbed' = (disturbed \/ data_fd[r][a] # NoConn)
  <2>1. data_fd[r][a] = NoConn
    BY <1>2, Zenon
  <2>2. \A q, n \in Router : data_fd[q][n] # NoConn => data_fd'[q][n] = data_fd[q][n]
    <3>1. ASSUME NEW q \in Router, NEW n \in Router, data_fd[q][n] # NoConn
          PROVE  data_fd'[q][n] = data_fd[q][n]
      <4>1. ~(q = r /\ n = a)
        BY <2>1, <3>1
      <4>. QED
        BY <1>1, <1>2, <4>1
    <3>. QED
      BY <3>1
  <2>. QED
    BY <1>1, <2>2 DEF Settled
<1>3. CASE UNCHANGED data_fd
  BY <1>1, <1>3 DEF Settled
<1>. QED
  BY <1>2, <1>3 DEF new_data_conn

LEMMA StaysDisturbed ==
  ASSUME [Next]_vars, ~disturbed'
  PROVE  ~disturbed
<1>1. CASE disturbed' = disturbed
  BY <1>1
<1>2. ASSUME NEW r \in Router, Reroute(r) PROVE ~disturbed
  BY <1>2, Zenon DEF Reroute
<1>3. ASSUME NEW r \in Router, NEW a \in Router, new_data_conn(r, a) PROVE ~disturbed
  <2>1. CASE disturbed' = (disturbed \/ data_fd[r][a] # NoConn)
    BY <2>1, Zenon
  <2>. QED
    BY <1>1, <1>3, <2>1 DEF new_data_conn
<1>4. \/ UNCHANGED disturbed
      \/ \E r \in Router : Reroute(r)
      \/ \E r, a \in Router : new_data_conn(r, a)
  <2>1. UNCHANGED vars => UNCHANGED disturbed
    BY DEF vars, history
  <2>2. \A r \in Router : \A t \in commands : sendfile_handler(r, t) => UNCHANGED disturbed
    BY DEF sendfile_handler
  <2>3. \A r \in Router : crash(r) => UNCHANGED disturbed
    BY DEF crash
  <2>4. \A r \in Router : sendALL(r) => UNCHANGED disturbed
    BY DEF sendALL, history
  <2>5. \A r \in Router : \A c \in Conn : process_data_packet(r, c) => UNCHANGED disturbed
    BY DEF process_data_packet
  <2>6. \A r \in Router : \A c \in Conn : recvALL(r, c) => UNCHANGED disturbed
    BY DEF recvALL, history
  <2>. QED
    BY <2>1, <2>2, <2>3, <2>4, <2>5, <2>6 DEF Next, Step
<1>. QED
  BY <1>1, <1>2, <1>3, <1>4

LEMMA NextFlow == IInv /\ FlowInv /\ [Next]_vars => FlowInv'
<1> SUFFICES ASSUME IInv, FlowInv, [Next]_vars, ~disturbed'
             PROVE  \E w, came, sent : Flow(w, came, sent)'
  BY DEF FlowInv
<1>1. PICK w, came, sent : Flow(w, came, sent)
  BY StaysDisturbed DEF FlowInv
<1>2. TypeOK /\ NetworkTypeOK /\ MemoryTypeOK
  BY DEF IInv, TypeOK
<1>3. ASSUME NEW r \in Router, NEW t \in commands, sendfile_handler(r, t)
      PROVE  \E came1 : Flow(w, came1, sent)'
  <2>1. t \in Transfers
    BY <1>2 DEF NetworkTypeOK
  <2>. QED
    BY <1>1, <1>2, <1>3, <2>1, SendfileFlow
<1>4. ASSUME NEW r \in Router, NEW c \in Conn, process_data_packet(r, c)
      PROVE  \E came1 : Flow(w, came1, sent)'
  BY <1>1, <1>2, <1>4, ReadFlow
<1>5. ASSUME Settled, \A r \in Router : Running(r)' => Running(r),
             UNCHANGED <<commands, queue, outbox, memory, disk>>
      PROVE  Flow(w, came, sent)'
  BY <1>1, <1>2, <1>5, QuietKeeps
<1>6. ASSUME NEW r \in Router, sendALL(r)
      PROVE  \E w1, sent1 : Flow(w1, came, sent1)'
  <2>1. PICK c, p : c = outbox[r].via /\ p = Peer(c, r)
    OBVIOUS
  <2>2. CASE /\ outbox' = [outbox EXCEPT ![r].packets = Tail(@)]
             /\ queue' = [queue EXCEPT ![c][p] = Append(@, Head(outbox[r].packets))]
             /\ UNCHANGED up
    BY <1>1, <1>6, <2>1, <2>2, SendFlow
  <2>3. CASE up' = [up EXCEPT ![r] = "exited"] /\ UNCHANGED <<outbox, queue>>
    <3>1. UNCHANGED <<nexthop, commands, data_fd, memory, disk>>
      BY <1>6 DEF sendALL
    <3>2. \A q \in Router : Running(q)' => Running(q)
      BY <1>2, <2>3 DEF Running, NetworkTypeOK
    <3>. QED
      BY <1>5, <2>3, <3>1, <3>2 DEF Settled
  <2>. QED
    BY <1>6, <2>1, <2>2, <2>3 DEF sendALL
<1>7. ASSUME NEW r \in Router, NEW c \in Conn, recvALL(r, c)
      PROVE  Flow(w, came, sent)'
  <2>1. UNCHANGED <<nexthop, commands, data_fd, queue, outbox, memory, disk>>
    BY <1>7 DEF recvALL, network
  <2>2. \A q \in Router : Running(q)' => Running(q)
    BY <1>2, <1>7 DEF Running, NetworkTypeOK, recvALL, Idle
  <2>. QED
    BY <1>5, <2>1, <2>2 DEF Settled
<1>8. ASSUME NEW r \in Router, crash(r)
      PROVE  Flow(w, came, sent)'
  <2>1. UNCHANGED <<nexthop, commands, data_fd, queue, outbox, memory, disk>>
    BY <1>8 DEF crash, network
  <2>2. \A q \in Router : Running(q)' => Running(q)
    BY <1>2, <1>8 DEF Running, NetworkTypeOK, crash
  <2>. QED
    BY <1>5, <2>1, <2>2 DEF Settled
<1>9. ASSUME NEW r \in Router, NEW a \in Router, new_data_conn(r, a)
      PROVE  Flow(w, came, sent)'
  <2>1. UNCHANGED <<up, commands, queue, outbox, memory, disk>>
    BY <1>9 DEF new_data_conn
  <2>. QED
    BY <1>2, <1>5, <1>9, <2>1, AcceptSettled DEF Running
<1>10. ASSUME NEW r \in Router, Reroute(r)
       PROVE  Flow(w, came, sent)'
  <2>1. UNCHANGED <<up, commands, queue, outbox, memory, disk>>
    BY <1>10 DEF Reroute, network
  <2>. QED
    BY <1>2, <1>5, <1>10, <2>1, RerouteSettled DEF Running
<1>11. CASE UNCHANGED vars
  <2>1. UNCHANGED <<up, nexthop, data_fd, commands, queue, outbox, memory, disk>>
    BY <1>11 DEF vars, network
  <2>. QED
    BY <1>5, <2>1 DEF Settled, Running
<1>. QED
  BY <1>3, <1>4, <1>6, <1>7, <1>8, <1>9, <1>10, <1>11 DEF Next, Step

-----------------------------------------------------------------------------
(* Where files end                                                          *)

(* No transfer's last packet stays in the buffer. *)
BufferOpen ==
  \A r \in Router : \A j \in DOMAIN file_buffer[r] :
    file_buffer[r][j][2] # Final(file_buffer[r][j][1])

EndsInv == LastEndsFile /\ BufferOpen

LEMMA StoreEnds ==
  ASSUME DiskTypeOK, EndsInv, NEW r \in Router, NEW p \in Packet, Store(r, p)
  PROVE  EndsInv'
<1>1. PICK n, m, content :
        /\ n = Len(files[r]) /\ m = Len(file_buffer[r])
        /\ content = Append(file_buffer[r], Chunk(p))
  OBVIOUS
<1>2. /\ file_buffer \in [Router -> Seq(Transfers \X Nat)] /\ files \in [Router -> Seq(File)]
      /\ file_buffer[r] \in Seq(Transfers \X Nat) /\ files[r] \in Seq(File)
      /\ n \in Nat /\ m \in Nat
  BY <1>1 DEF DiskTypeOK
<1>3. /\ DOMAIN content = 1 .. m + 1 /\ Len(content) = m + 1
      /\ content[m + 1] = Chunk(p)
      /\ \A j \in 1 .. m : content[j] = file_buffer[r][j] /\ j \in DOMAIN file_buffer[r] /\ j # m + 1
  <2>1. Chunk(p) \in Transfers \X Nat
    BY PacketFields DEF Chunk
  <2>. QED
    BY <1>1, <1>2, <2>1
<1>4. Chunk(p)[2] = Final(Chunk(p)[1]) <=> IsFin(p)
  BY DEF Chunk, IsFin
<1>5. \A j \in DOMAIN content :
        content[j][2] = Final(content[j][1]) <=> j = m + 1 /\ IsFin(p)
  <2>1. \A j \in 1 .. m : content[j][2] # Final(content[j][1])
    BY <1>3 DEF EndsInv, BufferOpen
  <2>2. \A j \in DOMAIN content : j \in 1 .. m \/ j = m + 1
    BY <1>2, <1>3
  <2>. QED
    BY <1>3, <1>4, <2>1, <2>2
<1>6. CASE IsFin(p)
  <2>1. PICK file : file = [transfer_id |-> p.t.transfer_id, chunks |-> content]
    OBVIOUS
  <2>2. /\ files' = [files EXCEPT ![r] = Append(files[r], file)]
        /\ file_buffer' = [file_buffer EXCEPT ![r] = << >>]
    BY <1>1, <1>6, <2>1 DEF Store
  <2>3. PICK list : list = Append(files[r], file)
    OBVIOUS
  <2>4. DOMAIN list = 1 .. n + 1 /\ list[n + 1] = file /\ \A k \in 1 .. n : list[k] = files[r][k] /\ k \in DOMAIN files[r]
    BY <1>1, <1>2, <2>3
  <2>5. \A q \in Router : files'[q] = IF q = r THEN list ELSE files[q]
    BY <1>2, <2>2, <2>3
  <2>6. LastEndsFile'
    <3>1. ASSUME NEW q \in Router, NEW k \in DOMAIN files'[q], NEW chunks, chunks = files'[q][k].chunks,
                 NEW j \in DOMAIN chunks
          PROVE  chunks[j][2] = Final(chunks[j][1]) <=> j = Len(chunks)
      <4>1. CASE q = r /\ k = n + 1
        <5>1. chunks = content
          BY <2>1, <2>4, <2>5, <3>1, <4>1
        <5>. QED
          BY <1>3, <1>5, <1>6, <3>1, <5>1
      <4>2. CASE ~(q = r /\ k = n + 1)
        <5>1. k \in DOMAIN files[q] /\ chunks = files[q][k].chunks
          <6>1. CASE q = r
            <7>1. k \in 1 .. n
              BY <1>2, <2>4, <2>5, <3>1, <4>2, <6>1
            <7>. QED
              BY <2>4, <2>5, <3>1, <6>1, <7>1
          <6>2. CASE q # r
            BY <2>5, <3>1, <6>2
          <6>. QED
            BY <6>1, <6>2
        <5>. QED
          BY <3>1, <5>1 DEF EndsInv, LastEndsFile
      <4>. QED
        BY <4>1, <4>2
    <3>. QED
      BY <3>1 DEF LastEndsFile
  <2>7. BufferOpen'
    BY <1>2, <2>2 DEF EndsInv, BufferOpen
  <2>. QED
    BY <2>6, <2>7 DEF EndsInv
<1>7. CASE ~IsFin(p)
  <2>1. files' = files /\ file_buffer' = [file_buffer EXCEPT ![r] = content]
    BY <1>1, <1>7 DEF Store
  <2>2. BufferOpen'
    BY <1>2, <1>5, <1>7, <2>1 DEF EndsInv, BufferOpen
  <2>. QED
    BY <2>1, <2>2 DEF EndsInv, LastEndsFile
<1>. QED
  BY <1>6, <1>7

LEMMA InitEnds == Init => EndsInv
<1> SUFFICES ASSUME Init PROVE EndsInv
  OBVIOUS
<1>1. \A r \in Router : files[r] = << >> /\ file_buffer[r] = << >>
  BY DEF Init
<1>. QED
  BY <1>1 DEF EndsInv, LastEndsFile, BufferOpen

LEMMA NextEnds == IInv /\ EndsInv /\ [Next]_vars => EndsInv'
<1> SUFFICES ASSUME IInv, EndsInv, [Next]_vars PROVE EndsInv'
  OBVIOUS
<1>1. CASE UNCHANGED disk
  BY <1>1 DEF disk, EndsInv, LastEndsFile, BufferOpen
<1>2. ASSUME NEW r \in Router, NEW c \in Conn, process_data_packet(r, c)
      PROVE  EndsInv'
  <2>1. DiskTypeOK /\ queue[c][r] \in Seq(Packet) /\ queue[c][r] # << >>
    BY <1>2 DEF IInv, TypeOK, NetworkTypeOK, process_data_packet
  <2>2. PICK p \in Packet : p = Aged(Head(queue[c][r]))
    BY <2>1, TailOf, AgedIsPacket
  <2>3. Store(r, p) \/ UNCHANGED disk
    BY <1>2, <2>2 DEF process_data_packet
  <2>. QED
    BY <1>1, <2>1, <2>3, StoreEnds
<1>3. \/ UNCHANGED disk
      \/ \E r \in Router, c \in Conn : process_data_packet(r, c)
  BY DEF Next, Step, vars, sendfile_handler, crash, Reroute, sendALL, new_data_conn, recvALL
<1>. QED
  BY <1>1, <1>2, <1>3

-----------------------------------------------------------------------------
(* The statistics in every step                                             *)

LEMMA InitStats == Init => StatsInv
<1> SUFFICES ASSUME Init, NEW t \in Transfers
             PROVE  IsFiniteSet(PlacesOf(t)) /\ Book(t, sendfile_stats_list[t.dest])
  BY DEF StatsInv
<1>1. PlacesOf(t) = {}
  BY InitPlaces
<1>2. sendfile_stats_list[t.dest] = << >>
  BY TransferAssumption DEF Init
<1>. QED
  BY <1>1, <1>2, FS_EmptySet DEF Book

LEMMA NextStats == IInv /\ StatsInv /\ [Next]_vars => StatsInv'
<1> SUFFICES ASSUME IInv, StatsInv, [Next]_vars PROVE StatsInv'
  OBVIOUS
<1>1. ASSUME NEW r \in Router, NEW t \in commands, sendfile_handler(r, t)
      PROVE  StatsInv'
  <2>1. t \in Transfers
    BY DEF IInv, TypeOK, NetworkTypeOK
  <2>. QED
    BY <1>1, <2>1, StatsSendfile
<1>2. ASSUME NEW r \in Router, NEW c \in Conn, process_data_packet(r, c)
      PROVE  StatsInv'
  BY <1>2, StatsProcess
<1>3. \/ UNCHANGED memory /\ UNCHANGED disk
      \/ \E r \in Router : \E t \in commands : sendfile_handler(r, t)
      \/ \E r \in Router, c \in Conn : process_data_packet(r, c)
  BY DEF Next, Step, vars, crash, Reroute, sendALL, new_data_conn, recvALL
<1>. QED
  BY <1>1, <1>2, <1>3, StatsIdle

-----------------------------------------------------------------------------
(* The inductive invariant of the data plane.                              *)
THEOREM Invariance == Spec => []IInv
BY InitIInv, NextKeeps, PTL DEF Spec

(* Types, and a record's numbers stay inside its array, for every network, *)
(* any transfers and any routes.                                           *)
THEOREM TypeCorrect == Spec => []TypeOK
<1>1. IInv => TypeOK
  BY DEF IInv
<1>. QED
  BY <1>1, Invariance, PTL

(* No router goes down but for a CRASH, a missing route, or along its      *)
(* connections from one that did.                                          *)
THEOREM FailuresOnlySpread == Spec => []FailuresSpread
<1>1. IInv => FailuresSpread
  BY DEF IInv
<1>. QED
  BY <1>1, Invariance, PTL

(* Whatever was forwarded in between and wherever a record started to      *)
(* count, what the destination answers about a transfer that shares its    *)
(* number with no other agrees with the transfer's packets in the files.   *)
THEOREM StatisticsMatchFiles == Spec => []StatsMatchFile
<1>1. Init => StatsInv
  BY InitStats
<1>2. IInv /\ StatsInv /\ [Next]_vars => StatsInv'
  BY NextStats
<1>3. IInv /\ StatsInv => StatsMatchFile
  BY StatsFromInv
<1>. QED
  BY <1>1, <1>2, <1>3, Invariance, PTL DEF Spec

(* Until a route or a connection in use is replaced, the packets of every  *)
(* transfer go the same way one behind the other, and none is missing.     *)
THEOREM FlowsStay == Spec => []FlowInv
<1>1. Init => FlowInv
  BY InitFlow
<1>2. IInv /\ FlowInv /\ [Next]_vars => FlowInv'
  BY NextFlow
<1>. QED
  BY <1>1, <1>2, Invariance, PTL DEF Spec

(* Until then every transfer's packets lie at its destination in sequence, *)
(* and the files end with the one last packet in them.                     *)
THEOREM FilesAlwaysInOrder == Spec => []FilesInOrder
<1>1. Init => EndsInv
  BY InitEnds
<1>2. IInv /\ EndsInv /\ [Next]_vars => EndsInv'
  BY NextEnds
<1>3. FlowInv /\ EndsInv => FilesInOrder
  BY DEF FlowInv, Flow, Stored, EndsInv, FilesInOrder
<1>. QED
  BY <1>1, <1>2, <1>3, Invariance, FlowsStay, PTL DEF Spec

(* Until then the last and the penultimate packet a router shows follow    *)
(* each other if they are of the same passage of a transfer.               *)
THEOREM PenultimateAlwaysBeforeLast == Spec => []PenultimateBeforeLast
<1>1. FlowInv => PenultimateBeforeLast
  <2> SUFFICES ASSUME FlowInv, ~disturbed, NEW r \in Router,
                      last_data_packet[r] # << >>, penultimate_data_packet[r] # << >>
               PROVE  InSuccession(last_data_packet[r][1], penultimate_data_packet[r][1])
    BY DEF PenultimateBeforeLast, InSuccession
  <2>1. PICK w, came, sent : Flow(w, came, sent)
    BY DEF FlowInv
  <2>. QED
    BY <2>1 DEF Flow, Remembered, MemoryOK
<1>. QED
  BY <1>1, FlowsStay, PTL
=============================================================================
