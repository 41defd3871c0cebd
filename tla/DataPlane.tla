----------------------------- MODULE DataPlane -----------------------------
(***************************************************************************)
(* The routers' data plane: SENDFILE from the controller, the forwarding   *)
(* of data packets over TCP connections that are opened on demand, the     *)
(* file buffer at the destination, and what a router remembers of the      *)
(* packets that passed (data_handler.c, sendfile_command_handler.c,        *)
(* network_util.c).                                                        *)
(*                                                                         *)
(* A router is one thread: while a handler blocks in sendALL() it neither  *)
(* reads nor accepts.  What a handler has still to send is its outbox; the *)
(* rest of the handler, which nobody sees before the handler ends, is done *)
(* when it starts.  Routes are what the control plane makes them.          *)
(***************************************************************************)
EXTENDS Integers, Sequences, FiniteSets

CONSTANTS
  Router,       \* each on a host of its own, so that an IP names a router
  NoRoute,      \* the next hop INF of a destination nobody offers
  Tables,       \* Tables[r]: the rows of next hops the control plane may give r
  Transfers,    \* the SENDFILE commands
  Capacity,     \* packets a connection holds in one direction before send() blocks
  UINT8,        \* the number of values of a uint8_t: 256
  UINT16,       \* and of a uint16_t: 65536
  SeqNums,      \* length of a record's seq_num array: 10240
  Unset,        \* what a new record may list before its first number
  Doomed        \* routers that may end by themselves, see crash

Garbage == -1
SeqNum  == 0 .. UINT16 - 1

ASSUME RouteAssumption ==
  /\ NoRoute \notin Router
  /\ Tables \in [Router -> SUBSET [Router -> Router \cup {NoRoute}]]
  /\ \A r \in Router : \A row \in Tables[r] : \A d \in Router : d # r => row[d] # r
ASSUME TransferAssumption ==
  /\ Transfers \subseteq [src : Router, dest : Router, TTL : 0 .. UINT8 - 1, transfer_id : Nat,
                          packets_n : Nat, init_seq_num : SeqNum]
  /\ \A t \in Transfers : t.src # t.dest /\ t.packets_n <= SeqNums
ASSUME BoundAssumption ==
  /\ Capacity \in Nat \ {0} /\ UINT8 \in Nat \ {0} /\ UINT16 \in Nat \ {0}
  /\ SeqNums \in Nat \ {0}
  /\ Unset \subseteq Seq({Garbage}) /\ \A before \in Unset : Len(before) < SeqNums
  /\ Doomed \subseteq Router

VARIABLES
  up,           \* running, exited, or hung in a call that never returns
  nexthop,      \* router_conn->nexthop
  commands,     \* SENDFILE commands not given yet
  conn,         \* conn[<<a, b>>]: the connection a opens to b
  data_fd,      \* router_conn->data_fd: the connection r sends to n on
  queue,        \* queue[c][r]: what connection c holds for r to read
  outbox,       \* what r's handler has still to send, and on what connection
  last_data_packet, penultimate_data_packet, data_packet_flag,
  sendfile_stats_list,
  file_buffer,  \* the packets in r's file_buffer, up to global_file_offset
  files,        \* the files r has written
  first,        \* history: who went down by a CRASH or for want of a route
  disturbed     \* history: a route or a connection in use was replaced

network == <<conn, data_fd, queue, outbox>>
memory  == <<last_data_packet, penultimate_data_packet, data_packet_flag,
             sendfile_stats_list>>
disk    == <<file_buffer, files>>
history == <<first, disturbed>>
vars    == <<up, nexthop, commands, network, memory, disk, history>>

-----------------------------------------------------------------------------
(* Packets and connections *)

Conn   == Router \X Router
NoConn == <<>>

(* A packet is known by its transfer and its place in it. *)
Packet == [t : Transfers, i : Nat \ {0}, TTL : 0 .. UINT8 - 1]

Final(t)   == IF t.packets_n = 0 THEN 1 ELSE t.packets_n
IsFin(p)   == p.i = Final(p.t)
Number(t, i) == (t.init_seq_num + i - 1) % UINT16
Chunk(p)   == <<p.t, p.i>>

(* Mutant: the TTL is looked at and not written back. *)
AgedNot(p) == [p EXCEPT !.TTL = IF @ = 1 THEN 0 ELSE @]

(* TTL is a uint8_t, and 0 - 1 is 255. *)
Aged(p) == [p EXCEPT !.TTL = (@ - 1) % UINT8]

Peer(c, r) == IF c[1] = r THEN c[2] ELSE c[1]

Running(r) == up[r] = "running"

(* r is back in its select loop. *)
Idle(r) == Running(r) /\ outbox[r].packets = << >>

(* The connections r has a descriptor of. *)
Watched(r) == {c \in Conn : \/ c[1] = r /\ conn[c] \in {"opened", "accepted"}
                            \/ c[2] = r /\ conn[c] = "accepted"}

(* The handler goes on to send ps towards d: over the connection there is, *)
(* or over a new one.  A destination without next hop has descriptor 0,    *)
(* which is no socket: sendALL counts failures for ever.  A next hop that  *)
(* has exited refuses the connection, which ends this router as well.      *)
SendTowards(r, d, ps) ==
  LET h     == nexthop[r][d]
      c     == <<r, h>>
      fresh == data_fd[r][h] = NoConn
      Over(via) == outbox' = [outbox EXCEPT ![r] = [via |-> via, packets |-> ps]]
  IN  \/ /\ h = NoRoute
         /\ up' = [up EXCEPT ![r] = "hung"]
         /\ first' = first \cup {r}
         /\ UNCHANGED <<conn, data_fd, outbox>>
      \/ /\ h # NoRoute /\ fresh /\ up[h] = "exited"
         /\ up' = [up EXCEPT ![r] = "exited"]
         /\ conn' = [conn EXCEPT ![c] = "refused"]
         /\ UNCHANGED <<data_fd, outbox, first>>
      \/ /\ h # NoRoute /\ fresh /\ up[h] # "exited"
         /\ conn' = [conn EXCEPT ![c] = "opened"]
         /\ data_fd' = [data_fd EXCEPT ![r][h] = c]
         /\ Over(c)
         /\ UNCHANGED <<up, first>>
      \/ /\ h # NoRoute /\ ~fresh
         /\ Over(data_fd[r][h])
         /\ UNCHANGED <<up, conn, data_fd, first>>

-----------------------------------------------------------------------------
(* What a router remembers *)

Record(id, TTL, seq_num) == [transfer_id |-> id, TTL |-> TTL, seq_num |-> seq_num]

(* Mutant: the array is found full one number too late. *)
NotedLate(rec, n) ==
  [rec EXCEPT !.seq_num = IF Len(@) > SeqNums THEN <<n>> ELSE Append(@, n)]

(* The array starts again from its first place when it is full. *)
Noted(rec, n) ==
  [rec EXCEPT !.seq_num = IF Len(@) = SeqNums THEN <<n>> ELSE Append(@, n)]

Records(r, id) ==
  {k \in DOMAIN sendfile_stats_list[r] : sendfile_stats_list[r][k].transfer_id = id}

(* What SENDFILE-STATS answers with: the search goes on after a hit, to    *)
(* the oldest record with that id.                                         *)
sendfile_stats_handler(r, id) ==
  sendfile_stats_list[r][CHOOSE k \in Records(r, id) : \A j \in Records(r, id) : j <= k]

(* Mutant: the search for the record is not told from its failure. *)
add_to_stats_listNew(r, p) ==
  \E before \in Unset :
    sendfile_stats_list' =
      [sendfile_stats_list EXCEPT
         ![r] = <<Noted(Record(p.t.transfer_id, p.TTL, before), Number(p.t, p.i))>> \o @]

(* The first record with the packet's id gets its number.  A new record    *)
(* counts from a seq_num_count that is never set.                          *)
add_to_stats_list(r, p) ==
  LET hits == Records(r, p.t.transfer_id)
      hit  == CHOOSE k \in hits : \A j \in hits : k <= j
  IN  IF hits # {}
      THEN sendfile_stats_list' =
             [sendfile_stats_list EXCEPT ![r][hit] = Noted(@, Number(p.t, p.i))]
      ELSE \E before \in Unset :
             sendfile_stats_list' =
               [sendfile_stats_list EXCEPT
                  ![r] = <<Noted(Record(p.t.transfer_id, p.TTL, before), Number(p.t, p.i))>> \o @]

(* Mutant: the last packet is overwritten before it is copied. *)
RememberSwapped(r, p) ==
  /\ last_data_packet' = [last_data_packet EXCEPT ![r] = <<p>>]
  /\ penultimate_data_packet' =
       IF data_packet_flag[r]
       THEN [penultimate_data_packet EXCEPT ![r] = <<p>>]
       ELSE penultimate_data_packet
  /\ data_packet_flag' = [data_packet_flag EXCEPT ![r] = ~IsFin(p)]

(* The first packet after the end of a transfer does not push the last one *)
(* to the penultimate's place.                                             *)
Remember(r, p) ==
  /\ last_data_packet' = [last_data_packet EXCEPT ![r] = <<p>>]
  /\ penultimate_data_packet' =
       IF data_packet_flag[r]
       THEN [penultimate_data_packet EXCEPT ![r] = last_data_packet[r]]
       ELSE penultimate_data_packet
  /\ data_packet_flag' = [data_packet_flag EXCEPT ![r] = ~IsFin(p)]

(* Mutant: the offset is not set back. *)
StoreOn(r, p) ==
  LET content == Append(file_buffer[r], Chunk(p))
  IN  /\ file_buffer' = [file_buffer EXCEPT ![r] = content]
      /\ files' = IF IsFin(p)
                  THEN [files EXCEPT ![r] =
                          Append(@, [transfer_id |-> p.t.transfer_id, chunks |-> content])]
                  ELSE files

(* A packet for this router goes to the end of the one buffer; the last    *)
(* packet of any transfer writes the buffer to that transfer's file.       *)
Store(r, p) ==
  LET content == Append(file_buffer[r], Chunk(p))
  IN  IF IsFin(p)
      THEN /\ files' = [files EXCEPT ![r] =
                  Append(@, [transfer_id |-> p.t.transfer_id, chunks |-> content])]
           /\ file_buffer' = [file_buffer EXCEPT ![r] = << >>]
      ELSE /\ file_buffer' = [file_buffer EXCEPT ![r] = content]
           /\ UNCHANGED files

-----------------------------------------------------------------------------
(* The controller *)

FilePacket(t, i) == [t |-> t, i |-> i, TTL |-> t.TTL]

(* A file shorter than a packet is sent as one packet and counted as none; *)
(* the rest of a file behind its last full packet is not sent.             *)
sendfile_handler(r, t) ==
  LET ps == [i \in 1 .. Final(t) |-> FilePacket(t, i)]
      rec == Record(t.transfer_id, t.TTL, [i \in 1 .. t.packets_n |-> Number(t, i)])
  IN  /\ Idle(r) /\ t \in commands /\ t.src = r
      /\ commands' = commands \ {t}
      /\ SendTowards(r, t.dest, ps) /\ UNCHANGED queue
      /\ last_data_packet' = [last_data_packet EXCEPT ![r] = <<ps[Final(t)]>>]
      /\ penultimate_data_packet' =
           IF t.packets_n > 1
           THEN [penultimate_data_packet EXCEPT ![r] = <<ps[t.packets_n - 1]>>]
           ELSE penultimate_data_packet
      /\ sendfile_stats_list' = [sendfile_stats_list EXCEPT ![r] = <<rec>> \o @]
      /\ UNCHANGED <<nexthop, data_packet_flag, disk, disturbed>>

(* CRASH is exit(0).  A SENDFILE-STATS for a transfer without record, or a *)
(* new record's unset count, may make the router read or write outside the *)
(* array, which ends it in the same way.                                   *)
crash(r) ==
  /\ Idle(r) /\ r \in Doomed
  /\ up' = [up EXCEPT ![r] = "exited"]
  /\ first' = first \cup {r}
  /\ UNCHANGED <<nexthop, commands, network, memory, disk, disturbed>>

(* External to this module: update_cost_matrix has changed r's routes. *)
Reroute(r) ==
  /\ Idle(r)
  /\ \E row \in Tables[r] \ {nexthop[r]} :
       /\ nexthop' = [nexthop EXCEPT ![r] = row]
       /\ disturbed' = (disturbed \/ \E d \in Router : nexthop[r][d] \notin {NoRoute, row[d]})
  /\ UNCHANGED <<up, commands, network, memory, disk, first>>

-----------------------------------------------------------------------------
(* One step of sendALL: send() takes the next packet when the connection   *)
(* has room.  To a router that has exited it is lost, or SIGPIPE ends r.   *)
sendALL(r) ==
  LET c == outbox[r].via
      p == Peer(c, r)
  IN  /\ Running(r) /\ outbox[r].packets # << >>
      /\ up[p] # "exited" => Len(queue[c][p]) < Capacity
      /\ \/ /\ outbox' = [outbox EXCEPT ![r].packets = Tail(@)]
            /\ queue' = [queue EXCEPT ![c][p] = Append(@, Head(outbox[r].packets))]
            /\ UNCHANGED up
         \/ /\ up[p] = "exited"
            /\ up' = [up EXCEPT ![r] = "exited"]
            /\ UNCHANGED <<outbox, queue>>
      /\ UNCHANGED <<nexthop, commands, conn, data_fd, memory, disk, history>>

(* accept(); from now on r sends to that router on this connection, also   *)
(* if there was another.  getpeername fails if the router has exited.      *)
new_data_conn(r, a) ==
  /\ Idle(r) /\ conn[<<a, r>>] = "opened"
  /\ conn' = [conn EXCEPT ![<<a, r>>] = "accepted"]
  /\ \/ /\ data_fd' = [data_fd EXCEPT ![r][a] = <<a, r>>]
        /\ disturbed' = (disturbed \/ data_fd[r][a] # NoConn)
     \/ up[a] = "exited" /\ UNCHANGED <<data_fd, disturbed>>
  /\ UNCHANGED <<up, nexthop, commands, queue, outbox, memory, disk, first>>

(* One packet is read and handled; with no TTL left it is dropped. *)
process_data_packet(r, c) ==
  LET p == Aged(Head(queue[c][r]))
      alive == p.TTL > 0
  IN  /\ Idle(r) /\ c \in Watched(r) /\ queue[c][r] # << >>
      /\ queue' = [queue EXCEPT ![c][r] = Tail(@)]
      /\ IF alive THEN Remember(r, p) /\ add_to_stats_list(r, p) ELSE UNCHANGED memory
      /\ IF alive /\ p.t.dest = r THEN Store(r, p) ELSE UNCHANGED disk
      /\ IF alive /\ p.t.dest # r
         THEN SendTowards(r, p.t.dest, <<p>>)
         ELSE UNCHANGED <<up, conn, data_fd, outbox, first>>
      /\ UNCHANGED <<nexthop, commands, disturbed>>

(* Mutant: recv does not wait, and finds no header. *)
recvALLNoWait(r, c) ==
  /\ Idle(r) /\ c \in Watched(r) /\ queue[c][r] = << >>
  /\ up' = [up EXCEPT ![r] = "exited"]
  /\ UNCHANGED <<nexthop, commands, network, memory, disk, history>>

(* The other end has exited and all it sent is read.  recv returns no      *)
(* header, which ends r.  If the other end left something unread, recv     *)
(* may fail instead, and recvALL then adds up zeros for ever.              *)
recvALL(r, c) ==
  LET p == Peer(c, r)
  IN  /\ Idle(r) /\ c \in Watched(r) /\ queue[c][r] = << >> /\ up[p] = "exited"
      /\ \/ up' = [up EXCEPT ![r] = "exited"]
         \/ queue[c][p] # << >> /\ up' = [up EXCEPT ![r] = "hung"]
      /\ UNCHANGED <<nexthop, commands, network, memory, disk, history>>

-----------------------------------------------------------------------------
Init ==
  /\ up = [r \in Router |-> "running"]
  /\ nexthop \in [Router -> UNION {Tables[r] : r \in Router}]
  /\ \A r \in Router : nexthop[r] \in Tables[r]
  /\ commands = Transfers
  /\ conn = [c \in Conn |-> "none"]
  /\ data_fd = [r \in Router |-> [n \in Router |-> NoConn]]
  /\ queue = [c \in Conn |-> [r \in Router |-> << >>]]
  /\ outbox = [r \in Router |-> [via |-> NoConn, packets |-> << >>]]
  /\ last_data_packet = [r \in Router |-> << >>]
  /\ penultimate_data_packet = [r \in Router |-> << >>]
  /\ data_packet_flag = [r \in Router |-> FALSE]
  /\ sendfile_stats_list = [r \in Router |-> << >>]
  /\ file_buffer = [r \in Router |-> << >>]
  /\ files = [r \in Router |-> << >>]
  /\ first = {}
  /\ disturbed = FALSE

(* What r does when its descriptors or its connection's room let it. *)
Step(r) ==
  \/ sendALL(r)
  \/ \E a \in Router : new_data_conn(r, a)
  \/ \E c \in Conn : process_data_packet(r, c) \/ recvALL(r, c)

Next ==
  \E r \in Router :
    \/ \E t \in commands : sendfile_handler(r, t)
    \/ crash(r) \/ Reroute(r) \/ Step(r)

Spec == Init /\ [][Next]_vars

-----------------------------------------------------------------------------
NetworkTypeOK ==
  /\ up \in [Router -> {"running", "exited", "hung"}]
  /\ nexthop \in [Router -> [Router -> Router \cup {NoRoute}]]
  /\ commands \subseteq Transfers
  /\ conn \in [Conn -> {"none", "opened", "accepted", "refused"}]
  /\ data_fd \in [Router -> [Router -> Conn \cup {NoConn}]]
  /\ queue \in [Conn -> [Router -> Seq(Packet)]]
  /\ outbox \in [Router -> [via : Conn \cup {NoConn}, packets : Seq(Packet)]]
  /\ first \subseteq Router /\ disturbed \in BOOLEAN

StatsRecord == [transfer_id : Nat, TTL : 0 .. UINT8 - 1, seq_num : Seq(Garbage .. UINT16 - 1)]

MemoryTypeOK ==
  /\ last_data_packet \in [Router -> Seq(Packet)]
  /\ penultimate_data_packet \in [Router -> Seq(Packet)]
  /\ data_packet_flag \in [Router -> BOOLEAN]
  /\ sendfile_stats_list \in [Router -> Seq(StatsRecord)]
  /\ \A r \in Router : \A k \in DOMAIN sendfile_stats_list[r] :
       Len(sendfile_stats_list[r][k].seq_num) <= SeqNums

File == [transfer_id : Nat, chunks : Seq(Transfers \X Nat)]

DiskTypeOK ==
  /\ file_buffer \in [Router -> Seq(Transfers \X Nat)]
  /\ files \in [Router -> Seq(File)]

TypeOK == NetworkTypeOK /\ MemoryTypeOK /\ DiskTypeOK

(* What r has received, file by file, the buffer being the next file: a    *)
(* packet keeps its place when the buffer is written.                      *)
Volume(r, k)   == IF k \in DOMAIN files[r] THEN files[r][k].chunks ELSE file_buffer[r]
Places(r)      == UNION {{k} \X DOMAIN Volume(r, k) : k \in 1 .. Len(files[r]) + 1}
ChunkAt(r, pl) == Volume(r, pl[1])[pl[2]]
Before(p, q)   == p[1] < q[1] \/ (p[1] = q[1] /\ p[2] < q[2])

(* Where t's packets are at its destination, and the number of each. *)
PlacesOf(t)   == {pl \in Places(t.dest) : ChunkAt(t.dest, pl)[1] = t}
Nth(t, pl)    == ChunkAt(t.dest, pl)[2]
Later(t, pl)  == {q \in PlacesOf(t) : Before(pl, q)}

InSequence(t) ==
  \A pl \in PlacesOf(t) :
    {Nth(t, q) : q \in {q \in PlacesOf(t) : Before(q, pl)}} = 1 .. Nth(t, pl) - 1

LastEndsFile ==
  \A r \in Router : \A k \in DOMAIN files[r] : \A j \in DOMAIN files[r][k].chunks :
    LET ch == files[r][k].chunks[j]
    IN  ch[2] = Final(ch[1]) <=> j = Len(files[r][k].chunks)

(* Transfers share the destination's one buffer and may end up in each     *)
(* other's files, but nothing is lost, doubled or put out of order there:  *)
(* before each packet of a transfer are the ones before it in the transfer *)
(* and no other of it, and a file ends with the one last packet in it.     *)
(* This needs FIFO all the way, so it holds until a route or a connection  *)
(* in use is replaced.  (data_handler.c:162-190)                           *)
FilesInOrder == ~disturbed => LastEndsFile /\ \A t \in Transfers : InSequence(t)

Shared(t) == \E u \in Transfers \ {t} : u.transfer_id = t.transfer_id

(* The places of a record's array that hold a number. *)
Listed(seq_num) == {k \in DOMAIN seq_num : seq_num[k] # Garbage}

(* Whatever the array held before, n numbers fit without starting again. *)
Fit(n) == \A before \in Unset : Len(before) + n <= SeqNums

(* What the destination answers about a transfer and the transfer's file   *)
(* are two accounts of the same packets: the numbers the answer lists are  *)
(* those of the last packets that went to the file, counted from the end,  *)
(* and of all of them if they fit, whatever was forwarded in between and   *)
(* wherever the record started to count.                                   *)
(* (network_util.c:384-415, data_handler.c:162-196)                        *)
StatsMatchFile ==
  \A t \in Transfers : ~Shared(t) =>
    LET known == Records(t.dest, t.transfer_id) # {}
        shown == sendfile_stats_handler(t.dest, t.transfer_id).seq_num
    IN  /\ PlacesOf(t) # {} <=> known
        /\ known =>
             /\ \A k \in Listed(shown) : \E pl \in PlacesOf(t) :
                  /\ shown[k] = Number(t, Nth(t, pl))
                  /\ Cardinality(Later(t, pl)) = Len(shown) - k
             /\ Fit(Cardinality(PlacesOf(t))) =>
                  Cardinality(Listed(shown)) = Cardinality(PlacesOf(t))

(* The penultimate packet a router shows is the one before the last packet *)
(* of the same transfer, if it shows two of the same passage at all: other *)
(* transfers, their ends and the router's own SENDFILE come in between and *)
(* share one flag. (data_handler.c:132-157, sendfile_command_handler.c:93) *)
PenultimateBeforeLast ==
  ~disturbed =>
    \A r \in Router :
      last_data_packet[r] # << >> /\ penultimate_data_packet[r] # << >> =>
        LET l == last_data_packet[r][1]
            p == penultimate_data_packet[r][1]
        IN  l.t = p.t /\ l.TTL = p.TTL /\ l.i > 1 => p.i = l.i - 1

(* What r sends on, and has still to send on, is a connection of its own.  *)
Connected ==
  \A r \in Router :
    /\ \A n \in Router : data_fd[r][n] # NoConn =>
         data_fd[r][n] \in {<<r, n>>, <<n, r>>} /\ conn[data_fd[r][n]] # "none"
    /\ outbox[r].packets # << >> =>
         \E n \in Router : outbox[r].via \in {<<r, n>>, <<n, r>>} /\ conn[outbox[r].via] # "none"

Linked(r, n) == conn[<<r, n>>] # "none" \/ conn[<<n, r>>] # "none"

(* A router that goes down takes its neighbours on the data plane with it, *)
(* and they theirs, but no router goes down otherwise: every group of      *)
(* routers that are down and linked with each other has one that was       *)
(* crashed by the controller or had no route.                              *)
(* (data_handler.c:95, network_util.c:75-97, 258-262)                      *)
FailuresSpread ==
  \A S \in SUBSET {r \in Router : ~Running(r)} :
    /\ S # {}
    /\ \A r \in S, n \in Router : ~Running(n) /\ Linked(r, n) => n \in S
    => S \cap first # {}

(* The inductive invariant behind it. *)
IInv == TypeOK /\ Connected /\ FailuresSpread

-----------------------------------------------------------------------------
(* Liveness *)

(* select reports what is ready again and again, and send() goes on when   *)
(* there is room.  No SENDFILE need come, and no route change.             *)
FairSpec == Spec /\ \A r \in Router : WF_vars(Step(r))

Full(r) == LET c == outbox[r].via IN Len(queue[c][Peer(c, r)]) >= Capacity

AtRest(r) ==
  Idle(r) /\ \A c \in Watched(r) : queue[c][r] = << >> /\ up[Peer(c, r)] # "exited"

(* The traffic ends: TTL stops the packets in a routing loop, whatever it  *)
(* started from, and what is left is at rest or waits for room.            *)
(* (data_handler.c:107-113)                                                *)
TrafficEnds ==
  <>[](\A r \in Router : Running(r) => AtRest(r) \/ (~Idle(r) /\ Full(r)))

(* network_util.c:21-23 says of sendALL that it is there "to ensure nbytes *)
(* are always sent": a router that sends gets done.                        *)
SendReturns ==
  \A r \in Router : Running(r) /\ ~Idle(r) ~> Idle(r) \/ ~Running(r)
=============================================================================
