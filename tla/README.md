# A verification of Modern-Networking-Concepts

The repository holds three independent programs, none of which has tests:

| program | directory | what it is |
|---|---|---|
| transport | `src/reliable-transfer-protocols` | a discrete-event network simulator and three reliable-transfer protocols on it: alternating bit, Go-Back-N, Selective Repeat |
| router | `src/software-defined-routing` | a router process under a controller: distance-vector routing over UDP, a file-transfer data plane over TCP |
| chat | `src/text-chat-app` | a chat server with a table of four clients, and its client |

This directory models their control logic in TLA+, checks it with TLC on small
instances, and proves the safety properties that matter most with TLAPS for
every value of the constants.

- [Inventory](#inventory): the parts, their state, what is hard about them
- [Modules](#modules): which module models what, and how
- [Runs](#runs): what TLC checks, bounds and fairness
- [Proofs](#proofs): what is proved, from what, and how
- [Disagreements](#disagreements): where the code is not what the repository says of it
- [Not modelled](#not-modelled)
- [Plan](#plan)

## Inventory

### Transport

*Simulator* (`simulator.cpp`). State: the event list, ordered by time; the clock;
layer 5's record of messages; the counters. The main loop takes the first event,
sets the clock to its time and calls one handler of the protocol. Handlers call
back: `tolayer3` (the medium: each packet is lost, damaged in one field or
delivered after the latest packet to the same entity), `tolayer5` (compares what
arrives with what was sent and ends the program at the first difference),
`starttimer`, `stoptimer`. No concurrency; all that is hard is the order of
events: timeouts early and late, any pattern of losses and damages, duplicates
that the retransmissions make.

*Protocols* (`abt.cpp`, `gbn.cpp`, `sr.cpp`). Each has two entities. A takes
messages (`A_output`), acknowledgements (`A_input`) and timeouts
(`A_timerinterrupt`); B takes packets (`B_input`).

- ABT: A's bit, the packet in transit, a backlog with a write and a read index;
  B's bit and its last answer, half unset before the first.
- GBN: the window base, the next number, the messages; B's next number. An
  undamaged acknowledgement *sets* the base, whatever it was.
- SR: as GBN with the set of confirmed packets, the send time of each, the packet
  the timer stands for; B's received packets. Acknowledgement numbers move A's
  window and decide which packet the one timer stands for next.

Correct means: layer 5 at B gets A's messages in order, once, undamaged; A
confirms only what B delivered and never takes it back; while something is
unconfirmed the timer runs; everything sent is confirmed in the end.

### Router

*Controller side* (`control_handler.c` and one file per command): INIT sets the
tables, UPDATE changes a link cost, CRASH exits at once, the others report.

*Routing* (`router_process_handler.c`, `distance_vector.c`, `network_util.c`).
State: a list of routers with path cost, next hop and a neighbour flag; the link
costs `neighbor_cost`; the vectors received, `cost_mat`; a timer descriptor for
itself and one for each neighbour heard of. The router's timer sends the vector
to the neighbours; a vector that arrives is stored and the routes recomputed; a
neighbour silent for three intervals is dropped for good. Hard: lost and late
updates, the order in which routers start, crashes, counting to infinity in
`uint16_t`, routes that are computed from stale vectors. Correct means: the
routes are the best on offer, never undershoot, converge, and stop changing.

*Select loop* (`connection_manager.c`). State: the descriptors watched and the
highest of them; the list of control connections; the two sockets that INIT
opens; the timer of each router in the list. One round takes the ready set once
and calls the handler of each descriptor in it, lowest first; handlers open, close
and unwatch descriptors and set timers. Hard: descriptors are given out again, what
one is for is looked up in five places, and when a handler's turn comes the world
is not what select saw. Correct means: the places agree, no handler waits (there is
one thread), who is declared crashed has been silent, everything gets its turn.

*Data plane* (`data_handler.c`, `sendfile_command_handler.c`). State: the connection
each router sends to each other one on; what the connections hold; the last and
the penultimate packet and the flag that joins them; one file buffer; the records
of transfers. SENDFILE sends a whole file in one handler; a packet that arrives is
kept, dropped or sent on by a blocking send. Hard: transfers meet in one buffer and
one flag, the route changes under way, two routers connect to each other at the
same time, TTL wraps around, a full connection blocks the whole router, a router
that ends takes its peers with it. Correct means: files keep their order, the
statistics account for them, the traffic ends, nobody goes down without a cause.

*Statistics* (`sendfile_stats_command_handler.c`, `last_data_packet.c`,
`penultimate_data_packet.c`): they report what the data plane has recorded.

### Chat

*Server* (`server.c`, `serverFunctions.c`, `helpers.c`). State: the table
`allClients` (socket, IP, status, block list, buffer, counters) and the set of
watched descriptors. A select loop accepts connections, each with the login
line, and serves commands. *Client* (`client.c`, `clientFunctions.c`): a flag for
being logged in and a list of clients, set by the server's replies. Hard: TCP
keeps no boundaries between commands, clients leave at any moment, descriptors
and entries are used again, more clients may come than there are entries.
Correct means: messages name their sender, blocks hold, an entry belongs to one
open connection.

The complete list of components with their status, and of hazards with the line
where each bites and the properties aimed at it, is in `PROJECT.json`.

## Modules

```
Packets ── Simulator ─┬─ ABT ── MCABT          ReliableTransfer  (abstract)
                      ├─ GBN ── MCGBN            implemented by ABT, GBN and SR
                      └─ SR ─┬─ MCSR
                             └─ TimedSR ── MCTimedSR   implements SR
DistanceVector ── MCDistanceVector        routes
DataPlane ── MCDataPlane                  files, over any routes
ConnectionManager ── MCConnectionManager  one router's descriptors and timers
ChatServer ── MCChat
SimulatorProofs, ABTProofs, GBNProofs, SRProofs, DistanceVectorProofs,
DataPlaneProofs, ConnectionManagerProofs, ChatServerProofs
```

Operators that carry out a bug on purpose (comment "Mutant") stand before the
definition they vary; no specification uses them. They show that each property
can fail.

**Packets** is `struct pkt`, the checksum and the medium. Layer 5's messages are
twenty copies of one letter, so a payload is its first byte, the only one the
medium damages, and the value of the other nineteen. The checksum is the sum the
code computes; that a damaged packet is recognised is a consequence, not an
assumption. `Carried(s)` is everything that may come out of the medium when the
packets `s` go in: any subset, each intact or damaged, in order.

**Simulator** is the main loop and its services as the protocols see them. The
event list is abstracted to what it holds: the packets under way in each
direction, in order, and whether the timer event is pending. A timer may go off
at any moment. `tolayer5` is modelled with its checks; a failed check sets
`exitcode`, and nothing happens afterwards.

**ABT, GBN, SR** have one action for each handler, `A_output`, `A_input`,
`A_timerinterrupt`, `B_input`. Arrays that are only appended to are sequences,
flags per sequence number are sets. `RoomFor` bounds the packets under way
(`MaxInFlight`): a handler that would send more is not taken.

**ReliableTransfer** is the service: messages accepted, delivered, confirmed, in
this order, none taken back and nothing failed. `ImplementsReliableTransfer` maps
`cur_msg_recv` to *delivered* and, to *confirmed*, the window base (GBN, SR) or the
number of finished rounds (ABT).

**TimedSR** puts Selective Repeat on the ordered event list with its clock, as
`insertevent`, `starttimer`, `stoptimer`, `tolayer3` and the main loop keep it. It
justifies what SR and Simulator abstract: `ImplementsSR` says that every timed
behaviour is one of the untimed. It keeps SR's variables but not its handlers: each
handler here works on the event list, and at its end `Derived` reads SR's queues, timer
and send times off the list. Time counts in whole units; `jimsrand()` chooses among
`Delays` and `Gaps`. sr.cpp uses 0 for "never sent", so a packet sent at time 0 would
count as not sent; the first message comes after time 0 here, as it does in the program
unless the first `jimsrand()` returns exactly 0.

**DistanceVector** is all routers and the UDP between them. Actions:
`init_handler`, `process_update_command`, `crash`, `send_routing_updates`,
`process_router_data`, `update_crashed_router`. `update_cost_matrix` recomputes a
router's routes: the first neighbour of those with the least cost, sums modulo
2^16 with the code's test for a wrapped sum, a destination that nobody offers
keeps its route. The order of routers in the list is taken to be the same
everywhere, as it comes from the same INIT payload; the row of `cost_mat` for the
router itself is written and never read, and left out. Two simplifications
follow undefined behaviour: an address length that is unset may make `recvfrom`
fail, which ends the router (an outcome of `crash`). `MayMiss` names the
pairs for which three updates in a row may get lost although the neighbour lives.

**DataPlane** is all routers' file transfer over TCP. A router is one thread: a
handler is one action, up to what it has still to send, its `outbox`; while that is
not empty the router does nothing but `sendALL`, one packet at a time, when the
connection has room (`Capacity`). `SendTowards` is `isConnected`,
`connect_to_router` and `get_nexthop_data_fd`. Connections are named by who opened
them to whom, and `data_fd` says on which one a router sends; `new_data_conn`
replaces it. `Reroute` lets the control plane change the next hops to any row of
`Tables`, so that routes may loop, vanish and come back; DistanceVector says which
tables there are. A packet is its transfer, its place in it and its TTL. A new
record's count is never set: `Unset` is what may stand before its first number.
`recvALL` is what a peer that has ended does to a router.

**ConnectionManager** is one router's select loop and the handlers as far as they
touch descriptors and timers. The kernel's side is `held` (what each descriptor is),
`left` (time until a timer expires), and what waits on each: connections to accept,
requests, updates, packets. `Select` takes the ready set, `Handle` is the handler of
its lowest descriptor, and between two handlers anything may arrive and time may
pass (`Tick`). Time counts in update intervals, the unit in which the code sets its
timers. `MayExit` and `MayHang` are the ways a handler ends the router or never
returns; the data plane's waiting in `send` is DataPlane's subject. The router's
list is its neighbours and itself: routers that are no neighbours get no timer.

**ChatServer** is the server and its clients. `acceptClient`, `serve`,
`serveClosed`, `serveReset` are the branches of the select loop; `serve` calls the
event handlers, named as in the code. One recv returns up to `MaxRecv` queued
commands and the first decides what is done; behind REFRESH, which is sent without
a separator, another command makes both unknown. A read through an unset pointer
ends the server or goes on with `Garbage`. Writing to a client that is gone is
lost or raises SIGPIPE, which ends the server. Descriptors are given out lowest
first; UNBLOCK moves the places behind the one it frees up by one (`Without`). History variables: `promised`, the hosts whose block was confirmed, and
`wasReset`.

## Runs

| run | configuration | what it shows |
|---|---|---|
| `abt` | 5 messages, 3 packets under way each direction, payload damage, unset fields 0 or 999999 | safety of ABT, the service, `TransitEnds` |
| `gbn` | 4 messages, window 2, 3 packets under way, acknowledgement damage | safety of GBN, the service, `SentIsConfirmed` |
| `sr` | the same with sequence-number damage | safety of SR, the service, `SentIsConfirmed` |
| `sr_timed` | 4 messages, window 2, delays 1 and 10, arrivals 1 or 20 apart, timeout 15 | the event list is ordered, the timer is the oldest packet's, SR is implemented |
| `sr_timer_past` | 3 messages | violation: a timer in the past |
| `dv_commands` | the line with link costs of the order of 2^16, two UPDATEs at any moment, one update under way from each to each, router 3 may crash, 2 may take 1 for crashed | routes best on offer, never below the shortest |
| `dv_line` | 3 routers in a line, 2 updates under way from each to each, router 3 may crash | convergence, and the end of counting |
| `dv_update` | the triangle with one UPDATE | violation: other links' costs change |
| `chat` | 3 clients, a table of 2, up to 2 commands per recv, 6 commands typed | the inductive invariant, sender names, entries, blocks |
| `dataplane` | 3 routers in a line, three transfers (two meet at router 3, one is shorter than a packet), connections that hold one packet, a TTL of 2 bits, records of 2 numbers, router 3 may crash | order of files, statistics, penultimate packets, spread of failures, end of the traffic |
| `dataplane_mutual` | 2 routers, 3 packets each way | violation: two routers that send to each other wait for ever |
| `select_loop` | 1 neighbour, 1 controller that comes and goes, 2 peers, 6 descriptors, 2 things unread | tables and kernel agree, nothing blocks, who crashed was silent, the silent are noticed, requests get their turn |

**Why the bounds are enough.** Four messages and a window of two let the window
fill, move and fill again while packets of the old window are still under way;
three packets under way hold an old, a current and a duplicate packet at once.
ABT needs five messages so that its backlog is filled, read and refilled. Each run
damages one kind of field: the three kinds fail the checksum in the same way, and
the proofs cover every set of kinds. In `dv_commands` the first UPDATE makes sums
overflow and the second copies path costs into link costs;
`dv_line` is the smallest network that counts to infinity, and its link costs make
the count reach exactly 2^16 within a few rounds;
with two updates under way from one router to another the later one can be read
first, so that a stale vector replaces a newer one. `dv_commands` has one under way,
and its two invariants are proved for any number. In the chat, two entries for three clients
make entries and descriptors go from one client to another and leave one client
without entry, which the real table of four needs five clients for; six commands
are what it takes to log three in, let one leave and two talk.

**Deadlock.** Checked for the routers. The transport runs stop when the main loop
ends after the last message, the chat when the users' commands are used up or the
server has ended.

**Fairness.** In the transport runs: `WF` of `A_input` and `B_input`, because the
main loop takes events in the order of their time and so reaches each; `SF` of a
resend and of an answer that get through undamaged, because loss and corruption
are independent events with probability below 1. (With `-l 1.0` nothing gets
through and the program promises nothing.) No fairness for `A_output`: layer 5 may
fall silent, and what was sent must be confirmed without another message's help.
In the routers' runs: `WF` of each router's INIT and of reading while
an update of a neighbour is there (select reports it; which of two is read first is
left open), `SF` of an update that arrives, and `WF` of the timer of
a silent neighbour, which nothing sets again. The safety runs use no fairness.

`Settled` is Bellman's equation over the tables of the routers that hear each other;
with positive link costs only the shortest paths solve it, so `Converges` needs no
shortest-path computation. Destinations that crashed are excepted: their routes
count up until the sums overflow and then stay as stale entries, which is what
`CountingEnds` says and no more.

The chat properties that mention `wasReset` hold only until a `recv` fails: then
the server closes the connection and leaves the descriptor in the table, the next
client gets the same descriptor and is taken for the former one. Removing the
condition from `NamedSenderSent` makes TLC find that in ten steps. Losing commands
that arrive together, the unset token after an orderly close and a client without
entry do *not* break the properties; the run includes all of them.

In `dataplane` the two transfers to router 3 have two packets each, so that they can
interleave in its buffer in every way; one passes through router 2 while that
router sends its own, and router 2's route changes between right, back and none, so
packets loop until their TTL, which wraps from 0 in `UINT8` = 4 values as it does in
256, is used up. Records are full after two numbers and start again. In
`select_loop`, six descriptors are the least with which INIT succeeds and a timer,
an accepted and a new data connection compete for the last one; a controller that
leaves frees the descriptor that the next timer or connection gets; two things
unread, beside timers and requests, put every pair of handlers into one round.
(A request that finds a data connection open needs one more: with `LastFd` = 9
and `MaxUnread` = 1 the properties hold too, in twice the time.)

`dataplane` and `select_loop` have no deadlock check because the system may stop: the
transfers are over, or the router has ended or hangs.
Their fairness: `WF` of each router's reads, accepts and sends (`Step`), as
its one thread runs whenever select or send lets it; `WF` of the select loop and of
time. CRASH, changes of routes, requests and arrivals are never forced.

## Proofs

TLAPS proves the theorems that `PROJECT.json` lists for all values of the constants:
any number of messages up to the arrays' 1000, any window size, any set of damages,
any bound on packets under way; any network of up to five routers; any chat table.
The assumptions are the named `ASSUME`s of the modules, which TLC evaluates in the
runs.

*SimulatorProofs* holds the facts about the checksum and the medium: a packet that
was sealed and comes out damaged is not valid, and one that comes out valid is
the one that went in; what `Carried` yields is a subsequence up to damage.
It also has the facts about `tolayer5`: if what B hands up is the next
message in order, no check fails.

*GBNProofs.* `NoPanic` is not inductive: that B delivers the right message depends
on what is under way. `IInv` adds `InFlight` (every valid packet under way carries
the message its number says; valid acknowledgements under way never decrease and
lie between the window base and B's number) and `Stored` (A's array holds layer
5's messages). Monotone acknowledgements are why a base that is *set* never moves
back: FIFO delivery is essential. One lemma per handler shows that `IInv` is kept.

*ABTProofs.* The same with one bit for a number. `RoundsInOrder` says that in each
direction the packets of the previous round come before those of the current one;
the bit tells the rounds apart only because of that. `Kept` and `BufferHolds` tie
the two kept packets and the backlog to the messages.

*SRProofs.* Acknowledgements may come in any order here, so `InFlight` only says
that they are for packets B has received. `Stored` says that the two windows'
bases are the first numbers missing from the confirmed and from the received
packets. `TimerStandsForBase`, needed for itself, follows the hand-over of the
one timer through `checkUnackedPkt`.

In all three protocols, *Refinement* proves `Spec => ImplementsReliableTransfer`: each action
maps to Accept, Deliver, Confirm or a stutter.

The second half of *SRProofs* is about TimedSR, for any timeout, delays and gaps.
`TimedIInv` adds to SR's invariant that the list keeps the order of its times and holds one
timer at most (`ListOK`), that SR's variables are what the list says (`TInv`), and
`TimerMatchesBase`. Each timed handler is shown to be SR's handler of the same name
(`TimedA_outputStep` and so on); SR's own lemmas then give SR's invariant, and that its
`unackedPkt` is the window base says which send time the new timer was computed from.
`TimedRefinement` follows, and with it everything proved of SR holds of the timed
protocol, the timers in the past included. The lemmas it rests on are about the list:
what `insertevent`, `stoptimer` and the main loop do to the packets under way
(`InsertAppends`, `InsertKeeps`, `RemoveKeeps`, `TailTakes`). They reason by the positions
of the packets: `InOrder(S)` lists the elements of a set of positions, and there is one
way to do so (`InOrderUnique`), so a list whose packets moved but kept their order has the
same packets under way (`UnderWaySame`). That a packet goes to the end of its queue
(`InsertAppends`) is where `tolayer3` needs the time of the last packet before it.

*DistanceVectorProofs.* `RoutesAreBest` is inductive with the types, for any UPDATE
commands: each handler that changes a vector, a link or a neighbour ends with
`update_cost_matrix`, and a lemma says what that establishes. `NeverBelowShortest`
holds for any UPDATE commands too, although each makes path costs link costs: the
constant `Shortest` is any lower bound of the announced links that satisfies the
triangle inequality, so a path cost that is taken for a link's is no shorter than
the bound either, and no sum that passes the code's test for overflow is below it.
The invariant says so of routes, links, stored vectors and vectors under way together.

*DataPlaneProofs.* `TypeOK` carries the arithmetic of TTL and sequence numbers and the
bound of a record's array. `FailuresSpread` is about every group of routers that are
down and linked with each other; its proof needs `Connected` (what a router sends on
is a connection it has) and argues by the routers that are down after a step: each
was down before, is in `first`, or is linked with one that was down before, and
links are never taken back.

`StatsMatchFile` compares two accounts of the same packets, so both are stated by the
places where packets lie (`Places`, a file and a position in it). A packet that is
stored gets one place behind all others and the others stay (`Grows`, `Stays`). The
invariant `StatsInv` says that a transfer's record is the only one of its number, exists
once the first packet is stored, and lists the numbers of the last packets, each at the
distance from the array's end that the packet has from the last one (`Accounts`). A
packet is noted and stored in one step, which keeps both, also when the array is full
and starts again with that packet's number. All packets are listed as long as they fit
behind whatever the array held before (`Fit`): it is not enough that their number is
below the array's length, since the unset count may start anywhere.

`FilesInOrder` and `PenultimateBeforeLast` need FIFO along the whole way of a transfer,
which may visit a router many times before its TTL is used up. `FlowInv` says that as
long as nothing in use was replaced there are a way and two counts for each transfer: `w`
are the routers it visits, `came[t][k]` of its packets have come to the `k`-th, and
`sent[t][k]` were sent on from there. A packet's hop follows from its TTL (`HopOf`), the
`uint8_t` that goes from 0 to 255 included. Every packet in a queue is on one leg of the
way, after those that came and among those that were sent (`OnLeg`), packets of one leg
are in turn (`InTurn`), and none is missing (`Complete`): the first in a queue is the
next of its leg (`HeadNext`). A router back in its loop has sent on all that came, and
one that is sending has the rest in its outbox (`Sending`), which is what one thread per
router gives. The destination holds `1 .. came` (`Stored`), and the memory of the last
two packets is tied to the counts of the hop they came on (`MemoryOK`). The two counts
are no variables of the model: the existential says they could be, and each of the three
steps that move packets gives new ones (`SendfileFlow`, `SendFlow`, `ReadFlow`). All
other steps are one lemma (`QuietKeeps`). That a file ends with the one last packet in
it (`LastEndsFile`) holds of every state, whatever was replaced.

*ConnectionManagerProofs.* For any number of neighbours, connections and descriptors.
`LowestFree` says what the kernel gives; from it each handler that opens something
keeps `RolesAgree` and `EachOnce`, INIT with its three descriptors included (`InitOnce`:
there is nothing of the kind yet). `RoundGoesOn` is the argument for `NothingBlocks`: a
handler takes nothing from the rest of its round but the expiry of a timer whose
neighbour has been heard in it. The parts need each other: a handler may take the
head of its queue only because `NothingBlocks` says that there is one, and each table
keeps its meaning only because no queue or descriptor holds a connection twice.
`SilenceMeasured` ties a timer to the silence of its neighbour, and `CrashedWasSilent`
follows from it for the only step that drops a neighbour.

*ChatServerProofs.* For any table and up to four hosts (`ChatAssumption`: a block list
has four places). None of the properties is inductive alone. `OneDescriptorEach` says
why the lookup of a sender by its descriptor finds that sender: `accept` gives a
descriptor nobody has (`FreeDescriptor`, by the pigeonhole principle), and an entry is
freed with its descriptor. `PromisesKept` ties the history of confirmed blocks to the
lists: it needs `EntriesAreOpen` (the loops over the table reach the one entry of the
client), `BlockedOnce` (taking out the first place that holds a host takes the host
out) and `HelloFirst` (a new connection gets an entry with a former client's list,
but has been promised nothing). `Listed` says what BLOCK and UNBLOCK may change. Each
handler also proves `Heeded`, the step that `BlockStands` is about.

**Only model-checked.** Liveness under fairness (`SentIsConfirmed`, `TransitEnds`,
`Converges`, `CountingEnds`, `TrafficEnds`, `SilentIsNoticed`, `HandledInTurn`) is
beyond the prover, as is `ENABLED`. Every invariant and every action property that a
run checks is also proved. What is proved needs no
induction over data: what recursive code computes is stated by what its result
satisfies (`FirstOutside`, `IsBest`). No module declares a RECURSIVE operator, which would cost tlapm its SMT
backend.

## Disagreements

1. *UPDATE changes other links* (`dv_update`). `fill_neighbor_cost`
   (`network_util.c:360-368`) copies every neighbour's *path* cost into its *link*
   cost. `global.h:90` says "Link costs to neighbor. DON'T CHANGE!".
2. *A timer in the past* (`sr_timer_past`). sr.cpp:126 starts the timer with a
   negative time left when the other packet of the window was sent again in the
   meantime. `simulator.cpp:501` says "create future event for when timer goes off".
   The main loop then sets the clock back. Safety is not affected:
   `ImplementsSR` is proved in spite of it.
3. *Two senders wait for ever* (`dataplane_mutual`). A router sends a file, or
   forwards a packet, by a blocking `sendALL` and reads nothing meanwhile. Two
   neighbours that send each other more than the connections hold block each other.
   `network_util.c:22` says of `recvALL` and `sendALL` "the underlying send() and recv()
   system calls to ensure nbytes are always" (sent and received).

## Not modelled

- Transport: options and tracing; `jimsrand`; sequence numbers past the arrays' 1000
  entries, which the program does not check (assumed not to occur).
- Router: message layout and byte order; answers to the controller; time finer than
  an update interval; router commands before INIT other than CRASH; a second INIT;
  two routers on one host, which `getID` and `assign_data_fd` cannot tell apart; a
  file that cannot be opened (the router ends); the bytes of packets and files, the
  size of `file_buffer`, what is read behind the end of a short file.
- Chat: a command that arrives in two parts, of which `recv` returns the first (commands
  do arrive together); a client that is killed without EXIT (what the
  server sees of it, a connection that ends or is reset while its entry is in use, is
  in the model: it happens when EXIT is read together with an earlier command and so
  lost); the text of messages and its length limits (buffers of 256, 1024 and 4096
  bytes are assumed large enough; the one for clients that are logged out is
  appended to and never read); the counters that STATISTICS prints; a login to
  a server that does not answer; a client that is started again; more than four
  hosts, with which a block list could overflow; local commands and the sorting they use.

## Plan

Done: the transport protocols, their service and their proofs; Selective Repeat
with time; distance-vector routing, the data plane, the select loop and the chat.
Every safety property that a run checks is proved.

Worth doing next:

1. **Composition of the routers**: ConnectionManager for every router should implement
   DistanceVector with every pair in `MayMiss`. It needs the messages' contents in
   ConnectionManager and is large for TLC.
2. **TimedABT / TimedGBN** with the same event list, by taking the list out of TimedSR
   into a module of its own.
3. **ClientSort**: the two bubble sorts as functions, against a reference.
