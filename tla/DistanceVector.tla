--------------------------- MODULE DistanceVector ---------------------------
(***************************************************************************)
(* The distance-vector routing of the software-defined routers: INIT and   *)
(* UPDATE from the controller, the periodic UDP updates between neighbours *)
(* (router_process_handler.c), the Bellman-Ford step (distance_vector.c),  *)
(* the timers that declare a silent neighbour crashed, and CRASH.          *)
(*                                                                         *)
(* A router is named by its place in router_list, which is the same at     *)
(* every router.  The row that cost_mat keeps for the router itself is     *)
(* written and never read, so cost_mat is the rows of the others.          *)
(***************************************************************************)
EXTENDS Integers, FiniteSets

CONSTANTS
  router_n,      \* number of routers in the INIT payload
  initcost,      \* initcost[r][n]: the link cost INIT gives r for n
  Updates,       \* UPDATE commands <<r, n, c>> the controller may send
  Doomed,        \* routers that may stop, see crash
  MayMiss,       \* <<r, n>>: r may miss three updates in a row of a live n
  MaxInFlight,   \* bound on the updates under way from one router to another
  Shortest       \* Shortest[r][d]: what the way from r to d costs at least

Router == 1 .. router_n
INF    == 65535
Cost   == 0 .. INF   \* uint16_t

(* cost_mat is a 5 x 5 array; a router gives itself cost 0, and only itself *)
ASSUME router_nAssumption == router_n \in 1 .. 5
ASSUME initcostAssumption ==
  /\ initcost \in [Router -> [Router -> Cost]]
  /\ \A r, n \in Router : initcost[r][n] = 0 <=> r = n
ASSUME UpdatesAssumption ==
  Updates \subseteq {u \in Router \X Router \X Cost : u[1] # u[2]}
ASSUME MaxInFlightAssumption == MaxInFlight \in Nat

(* What is asked of Shortest: no link that INIT or an UPDATE announces and  *)
(* no way through another router is shorter.                               *)
ASSUME ShortestAssumption ==
  /\ Shortest \in [Router -> [Router -> Cost]]
  /\ \A r, n \in Router : Shortest[r][n] <= initcost[r][n]
  /\ \A u \in Updates : Shortest[u[1]][u[2]] <= u[3]
  /\ \A r, n, d \in Router : Shortest[r][d] <= Shortest[r][n] + Shortest[n][d]

VARIABLES
  status,          \* each router: waiting for INIT, running, crashed
  cost,            \* router_conn->cost: r's path cost to each router
  nexthop,         \* router_conn->nexthop
  isNeighbor,      \* the routers with router_conn->isNeighbor
  cost_mat,        \* the last vector r has from each other router
  neighbor_cost,   \* r's link cost to each neighbour
  timer_val,       \* r's timer for n: none yet, in master_list, or cleared
  network,         \* updates under way between routers
  link,            \* controller: the link costs it has announced
  commands         \* controller: the UPDATE commands it has not sent yet

rvars == <<cost, nexthop, isNeighbor, cost_mat, neighbor_cost, timer_val>>
vars  == <<status, rvars, network, link, commands>>

Vector == [Router -> Cost]
Update == [src : Router, dst : Router, vector : Vector]

TypeOK ==
  /\ status \in [Router -> {"waiting", "running", "crashed"}]
  /\ cost \in [Router -> Vector]
  /\ nexthop \in [Router -> [Router -> Router \cup {INF}]]
  /\ isNeighbor \in [Router -> SUBSET Router]
  /\ cost_mat \in [Router -> [Router -> Vector]]
  /\ neighbor_cost \in [Router -> Vector]
  /\ timer_val \in [Router -> [Router -> {"none", "watched", "cleared"}]]
  /\ network \subseteq Update
  /\ link \in [Router -> Vector]
  /\ commands \subseteq Updates

(* set_router_details: the neighbours are the others with a finite cost.   *)
Neighbors(r) == {n \in Router : initcost[r][n] \notin {0, INF}}

(* A router's tables hold what INIT gives it from the start; nobody sees   *)
(* them before it runs.                                                    *)
Init ==
  /\ status = [r \in Router |-> "waiting"]
  /\ cost = initcost
  /\ nexthop = [r \in Router |->
       [d \in Router |-> IF initcost[r][d] = INF THEN INF ELSE d]]
  /\ isNeighbor = [r \in Router |-> Neighbors(r)]
  /\ cost_mat = [r \in Router |-> [n \in Router |-> [d \in Router |-> INF]]]
  /\ neighbor_cost = [r \in Router |->
       [n \in Router |-> IF n \in Neighbors(r) THEN initcost[r][n] ELSE 0]]
  /\ timer_val = [r \in Router |-> [n \in Router |-> "none"]]
  /\ network = {}
  /\ link = initcost
  /\ commands = Updates

Running(r) == status[r] = "running"

-----------------------------------------------------------------------------
(* The Bellman-Ford step *)

(* Mutant: the wrapped sum is taken for a cost. *)
AddCostUnchecked(a, b) == (a + b) % 65536

(* uint16_t addition, and the code's test for a sum that wrapped around. *)
AddCost(a, b) ==
  LET sum == (a + b) % 65536
  IN  IF sum < a /\ sum < b THEN INF ELSE sum

(* What neighbour n offers for d, given link costs nc and vectors mat. *)
Offer(nc, mat, n, d) == IF mat[n][d] = INF THEN INF ELSE AddCost(nc[n], mat[n][d])

Offering(nb, nc, mat, d) == {n \in nb : Offer(nc, mat, n, d) < INF}

(* n makes the best offer for d, the first of those that do. *)
IsBest(n, nb, nc, mat, d) ==
  /\ n \in Offering(nb, nc, mat, d)
  /\ \A m \in Offering(nb, nc, mat, d) :
       \/ Offer(nc, mat, n, d) < Offer(nc, mat, m, d)
       \/ Offer(nc, mat, n, d) = Offer(nc, mat, m, d) /\ n <= m

(* r recomputes its routes from the path costs c.  A route nobody offers   *)
(* any more stays as it is.                                                *)
update_cost_matrix(r, c, nb, nc, mat) ==
  LET kept(d) == d = r \/ Offering(nb, nc, mat, d) = {}
      best(d) == CHOOSE n \in nb : IsBest(n, nb, nc, mat, d)
  IN  /\ cost' = [cost EXCEPT ![r] = [d \in Router |->
           IF kept(d) THEN c[d] ELSE Offer(nc, mat, best(d), d)]]
      /\ nexthop' = [nexthop EXCEPT ![r] = [d \in Router |->
           IF kept(d) THEN nexthop[r][d] ELSE best(d)]]

-----------------------------------------------------------------------------
(* The controller's commands *)

init_handler(r) ==
  /\ status[r] = "waiting"
  /\ status' = [status EXCEPT ![r] = "running"]
  /\ UNCHANGED <<rvars, network, link, commands>>

(* The link cost of every neighbour is set again from its path cost. *)
fill_neighbor_cost(r, c) ==
  [n \in Router |-> IF n \in isNeighbor[r] THEN c[n] ELSE neighbor_cost[r][n]]

(* Mutant: the routes are computed before the link costs are set. *)
process_update_commandLate(r, n, c) ==
  /\ Running(r)
  /\ <<r, n, c>> \in commands
  /\ commands' = commands \ {<<r, n, c>>}
  /\ link' = [link EXCEPT ![r][n] = c]
  /\ LET told == [cost[r] EXCEPT ![n] = c]
     IN  /\ neighbor_cost' = [neighbor_cost EXCEPT ![r] = fill_neighbor_cost(r, told)]
         /\ update_cost_matrix(r, told, isNeighbor[r], neighbor_cost[r], cost_mat[r])
  /\ UNCHANGED <<status, isNeighbor, cost_mat, timer_val, network>>

process_update_command(r, n, c) ==
  /\ Running(r)
  /\ <<r, n, c>> \in commands
  /\ commands' = commands \ {<<r, n, c>>}
  /\ link' = [link EXCEPT ![r][n] = c]
  /\ LET told == [cost[r] EXCEPT ![n] = c]
         nc   == fill_neighbor_cost(r, told)
     IN  /\ neighbor_cost' = [neighbor_cost EXCEPT ![r] = nc]
         /\ update_cost_matrix(r, told, isNeighbor[r], nc, cost_mat[r])
  /\ UNCHANGED <<status, isNeighbor, cost_mat, timer_val, network>>

(* The CRASH command: exit(0), at once.  recvfrom() failing on the address *)
(* length that recv_router_update leaves unset ends a router in the same   *)
(* way (router_process_handler.c:40-49).  What is on its way is lost.      *)
crash(r) ==
  /\ Running(r)
  /\ r \in Doomed
  /\ status' = [status EXCEPT ![r] = "crashed"]
  /\ network' = {m \in network : m.dst # r}
  /\ UNCHANGED <<rvars, link, commands>>

-----------------------------------------------------------------------------
(* Updates between routers, over UDP: lost or late, never doubled *)

Message(r, n) == [src |-> r, dst |-> n, vector |-> cost[r]]

RoomFor(r, n) ==
  Cardinality({m \in network : m.src = r /\ m.dst = n}) < MaxInFlight

(* The router's own timer went off.  Each neighbour's copy reaches the     *)
(* network or not; a neighbour that does not run has no socket for it.     *)
send_routing_updates(r) ==
  /\ Running(r)
  /\ \E sent \in SUBSET {n \in isNeighbor[r] : Running(n) /\ RoomFor(r, n)} :
       network' = network \cup {Message(r, n) : n \in sent}
  /\ UNCHANGED <<status, rvars, link, commands>>

(* Mutant: the vector is stored in the receiver's own row. *)
process_router_dataOwnRow(m) ==
  /\ m \in network
  /\ network' = network \ {m}
  /\ LET mat == [cost_mat[m.dst] EXCEPT ![m.dst] = m.vector]
     IN  /\ cost_mat' = [cost_mat EXCEPT ![m.dst] = mat]
         /\ update_cost_matrix(m.dst, cost[m.dst], isNeighbor[m.dst],
                               neighbor_cost[m.dst], mat)
  /\ timer_val' = [timer_val EXCEPT ![m.dst][m.src] =
                     IF @ = "none" THEN "watched" ELSE @]
  /\ UNCHANGED <<status, isNeighbor, neighbor_cost, link, commands>>

(* An update creates the sender's timer, or sets it again.  It does not    *)
(* put a cleared one back, nor make its sender a neighbour again.          *)
process_router_data(m) ==
  /\ m \in network
  /\ network' = network \ {m}
  /\ LET mat == [cost_mat[m.dst] EXCEPT ![m.src] = m.vector]
     IN  /\ cost_mat' = [cost_mat EXCEPT ![m.dst] = mat]
         /\ update_cost_matrix(m.dst, cost[m.dst], isNeighbor[m.dst],
                               neighbor_cost[m.dst], mat)
  /\ IF timer_val[m.dst][m.src] = "none"
     THEN timer_val' = [timer_val EXCEPT ![m.dst][m.src] = "watched"]
     ELSE UNCHANGED timer_val
  /\ UNCHANGED <<status, isNeighbor, neighbor_cost, link, commands>>

(* Nothing more comes from n to r. *)
Silent(n, r) == ~Running(n) \/ r \notin isNeighbor[n]

(* r's timer for n went off: no update for three intervals. *)
update_crashed_router(r, n) ==
  /\ Running(r)
  /\ timer_val[r][n] = "watched"
  /\ Silent(n, r) \/ <<r, n>> \in MayMiss
  /\ timer_val' = [timer_val EXCEPT ![r][n] = "cleared"]
  /\ isNeighbor' = [isNeighbor EXCEPT ![r] = @ \ {n}]
  /\ update_cost_matrix(r, [cost[r] EXCEPT ![n] = INF], isNeighbor[r] \ {n},
                        neighbor_cost[r], cost_mat[r])
  /\ UNCHANGED <<status, cost_mat, neighbor_cost, network, link, commands>>

Controller ==
  \/ \E r \in Router : init_handler(r) \/ crash(r)
  \/ \E u \in commands : process_update_command(u[1], u[2], u[3])

Next ==
  \/ Controller
  \/ \E r \in Router : send_routing_updates(r)
  \/ \E m \in network : process_router_data(m)
  \/ \E r, n \in Router : update_crashed_router(r, n)

Spec == Init /\ [][Next]_vars

-----------------------------------------------------------------------------
(* Safety *)

(* Every route is the best one the neighbours offer at this moment, and    *)
(* its cost and next hop belong together: every handler that changes a     *)
(* vector, a link cost or a neighbour recomputes the routes.  Only a       *)
(* destination nobody offers may keep an older route.                      *)
(* (distance_vector.c:38-105 and its three callers)                        *)
RoutesAreBest ==
  \A r \in Router : \A d \in Router \ {r} :
    Offering(isNeighbor[r], neighbor_cost[r], cost_mat[r], d) # {} =>
      /\ IsBest(nexthop[r][d], isNeighbor[r], neighbor_cost[r], cost_mat[r], d)
      /\ cost[r][d] = Offer(neighbor_cost[r], cost_mat[r], nexthop[r][d], d)

(* No route, link cost, vector or update promises less than the shortest   *)
(* way costs, although sums wrap around at 2^16, updates overtake each     *)
(* other, routers crash and every UPDATE takes path costs for link costs:  *)
(* Bellman-Ford never undershoots.                                         *)
(* (distance_vector.c:73-86, update_command_handler.c:19-30)               *)
NeverBelowShortest ==
  \A r, d \in Router :
    /\ cost[r][d] >= Shortest[r][d]
    /\ d \in isNeighbor[r] => neighbor_cost[r][d] >= Shortest[r][d]
    /\ \A n \in Router : cost_mat[r][n][d] >= Shortest[n][d]
    /\ \A m \in network : m.vector[d] >= Shortest[m.src][d]

IInv == TypeOK /\ RoutesAreBest /\ NeverBelowShortest

(* The link cost a router uses for a neighbour is the one the controller   *)
(* announced last.  global.h:90 says of neighbor_cost: "Link costs to      *)
(* neighbor. DON'T CHANGE!"                                                *)
NeighborCostIsLinkCost ==
  \A r \in Router : \A n \in isNeighbor[r] : neighbor_cost[r][n] = link[r][n]

-----------------------------------------------------------------------------
(* Liveness *)

UpdateArrives(r, n) == send_routing_updates(r) /\ Message(r, n) \in network'

Receives(r, n) ==
  \E m \in network : m.src = n /\ m.dst = r /\ process_router_data(m)

(* Each router gets its INIT; its timer keeps going off, and an update sent *)
(* again and again gets through; a router goes on reading while there is   *)
(* something from a neighbour to read, new or old first; a timer nothing   *)
(* sets again goes off.                                                    *)
Fairness ==
  /\ \A r \in Router : WF_vars(init_handler(r))
  /\ \A r \in Router : \A n \in Neighbors(r) :
       /\ WF_vars(Receives(r, n))
       /\ SF_vars(UpdateArrives(r, n))
       /\ WF_vars(Silent(n, r) /\ update_crashed_router(r, n))

FairSpec == Spec /\ Fairness

(* The routers that still hear each other. *)
Adjacent(r) == {n \in isNeighbor[r] : Running(n) /\ r \in isNeighbor[n]}

(* Bellman's equation between the tables of all running routers: with      *)
(* positive link costs its only solution is the shortest paths.            *)
Settled ==
  \A r \in Router : Running(r) => \A d \in Router \ {r} : Running(d) =>
    /\ \A n \in Adjacent(r) : cost[r][d] <= initcost[r][n] + cost[n][d]
    /\ \/ cost[r][d] = INF
       \/ \E n \in Adjacent(r) : cost[r][d] = initcost[r][n] + cost[n][d]

(* The tables converge to the shortest paths, whatever the order of INITs, *)
(* whatever updates are lost or overtaken by a later one of the same       *)
(* router, through any transient routing loop.                             *)
Converges == <>[]Settled

(* Counting to infinity ends: after a crash the tables stop changing.      *)
CountingEnds == <>[][UNCHANGED <<cost, nexthop>>]_vars
=============================================================================
