------------------------ MODULE DistanceVectorProofs ------------------------
(***************************************************************************)
(* Proofs about DistanceVector, for any number of routers the code allows, *)
(* any link costs, any loss, delay and overtaking of updates, any crashes. *)
(***************************************************************************)
EXTENDS DistanceVector, WellFoundedInduction, TLAPS

-----------------------------------------------------------------------------
(* The Bellman-Ford step *)

LEMMA INFValue == INF = 65535
BY DEF INF

LEMMA CostRange ==
  /\ \A c \in Cost : c \in Int /\ 0 <= c /\ c <= 65535
  /\ \A c \in Int : 0 <= c /\ c <= 65535 => c \in Cost
<1>1. ASSUME NEW c \in Cost PROVE c \in Int /\ 0 <= c /\ c <= INF
  <2>1. INF \in Int
    BY INFValue
  <2> QED
    BY <2>1 DEF Cost
<1>2. ASSUME NEW c \in Int, 0 <= c, c <= INF PROVE c \in Cost
  <2>1. INF \in Int
    BY INFValue
  <2> QED
    BY <1>2, <2>1 DEF Cost
<1> QED
  BY <1>1, <1>2, INFValue

(* The code's test finds exactly the uint16_t sums that wrapped around.    *)
LEMMA AddCostExact ==
  ASSUME NEW a \in Cost, NEW b \in Cost
  PROVE  AddCost(a, b) = IF a + b > INF THEN INF ELSE a + b
<1>1. a \in Int /\ b \in Int /\ 0 <= a /\ a <= 65535 /\ 0 <= b /\ b <= 65535
  BY CostRange
<1>2. CASE a + b <= 65535
  <2>1. (a + b) % 65536 = a + b
    BY <1>1, <1>2
  <2> QED
    BY <1>1, <1>2, <2>1, INFValue DEF AddCost
<1>3. CASE a + b > 65535
  <2>1. (a + b) % 65536 = a + b - 65536
    BY <1>1, <1>3
  <2> QED
    BY <1>1, <1>3, <2>1, INFValue DEF AddCost
<1> QED
  BY <1>1, <1>2, <1>3

(* An offer is a cost. *)
LEMMA OfferType ==
  ASSUME NEW nc \in Vector, NEW mat \in [Router -> Vector],
         NEW n \in Router, NEW d \in Router
  PROVE  Offer(nc, mat, n, d) \in Cost
<1>1. nc[n] \in Cost /\ mat[n][d] \in Cost
  BY DEF Vector
<1>2. AddCost(nc[n], mat[n][d]) \in Cost
  BY <1>1, AddCostExact, CostRange, INFValue
<1> QED
  BY <1>1, <1>2 DEF Offer

(* A set of natural numbers has a least element. *)
LEMMA LeastNatural ==
  ASSUME NEW T, T \subseteq Nat, T # {}
  PROVE  \E x \in T : \A y \in T : x <= y
<1>1. PICK x \in T : \A y \in T : ~(<<y, x>> \in OpToRel(<, Nat))
  BY WFMin, NatLessThanWellFounded
<1>2. ASSUME NEW y \in T PROVE x <= y
  <2>1. ~(<<y, x>> \in OpToRel(<, Nat))
    BY <1>1
  <2>2. ~(y < x)
    BY <2>1 DEF OpToRel
  <2> QED
    BY <2>2
<1> QED
  BY <1>2

(* If anybody offers a route, one of the neighbours makes the best offer.  *)
LEMMA BestExists ==
  ASSUME NEW nc \in Vector, NEW mat \in [Router -> Vector],
         NEW nb \in SUBSET Router, NEW d \in Router,
         Offering(nb, nc, mat, d) # {}
  PROVE  \E n \in nb : IsBest(n, nb, nc, mat, d)
<1> DEFINE G == Offering(nb, nc, mat, d)
           O(n) == Offer(nc, mat, n, d)
           key(n) == 8 * O(n) + n
<1>1. \A n \in G : n \in nb /\ n \in 1 .. 5 /\ O(n) \in Nat
  <2>1. \A n \in G : n \in nb /\ n \in Router
    BY DEF Offering
  <2>2. \A n \in Router : n \in 1 .. 5
    BY router_nAssumption DEF Router
  <2>3. \A n \in Router : O(n) \in Nat
    BY OfferType, CostRange
  <2> QED
    BY <2>1, <2>2, <2>3
<1> HIDE DEF O, G
<1>2. {key(n) : n \in G} \subseteq Nat /\ {key(n) : n \in G} # {}
  BY <1>1 DEF G
<1>3. PICK n \in G : \A m \in G : key(n) <= key(m)
  <2> HIDE DEF key
  <2>1. PICK x \in {key(n) : n \in G} : \A y \in {key(n) : n \in G} : x <= y
    BY <1>2, LeastNatural
  <2> QED
    BY <2>1
<1>4. ASSUME NEW m \in G PROVE O(n) < O(m) \/ (O(n) = O(m) /\ n <= m)
  <2>1. key(n) <= key(m)
    BY <1>3
  <2>2. n \in 1 .. 5 /\ m \in 1 .. 5 /\ O(n) \in Nat /\ O(m) \in Nat
    BY <1>1
  <2> QED
    BY <2>1, <2>2
<1>5. IsBest(n, nb, nc, mat, d)
  BY <1>4 DEF IsBest, O, G
<1> QED
  BY <1>1, <1>5

(* r's routes c, hop are the best that its neighbours offer. *)
BestRoutes(r, c, hop, nb, nc, mat) ==
  \A d \in Router \ {r} : Offering(nb, nc, mat, d) # {} =>
    IsBest(hop[d], nb, nc, mat, d) /\ c[d] = Offer(nc, mat, hop[d], d)

(* The step changes r's routes only and makes them the best on offer       *)
(* (distance_vector.c:38-105).                                             *)
LEMMA StepOutcome ==
  ASSUME cost \in [Router -> Vector],
         nexthop \in [Router -> [Router -> Router \cup {INF}]],
         NEW r \in Router, NEW c \in Vector, NEW nb \in SUBSET Router,
         NEW nc \in Vector, NEW mat \in [Router -> Vector],
         update_cost_matrix(r, c, nb, nc, mat)
  PROVE  /\ cost' \in [Router -> Vector]
         /\ nexthop' \in [Router -> [Router -> Router \cup {INF}]]
         /\ BestRoutes(r, cost'[r], nexthop'[r], nb, nc, mat)
         /\ \A s \in Router \ {r} : cost'[s] = cost[s] /\ nexthop'[s] = nexthop[s]
<1> DEFINE kept(d) == d = r \/ Offering(nb, nc, mat, d) = {}
           best(d) == CHOOSE n \in nb : IsBest(n, nb, nc, mat, d)
           newcost == [d \in Router |-> IF kept(d) THEN c[d] ELSE Offer(nc, mat, best(d), d)]
           newhop  == [d \in Router |-> IF kept(d) THEN nexthop[r][d] ELSE best(d)]
<1>1. cost' = [cost EXCEPT ![r] = newcost] /\ nexthop' = [nexthop EXCEPT ![r] = newhop]
  BY DEF update_cost_matrix
<1>2. ASSUME NEW d \in Router, ~kept(d)
      PROVE  best(d) \in nb /\ IsBest(best(d), nb, nc, mat, d)
  BY <1>2, BestExists
<1>3. \A d \in Router : c[d] \in Cost
  BY DEF Vector
<1>4. \A d \in Router : ~kept(d) => Offer(nc, mat, best(d), d) \in Cost
  BY <1>2, OfferType
<1> HIDE DEF best, kept
<1>5. newcost \in Vector
  BY <1>3, <1>4 DEF Vector
<1>6. newhop \in [Router -> Router \cup {INF}]
  BY <1>2
<1>7. \A d \in Router :
        /\ newcost[d] = IF kept(d) THEN c[d] ELSE Offer(nc, mat, best(d), d)
        /\ ~kept(d) => newhop[d] = best(d)
  OBVIOUS
<1> HIDE DEF newcost, newhop
<1>8. cost'[r] = newcost /\ nexthop'[r] = newhop
  BY <1>1
<1>9. BestRoutes(r, newcost, newhop, nb, nc, mat)
  <2> SUFFICES ASSUME NEW d \in Router \ {r}, Offering(nb, nc, mat, d) # {}
               PROVE  /\ IsBest(newhop[d], nb, nc, mat, d)
                      /\ newcost[d] = Offer(nc, mat, newhop[d], d)
    BY DEF BestRoutes
  <2>1. ~kept(d)
    BY DEF kept
  <2>2. newhop[d] = best(d) /\ newcost[d] = Offer(nc, mat, best(d), d)
    BY <1>7, <2>1
  <2>3. IsBest(best(d), nb, nc, mat, d)
    BY <1>2, <2>1
  <2> QED
    BY <2>2, <2>3
<1> QED
  BY <1>1, <1>5, <1>6, <1>8, <1>9

(* An offer is never below the shortest way. *)
LEMMA OfferNotBelow ==
  ASSUME NEW r \in Router, NEW n \in Router, NEW d \in Router,
         NEW nc \in Vector, NEW mat \in [Router -> Vector],
         nc[n] >= Shortest[r][n], mat[n][d] >= Shortest[n][d]
  PROVE  Offer(nc, mat, n, d) >= Shortest[r][d]
<1>1. nc[n] \in Cost /\ mat[n][d] \in Cost
  BY DEF Vector
<1>2. Shortest[r][d] \in Cost /\ Shortest[n][d] \in Cost /\ Shortest[r][n] \in Cost
  BY ShortestAssumption
<1>3. Shortest[r][d] <= Shortest[r][n] + Shortest[n][d]
  BY ShortestAssumption
<1>4. AddCost(nc[n], mat[n][d]) = IF nc[n] + mat[n][d] > INF THEN INF ELSE nc[n] + mat[n][d]
  BY <1>1, AddCostExact
<1>5. INF >= Shortest[r][d]
  BY <1>2, CostRange, INFValue
<1>6. nc[n] + mat[n][d] >= Shortest[r][d]
  BY <1>1, <1>2, <1>3, CostRange
<1>7. AddCost(nc[n], mat[n][d]) >= Shortest[r][d]
  BY <1>4, <1>5, <1>6
<1> QED
  BY <1>5, <1>7 DEF Offer

-----------------------------------------------------------------------------
(* The routes are always the best on offer *)

LEMMA BestByRouter ==
  RoutesAreBest <=>
    \A r \in Router : BestRoutes(r, cost[r], nexthop[r], isNeighbor[r],
                                 neighbor_cost[r], cost_mat[r])
BY DEF RoutesAreBest, BestRoutes

LEMMA InitBest == Init => TypeOK /\ RoutesAreBest
<1> SUFFICES ASSUME Init PROVE TypeOK /\ RoutesAreBest
  OBVIOUS
<1>1. INF \in Cost /\ 0 \in Cost
  BY CostRange, INFValue
<1>2. \A r \in Router : Neighbors(r) \in SUBSET Router
  BY DEF Neighbors
<1>3. cost \in [Router -> Vector] /\ link \in [Router -> Vector]
  BY initcostAssumption DEF Init, Vector
<1>4. nexthop \in [Router -> [Router -> Router \cup {INF}]]
  BY DEF Init
<1>5. cost_mat \in [Router -> [Router -> Vector]]
  BY <1>1 DEF Init, Vector
<1>6. neighbor_cost \in [Router -> Vector]
  BY <1>1, initcostAssumption DEF Init, Vector
<1>7. TypeOK
  BY <1>2, <1>3, <1>4, <1>5, <1>6 DEF Init, TypeOK
<1>8. ASSUME NEW r \in Router, NEW d \in Router
      PROVE  Offering(isNeighbor[r], neighbor_cost[r], cost_mat[r], d) = {}
  <2>1. \A n \in Router : cost_mat[r][n][d] = INF
    BY DEF Init
  <2>2. isNeighbor[r] \subseteq Router
    BY <1>7 DEF TypeOK
  <2>3. INF < INF <=> FALSE
    BY INFValue
  <2> QED
    BY <2>1, <2>2, <2>3 DEF Offering, Offer
<1> QED
  BY <1>7, <1>8 DEF RoutesAreBest

(* Any handler that recomputes r's routes from the neighbours, link costs  *)
(* and vectors it leaves behind keeps every router's routes the best.      *)
LEMMA StepBest ==
  ASSUME TypeOK, RoutesAreBest,
         NEW r \in Router, NEW c \in Vector, NEW nb \in SUBSET Router,
         NEW nc \in Vector, NEW mat \in [Router -> Vector],
         update_cost_matrix(r, c, nb, nc, mat),
         isNeighbor' = [isNeighbor EXCEPT ![r] = nb],
         neighbor_cost' = [neighbor_cost EXCEPT ![r] = nc],
         cost_mat' = [cost_mat EXCEPT ![r] = mat]
  PROVE  /\ RoutesAreBest'
         /\ cost' \in [Router -> Vector]
         /\ nexthop' \in [Router -> [Router -> Router \cup {INF}]]
         /\ isNeighbor' \in [Router -> SUBSET Router]
         /\ neighbor_cost' \in [Router -> Vector]
         /\ cost_mat' \in [Router -> [Router -> Vector]]
<1>1. /\ cost \in [Router -> Vector]
      /\ nexthop \in [Router -> [Router -> Router \cup {INF}]]
      /\ isNeighbor \in [Router -> SUBSET Router]
      /\ neighbor_cost \in [Router -> Vector]
      /\ cost_mat \in [Router -> [Router -> Vector]]
  BY DEF TypeOK
<1>2. /\ cost' \in [Router -> Vector]
      /\ nexthop' \in [Router -> [Router -> Router \cup {INF}]]
      /\ BestRoutes(r, cost'[r], nexthop'[r], nb, nc, mat)
      /\ \A s \in Router \ {r} : cost'[s] = cost[s] /\ nexthop'[s] = nexthop[s]
  BY <1>1, StepOutcome
<1>3. /\ isNeighbor' \in [Router -> SUBSET Router]
      /\ neighbor_cost' \in [Router -> Vector]
      /\ cost_mat' \in [Router -> [Router -> Vector]]
  BY <1>1
<1>4. /\ isNeighbor'[r] = nb /\ neighbor_cost'[r] = nc /\ cost_mat'[r] = mat
      /\ \A s \in Router \ {r} : /\ isNeighbor'[s] = isNeighbor[s]
                                /\ neighbor_cost'[s] = neighbor_cost[s]
                                /\ cost_mat'[s] = cost_mat[s]
  BY <1>1
<1>5. ASSUME NEW s \in Router
      PROVE  BestRoutes(s, cost'[s], nexthop'[s], isNeighbor'[s],
                        neighbor_cost'[s], cost_mat'[s])
  <2>1. CASE s = r
    BY <1>2, <1>4, <2>1
  <2>2. CASE s # r
    <3>1. BestRoutes(s, cost[s], nexthop[s], isNeighbor[s],
                     neighbor_cost[s], cost_mat[s])
      BY BestByRouter
    <3> QED
      BY <1>2, <1>4, <2>2, <3>1
  <2> QED
    BY <2>1, <2>2
<1>6. RoutesAreBest'
  BY <1>5 DEF RoutesAreBest, BestRoutes
<1> QED
  BY <1>2, <1>3, <1>6

(* Setting one timer keeps the timers' type. *)
LEMMA TimerType ==
  ASSUME timer_val \in [Router -> [Router -> {"none", "watched", "cleared"}]],
         NEW r \in Router, NEW n \in Router, NEW t \in {"none", "watched", "cleared"}
  PROVE  [timer_val EXCEPT ![r][n] = t] \in
           [Router -> [Router -> {"none", "watched", "cleared"}]]
<1> DEFINE Timers == [Router -> {"none", "watched", "cleared"}]
           row == [timer_val[r] EXCEPT ![n] = t]
<1>1. timer_val \in [Router -> Timers] /\ row \in Timers
  OBVIOUS
<1> HIDE DEF row, Timers
<1>2. [timer_val EXCEPT ![r] = row] \in [Router -> Timers]
  BY <1>1
<1> QED
  BY <1>2 DEF row, Timers

(* A handler that touches none of the routing tables. *)
LEMMA TablesUntouched ==
  ASSUME RoutesAreBest, UNCHANGED rvars
  PROVE  RoutesAreBest'
BY DEF RoutesAreBest, rvars, Offering, Offer, IsBest

LEMMA NextBest == TypeOK /\ RoutesAreBest /\ [Next]_vars => (TypeOK /\ RoutesAreBest)'
<1> SUFFICES ASSUME TypeOK, RoutesAreBest, [Next]_vars
             PROVE  (TypeOK /\ RoutesAreBest)'
  OBVIOUS
<1> USE DEF TypeOK
<1>1. ASSUME NEW r \in Router, init_handler(r)
      PROVE  (TypeOK /\ RoutesAreBest)'
  BY <1>1, TablesUntouched DEF init_handler, rvars
<1>2. ASSUME NEW r \in Router, crash(r)
      PROVE  (TypeOK /\ RoutesAreBest)'
  BY <1>2, TablesUntouched DEF crash, rvars
<1>3. ASSUME NEW u \in commands, process_update_command(u[1], u[2], u[3])
      PROVE  (TypeOK /\ RoutesAreBest)'
  <2> DEFINE r == u[1]  n == u[2]  c == u[3]
             told == [cost[r] EXCEPT ![n] = c]
             nc == fill_neighbor_cost(r, told)
  <2>1. r \in Router /\ n \in Router /\ c \in Cost
    BY UpdatesAssumption
  <2>2. /\ commands' = commands \ {<<r, n, c>>}
        /\ link' = [link EXCEPT ![r][n] = c]
        /\ neighbor_cost' = [neighbor_cost EXCEPT ![r] = nc]
        /\ update_cost_matrix(r, told, isNeighbor[r], nc, cost_mat[r])
        /\ UNCHANGED <<status, isNeighbor, cost_mat, timer_val, network>>
    BY <1>3 DEF process_update_command
  <2> HIDE DEF r, n, c
  <2>3. told \in Vector
    BY <2>1 DEF Vector
  <2> HIDE DEF told
  <2>4. nc \in Vector
    BY <2>1, <2>3 DEF Vector, fill_neighbor_cost
  <2> HIDE DEF nc
  <2>5. /\ isNeighbor' = [isNeighbor EXCEPT ![r] = isNeighbor[r]]
        /\ cost_mat' = [cost_mat EXCEPT ![r] = cost_mat[r]]
        /\ isNeighbor[r] \in SUBSET Router /\ cost_mat[r] \in [Router -> Vector]
    BY <2>1, <2>2
  <2>6. /\ RoutesAreBest'
        /\ cost' \in [Router -> Vector]
        /\ nexthop' \in [Router -> [Router -> Router \cup {INF}]]
        /\ neighbor_cost' \in [Router -> Vector]
    <3> HIDE DEF TypeOK
    <3> QED
      BY <2>1, <2>2, <2>3, <2>4, <2>5, StepBest
  <2>7. link' \in [Router -> Vector]
    BY <2>1, <2>2 DEF Vector
  <2> QED
    BY <2>2, <2>6, <2>7
<1>4. ASSUME NEW r \in Router, send_routing_updates(r)
      PROVE  (TypeOK /\ RoutesAreBest)'
  <2>1. PICK sent \in SUBSET {n \in isNeighbor[r] : Running(n) /\ RoomFor(r, n)} :
          network' = network \cup {Message(r, n) : n \in sent}
    BY <1>4 DEF send_routing_updates
  <2>2. \A n \in sent : Message(r, n) \in Update
    BY DEF Message, Update
  <2> QED
    BY <1>4, <2>1, <2>2, TablesUntouched DEF send_routing_updates, rvars
<1>5. ASSUME NEW m \in network, process_router_data(m)
      PROVE  (TypeOK /\ RoutesAreBest)'
  <2> DEFINE r == m.dst  n == m.src
             mat == [cost_mat[r] EXCEPT ![n] = m.vector]
  <2>1. r \in Router /\ n \in Router /\ m.vector \in Vector
    BY DEF Update
  <2>2. /\ network' = network \ {m}
        /\ cost_mat' = [cost_mat EXCEPT ![r] = mat]
        /\ update_cost_matrix(r, cost[r], isNeighbor[r], neighbor_cost[r], mat)
        /\ UNCHANGED <<status, isNeighbor, neighbor_cost, link, commands>>
    BY <1>5 DEF process_router_data
  <2>3. timer_val' \in [Router -> [Router -> {"none", "watched", "cleared"}]]
    <3>1. \/ timer_val' = [timer_val EXCEPT ![r][n] = "watched"]
          \/ timer_val' = timer_val
      BY <1>5 DEF process_router_data
    <3>2. [timer_val EXCEPT ![r][n] = "watched"] \in
            [Router -> [Router -> {"none", "watched", "cleared"}]]
      BY <2>1, TimerType
    <3> HIDE DEF r, n
    <3> QED
      BY <3>1, <3>2
  <2> HIDE DEF r, n
  <2>4. mat \in [Router -> Vector]
    BY <2>1
  <2> HIDE DEF mat
  <2>5. /\ isNeighbor' = [isNeighbor EXCEPT ![r] = isNeighbor[r]]
        /\ neighbor_cost' = [neighbor_cost EXCEPT ![r] = neighbor_cost[r]]
        /\ isNeighbor[r] \in SUBSET Router /\ neighbor_cost[r] \in Vector
        /\ cost[r] \in Vector
    BY <2>1, <2>2
  <2>6. /\ RoutesAreBest'
        /\ cost' \in [Router -> Vector]
        /\ nexthop' \in [Router -> [Router -> Router \cup {INF}]]
        /\ cost_mat' \in [Router -> [Router -> Vector]]
    <3> HIDE DEF TypeOK
    <3> QED
      BY <2>1, <2>2, <2>4, <2>5, StepBest
  <2> QED
    BY <2>2, <2>3, <2>6
<1>6. ASSUME NEW r \in Router, NEW n \in Router, update_crashed_router(r, n)
      PROVE  (TypeOK /\ RoutesAreBest)'
  <2> DEFINE c == [cost[r] EXCEPT ![n] = INF]
             nb == isNeighbor[r] \ {n}
  <2>1. /\ timer_val' = [timer_val EXCEPT ![r][n] = "cleared"]
        /\ isNeighbor' = [isNeighbor EXCEPT ![r] = nb]
        /\ update_cost_matrix(r, c, nb, neighbor_cost[r], cost_mat[r])
        /\ UNCHANGED <<status, cost_mat, neighbor_cost, network, link, commands>>
    BY <1>6 DEF update_crashed_router
  <2>2. c \in Vector
    BY CostRange, INFValue DEF Vector
  <2>3. nb \in SUBSET Router
    OBVIOUS
  <2> HIDE DEF c, nb
  <2>4. /\ cost_mat' = [cost_mat EXCEPT ![r] = cost_mat[r]]
        /\ neighbor_cost' = [neighbor_cost EXCEPT ![r] = neighbor_cost[r]]
        /\ cost_mat[r] \in [Router -> Vector] /\ neighbor_cost[r] \in Vector
    BY <2>1
  <2>5. /\ RoutesAreBest'
        /\ cost' \in [Router -> Vector]
        /\ nexthop' \in [Router -> [Router -> Router \cup {INF}]]
        /\ isNeighbor' \in [Router -> SUBSET Router]
    <3> HIDE DEF TypeOK
    <3> QED
      BY <2>1, <2>2, <2>3, <2>4, StepBest
  <2>6. timer_val' \in [Router -> [Router -> {"none", "watched", "cleared"}]]
    BY <2>1, TimerType
  <2> QED
    BY <2>1, <2>5, <2>6
<1>7. ASSUME UNCHANGED vars
      PROVE  (TypeOK /\ RoutesAreBest)'
  BY <1>7, TablesUntouched DEF vars, rvars
<1> QED
  BY <1>1, <1>2, <1>3, <1>4, <1>5, <1>6, <1>7 DEF Next, Controller

(* The state stays of its type, for every run of the controller. *)
THEOREM TypeCorrect == Spec => []TypeOK
<1>1. Init => TypeOK /\ RoutesAreBest
  BY InitBest
<1>2. TypeOK /\ RoutesAreBest /\ [Next]_vars => (TypeOK /\ RoutesAreBest)'
  BY NextBest
<1> QED
  BY <1>1, <1>2, PTL DEF Spec

(* In every state every router's routes are the best its neighbours offer, *)
(* for any topology, UPDATE commands, crashes, loss and delay.             *)
THEOREM RoutesAlwaysBest == Spec => []RoutesAreBest
<1>1. Init => TypeOK /\ RoutesAreBest
  BY InitBest
<1>2. TypeOK /\ RoutesAreBest /\ [Next]_vars => (TypeOK /\ RoutesAreBest)'
  BY NextBest
<1> QED
  BY <1>1, <1>2, PTL DEF Spec

-----------------------------------------------------------------------------
(* No route costs less than the shortest way *)

NotBelow(r, v) == \A d \in Router : v[d] >= Shortest[r][d]
LinkCosts(r, nb, nc) == \A n \in nb : nc[n] >= Shortest[r][n]

(* Nobody offers r a route to d. *)
NoOffer(r, nb, nc, mat, d) == d = r \/ Offering(nb, nc, mat, d) = {}

LEMMA KeptCost ==
  ASSUME cost \in [Router -> Vector],
         nexthop \in [Router -> [Router -> Router \cup {INF}]],
         NEW r \in Router, NEW c \in Vector, NEW nb \in SUBSET Router,
         NEW nc \in Vector, NEW mat \in [Router -> Vector],
         update_cost_matrix(r, c, nb, nc, mat),
         NEW d \in Router, NoOffer(r, nb, nc, mat, d)
  PROVE  cost'[r][d] = c[d]
<1> DEFINE kept(k) == k = r \/ Offering(nb, nc, mat, k) = {}
           best(k) == CHOOSE n \in nb : IsBest(n, nb, nc, mat, k)
           newcost == [k \in Router |-> IF kept(k) THEN c[k] ELSE Offer(nc, mat, best(k), k)]
<1>1. cost' = [cost EXCEPT ![r] = newcost]
  BY DEF update_cost_matrix
<1>2. kept(d)
  BY DEF NoOffer
<1> HIDE DEF kept, best
<1>3. newcost[d] = c[d]
  BY <1>2
<1> QED
  BY <1>1, <1>3

(* Bellman-Ford over link costs and vectors that do not undershoot gives   *)
(* costs that do not.                                                      *)
LEMMA StepNotBelow ==
  ASSUME cost \in [Router -> Vector],
         nexthop \in [Router -> [Router -> Router \cup {INF}]],
         NEW r \in Router, NEW c \in Vector, NEW nb \in SUBSET Router,
         NEW nc \in Vector, NEW mat \in [Router -> Vector],
         update_cost_matrix(r, c, nb, nc, mat),
         LinkCosts(r, nb, nc), NotBelow(r, c),
         \A n \in Router : NotBelow(n, mat[n]),
         \A s \in Router : NotBelow(s, cost[s])
  PROVE  \A s \in Router : NotBelow(s, cost'[s])
<1>1. \A s \in Router \ {r} : cost'[s] = cost[s]
  BY StepOutcome
<1>2. BestRoutes(r, cost'[r], nexthop'[r], nb, nc, mat)
  BY StepOutcome
<1>3. ASSUME NEW d \in Router PROVE cost'[r][d] >= Shortest[r][d]
  <2>1. CASE NoOffer(r, nb, nc, mat, d)
    <3>1. cost'[r][d] = c[d]
      BY <2>1, KeptCost
    <3> QED
      BY <3>1 DEF NotBelow
  <2>2. CASE ~NoOffer(r, nb, nc, mat, d)
    <3>1. PICK n \in nb : cost'[r][d] = Offer(nc, mat, n, d)
      BY <1>2, <2>2 DEF BestRoutes, IsBest, Offering, NoOffer
    <3>2. nc[n] >= Shortest[r][n] /\ mat[n][d] >= Shortest[n][d]
      BY DEF LinkCosts, NotBelow
    <3> QED
      BY <3>1, <3>2, OfferNotBelow
  <2> QED
    BY <2>1, <2>2
<1>4. NotBelow(r, cost'[r])
  BY <1>3 DEF NotBelow
<1> QED
  BY <1>1, <1>4

LEMMA InitNotBelow == Init => NeverBelowShortest
<1> SUFFICES ASSUME Init PROVE NeverBelowShortest
  OBVIOUS
<1>1. \A r, d \in Router : d \in isNeighbor[r] => neighbor_cost[r][d] = initcost[r][d]
  BY DEF Init, Neighbors
<1>2. \A r, d \in Router : cost[r][d] >= Shortest[r][d] /\ initcost[r][d] >= Shortest[r][d]
  <2>1. \A r, d \in Router :
          /\ initcost[r][d] \in Int /\ Shortest[r][d] \in Int
          /\ Shortest[r][d] <= initcost[r][d]
    BY initcostAssumption, ShortestAssumption, CostRange
  <2> QED
    BY <2>1 DEF Init
<1>3. ASSUME NEW r \in Router, NEW n \in Router, NEW d \in Router
      PROVE  cost_mat[r][n][d] >= Shortest[n][d]
  <2>1. Shortest[n][d] \in Cost
    BY ShortestAssumption
  <2> QED
    BY <2>1, CostRange, INFValue DEF Init
<1> QED
  BY <1>1, <1>2, <1>3 DEF NeverBelowShortest, Init

LEMMA NextNotBelow == IInv /\ [Next]_vars => NeverBelowShortest'
<1> SUFFICES ASSUME IInv, [Next]_vars PROVE NeverBelowShortest'
  OBVIOUS
<1>0. TypeOK /\ NeverBelowShortest
  BY DEF IInv
<1>1. ASSUME NEW r \in Router, init_handler(r)
      PROVE  NeverBelowShortest'
  BY <1>0, <1>1 DEF init_handler, rvars, NeverBelowShortest
<1>2. ASSUME NEW r \in Router, crash(r)
      PROVE  NeverBelowShortest'
  BY <1>0, <1>2 DEF crash, rvars, NeverBelowShortest
<1>3. ASSUME NEW u \in commands, process_update_command(u[1], u[2], u[3])
      PROVE  NeverBelowShortest'
  <2> DEFINE r == u[1]  n == u[2]  c == u[3]
             told == [cost[r] EXCEPT ![n] = c]
             nc == fill_neighbor_cost(r, told)
  <2>1. /\ r \in Router /\ n \in Router /\ c \in Cost
        /\ c >= Shortest[r][n]
    <3>1. u \in Updates
      BY <1>0 DEF TypeOK
    <3>2. Shortest[r][n] <= c /\ r \in Router /\ n \in Router /\ c \in Cost
      BY <3>1, ShortestAssumption, UpdatesAssumption
    <3>3. Shortest[r][n] \in Cost
      BY <3>2, ShortestAssumption
    <3> HIDE DEF r, n, c
    <3> QED
      BY <3>2, <3>3, CostRange
  <2>2. /\ neighbor_cost' = [neighbor_cost EXCEPT ![r] = nc]
        /\ update_cost_matrix(r, told, isNeighbor[r], nc, cost_mat[r])
        /\ UNCHANGED <<isNeighbor, cost_mat, network>>
    BY <1>3 DEF process_update_command
  <2> HIDE DEF r, n, c
  <2>3. /\ cost \in [Router -> Vector]
        /\ nexthop \in [Router -> [Router -> Router \cup {INF}]]
        /\ cost[r] \in Vector /\ neighbor_cost \in [Router -> Vector]
        /\ cost_mat[r] \in [Router -> Vector]
        /\ isNeighbor \in [Router -> SUBSET Router]
    BY <1>0, <2>1 DEF TypeOK
  <2>4. \A s, d \in Router : cost[s][d] >= Shortest[s][d]
    BY <1>0 DEF NeverBelowShortest
  <2>5. told \in Vector /\ \A d \in Router : told[d] >= Shortest[r][d]
    BY <2>1, <2>3, <2>4 DEF Vector
  <2> HIDE DEF told
  <2>6. nc \in Vector /\ \A d \in isNeighbor[r] : nc[d] >= Shortest[r][d]
    BY <2>1, <2>3, <2>5 DEF Vector, fill_neighbor_cost
  <2> HIDE DEF nc
  <2>7. \A s \in Router : NotBelow(s, cost'[s])
    <3>1. /\ LinkCosts(r, isNeighbor[r], nc)
          /\ NotBelow(r, told)
          /\ \A k \in Router : NotBelow(k, cost_mat[r][k])
          /\ \A s \in Router : NotBelow(s, cost[s])
      BY <1>0, <2>1, <2>4, <2>5, <2>6 DEF NeverBelowShortest, NotBelow, LinkCosts
    <3> QED
      BY <2>1, <2>2, <2>3, <2>5, <2>6, <3>1, StepNotBelow
  <2>8. \A s, d \in Router : d \in isNeighbor[s] => neighbor_cost'[s][d] >= Shortest[s][d]
    BY <1>0, <2>1, <2>2, <2>3, <2>6 DEF NeverBelowShortest
  <2> QED
    BY <1>0, <2>2, <2>7, <2>8 DEF NeverBelowShortest, NotBelow
<1>4. ASSUME NEW r \in Router, send_routing_updates(r)
      PROVE  NeverBelowShortest'
  <2>1. PICK sent \in SUBSET {n \in isNeighbor[r] : Running(n) /\ RoomFor(r, n)} :
          network' = network \cup {Message(r, n) : n \in sent}
    BY <1>4 DEF send_routing_updates
  <2>2. UNCHANGED <<status, rvars, link, commands>>
    BY <1>4 DEF send_routing_updates
  <2>3. ASSUME NEW n \in sent, NEW d \in Router
        PROVE  Message(r, n).vector[d] >= Shortest[Message(r, n).src][d]
    BY <1>0 DEF Message, NeverBelowShortest
  <2>4. \A m \in network' : \A d \in Router : m.vector[d] >= Shortest[m.src][d]
    BY <1>0, <2>1, <2>3 DEF NeverBelowShortest
  <2> QED
    BY <1>0, <2>2, <2>4 DEF NeverBelowShortest, rvars
<1>5. ASSUME NEW m \in network, process_router_data(m)
      PROVE  NeverBelowShortest'
  <2> DEFINE r == m.dst  n == m.src
             mat == [cost_mat[r] EXCEPT ![n] = m.vector]
  <2>1. r \in Router /\ n \in Router /\ m.vector \in Vector
    BY <1>0 DEF Update, TypeOK
  <2>2. /\ network' = network \ {m}
        /\ cost_mat' = [cost_mat EXCEPT ![r] = mat]
        /\ update_cost_matrix(r, cost[r], isNeighbor[r], neighbor_cost[r], mat)
        /\ UNCHANGED <<status, isNeighbor, neighbor_cost, link, commands>>
    BY <1>5 DEF process_router_data
  <2>3. \A d \in Router : m.vector[d] >= Shortest[n][d]
    BY <1>0 DEF NeverBelowShortest
  <2> HIDE DEF r, n
  <2>4. cost_mat[r] \in [Router -> Vector]
    BY <1>0, <2>1 DEF TypeOK
  <2>5. mat \in [Router -> Vector] /\ \A k, d \in Router : mat[k][d] >= Shortest[k][d]
    BY <1>0, <2>1, <2>3, <2>4 DEF NeverBelowShortest
  <2> HIDE DEF mat
  <2>6. /\ cost \in [Router -> Vector]
        /\ nexthop \in [Router -> [Router -> Router \cup {INF}]]
        /\ cost[r] \in Vector /\ neighbor_cost[r] \in Vector
        /\ isNeighbor[r] \in SUBSET Router
    BY <1>0, <2>1 DEF TypeOK
  <2>7. /\ LinkCosts(r, isNeighbor[r], neighbor_cost[r])
        /\ NotBelow(r, cost[r])
        /\ \A k \in Router : NotBelow(k, mat[k])
        /\ \A s \in Router : NotBelow(s, cost[s])
    <3>1. LinkCosts(r, isNeighbor[r], neighbor_cost[r])
      BY <1>0, <2>1, <2>6 DEF NeverBelowShortest, LinkCosts
    <3>2. \A s \in Router : NotBelow(s, cost[s])
      BY <1>0 DEF NeverBelowShortest, NotBelow
    <3>3. \A k \in Router : NotBelow(k, mat[k])
      BY <2>5 DEF NotBelow
    <3> QED
      BY <2>1, <3>1, <3>2, <3>3
  <2>8. \A s \in Router : NotBelow(s, cost'[s])
    BY <2>1, <2>2, <2>5, <2>6, <2>7, StepNotBelow
  <2>9. \A s, k, d \in Router : cost_mat'[s][k][d] >= Shortest[k][d]
    BY <1>0, <2>1, <2>2, <2>5 DEF NeverBelowShortest, TypeOK
  <2> QED
    BY <1>0, <2>2, <2>8, <2>9 DEF NeverBelowShortest, NotBelow
<1>6. ASSUME NEW r \in Router, NEW n \in Router, update_crashed_router(r, n)
      PROVE  NeverBelowShortest'
  <2> DEFINE c == [cost[r] EXCEPT ![n] = INF]
             nb == isNeighbor[r] \ {n}
  <2>1. /\ isNeighbor' = [isNeighbor EXCEPT ![r] = nb]
        /\ update_cost_matrix(r, c, nb, neighbor_cost[r], cost_mat[r])
        /\ UNCHANGED <<status, cost_mat, neighbor_cost, network, link, commands>>
    BY <1>6 DEF update_crashed_router
  <2>2. /\ cost \in [Router -> Vector]
        /\ nexthop \in [Router -> [Router -> Router \cup {INF}]]
        /\ cost[r] \in Vector /\ neighbor_cost[r] \in Vector
        /\ cost_mat[r] \in [Router -> Vector]
        /\ isNeighbor \in [Router -> SUBSET Router]
    BY <1>0 DEF TypeOK
  <2>3. INF \in Cost /\ \A d \in Router : INF >= Shortest[r][d]
    BY ShortestAssumption, CostRange, INFValue
  <2>4. \A s, d \in Router : cost[s][d] >= Shortest[s][d]
    BY <1>0 DEF NeverBelowShortest
  <2>5. c \in Vector /\ \A d \in Router : c[d] >= Shortest[r][d]
    BY <2>2, <2>3, <2>4 DEF Vector
  <2>6. nb \in SUBSET Router /\ \A k \in nb : neighbor_cost[r][k] >= Shortest[r][k]
    BY <1>0, <2>2 DEF NeverBelowShortest
  <2>7. \A k, d \in Router : cost_mat[r][k][d] >= Shortest[k][d]
    BY <1>0 DEF NeverBelowShortest
  <2> HIDE DEF c, nb
  <2>8. \A s \in Router : NotBelow(s, cost'[s])
    <3>1. /\ LinkCosts(r, nb, neighbor_cost[r])
          /\ NotBelow(r, c)
          /\ \A k \in Router : NotBelow(k, cost_mat[r][k])
          /\ \A s \in Router : NotBelow(s, cost[s])
      BY <2>4, <2>5, <2>6, <2>7 DEF NotBelow, LinkCosts
    <3> QED
      BY <2>1, <2>2, <2>5, <2>6, <3>1, StepNotBelow
  <2>9. \A s, k \in Router : k \in isNeighbor'[s] => neighbor_cost'[s][k] >= Shortest[s][k]
    BY <1>0, <2>1, <2>2, <2>6 DEF NeverBelowShortest
  <2> QED
    BY <1>0, <2>1, <2>8, <2>9 DEF NeverBelowShortest, NotBelow
<1>7. ASSUME UNCHANGED vars
      PROVE  NeverBelowShortest'
  BY <1>0, <1>7 DEF vars, rvars, NeverBelowShortest
<1> QED
  BY <1>1, <1>2, <1>3, <1>4, <1>5, <1>6, <1>7 DEF Next, Controller

(* The inductive invariant, for any UPDATE commands the controller sends.  *)
THEOREM Invariance == Spec => []IInv
<1>1. Init => IInv
  BY InitBest, InitNotBelow DEF IInv
<1>2. IInv /\ [Next]_vars => IInv'
  BY NextBest, NextNotBelow DEF IInv
<1> QED
  BY <1>1, <1>2, PTL DEF Spec

(* No route, link cost, vector or update is ever cheaper than the shortest *)
(* way over all links ever announced, for any topology, UPDATE commands    *)
(* and order of events.                                                    *)
THEOREM NeverCheaperThanShortest == Spec => []NeverBelowShortest
<1>1. IInv => NeverBelowShortest
  BY DEF IInv
<1> QED
  BY <1>1, Invariance, PTL
=============================================================================
