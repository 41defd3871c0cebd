---------------------- MODULE ConnectionManagerProofs ----------------------
(***************************************************************************)
(* Proofs about ConnectionManager, for any number of neighbours, control   *)
(* and data connections and descriptors.                                   *)
(***************************************************************************)
EXTENDS ConnectionManager, WellFoundedInduction, TLAPS

-----------------------------------------------------------------------------
(* Descriptors *)

LEMMA FdType == Fd \subseteq Nat /\ control_socket \in Fd /\ None \notin Fd
BY BoundAssumption DEF Fd, control_socket, None

(* There is a lowest free descriptor unless all are used. *)
LEMMA LowestFree ==
  ASSUME NEW h, ~Full(h)
  PROVE  /\ Lowest(h) \in Fd /\ h[Lowest(h)] = Unused
         /\ \A g \in Fd : g < Lowest(h) => h[g] # Unused
<1> DEFINE T == {f \in Fd : h[f] = Unused}
<1>1. T \subseteq Nat /\ T # {}
  BY FdType DEF Full
<1>2. PICK f \in T : \A g \in T : ~(<<g, f>> \in OpToRel(<, Nat))
  BY <1>1, WFMin, NatLessThanWellFounded
<1>3. ASSUME NEW g \in Fd, g < f PROVE h[g] # Unused
  <2>1. ~(g \in T)
    <3> SUFFICES ASSUME g \in T PROVE FALSE
      OBVIOUS
    <3>1. <<g, f>> \in OpToRel(<, Nat)
      BY <1>1, <1>3 DEF OpToRel
    <3> QED
      BY <1>2, <3>1
  <2> QED
    BY <2>1
<1>4. f \in Fd /\ h[f] = Unused
  OBVIOUS
<1> QED
  BY <1>3, <1>4 DEF Lowest

(* head_fd keeps up with what is watched. *)
LEMMA HeadFd ==
  ASSUME NEW a \in Fd, NEW b \in Fd, NEW c \in Fd, head_fd \in Fd,
         addToList({a, b, c})
  PROVE  /\ master_list' = master_list \cup {a, b, c}
         /\ head_fd' \in Fd
         /\ head_fd <= head_fd' /\ a <= head_fd' /\ b <= head_fd' /\ c <= head_fd'
<1> DEFINE S == {a, b, c} \cup {head_fd}
<1>1. head_fd' = CHOOSE f \in S : \A g \in S : g <= f
  BY DEF addToList
<1>2. a \in Nat /\ b \in Nat /\ c \in Nat /\ head_fd \in Nat
  BY FdType
<1>3. \E f \in {a, b} : a <= f /\ b <= f
  BY <1>2
<1>4. PICK x \in {a, b} : a <= x /\ b <= x
  BY <1>3
<1>5. \E f \in {x, c} : x <= f /\ c <= f
  BY <1>2
<1>6. PICK y \in {x, c} : x <= y /\ c <= y
  BY <1>5
<1>7. \E f \in {y, head_fd} : y <= f /\ head_fd <= f
  BY <1>2
<1>8. PICK z \in {y, head_fd} : y <= z /\ head_fd <= z
  BY <1>7
<1>9. z \in S /\ \A g \in S : g <= z
  BY <1>2, <1>4, <1>6, <1>8
<1>10. head_fd' \in S /\ \A g \in S : g <= head_fd'
  BY <1>1, <1>9
<1> QED
  BY <1>10 DEF addToList

(* What opening x leaves behind. *)
LEMMA OpensFacts ==
  ASSUME TypeOK, NEW x \in Object, Opens(x)
  PROVE  LET a == Lowest(held)
         IN  /\ a \in Fd /\ held[a] = Unused
             /\ held' = [held EXCEPT ![a] = x] /\ held' \in [Fd -> Object]
             /\ master_list' = master_list \cup {a} /\ master_list' \subseteq Fd
             /\ head_fd' \in Fd /\ head_fd <= head_fd' /\ a <= head_fd'
<1> DEFINE a == Lowest(held)
<1>1. a \in Fd /\ held[a] = Unused
  BY LowestFree DEF Opens
<1>2. held \in [Fd -> Object] /\ master_list \subseteq Fd /\ head_fd \in Fd
  BY DEF TypeOK
<1>3. held' = [held EXCEPT ![a] = x] /\ addToList({a})
  BY DEF Opens, Opened
<1> HIDE DEF a
<1>4. {a} = {a, a, a}
  OBVIOUS
<1>5. /\ master_list' = master_list \cup {a, a, a}
      /\ head_fd' \in Fd /\ head_fd <= head_fd' /\ a <= head_fd'
  BY <1>1, <1>2, <1>3, <1>4, HeadFd
<1>6. held' \in [Fd -> Object]
  BY <1>1, <1>2, <1>3
<1> QED
  BY <1>1, <1>2, <1>3, <1>5, <1>6 DEF a

(* Of which kind an object is decides whose it can be. *)
LEMMA ObjectKinds ==
  /\ \A x \in Object : x = <<x[1], x[2]>>
  /\ \A x \in Object : x[1] = "free" <=> x = Unused
  /\ \A x \in Object : x[1] = "timer" => x[2] \in Router
  /\ \A x \in Object : x[1] = "control" => x[2] \in Controller
  /\ \A x \in Object : x[1] \in {"in", "out"} => x[2] \in Peers
  /\ \A n \in Router : <<"timer", n>> \in Object
  /\ \A c \in Controller : <<"control", c>> \in Object
  /\ \A n \in Peers : <<"in", n>> \in Object /\ <<"out", n>> \in Object
  /\ Unused \in Object
BY DEF Object, Unused

LEMMA OpenedRoles ==
  ASSUME TypeOK, RolesAgree, NEW x \in Object, Opens(x),
         x[1] \in {"control", "timer", "in", "out"},
         router_socket' = router_socket, data_socket' = data_socket,
         isNeighbor' = isNeighbor,
         control_conn_list' = IF x[1] = "control"
                              THEN control_conn_list \cup {Lowest(held)}
                              ELSE control_conn_list,
         timer_val' = IF x[1] = "timer"
                      THEN [timer_val EXCEPT ![x[2]] = Lowest(held)]
                      ELSE timer_val,
         x[1] = "timer" => x[2] \in isNeighbor /\ timer_val[x[2]] = None
  PROVE  RolesAgree'
<1> DEFINE a == Lowest(held)
<1>1. /\ a \in Fd /\ held[a] = Unused
      /\ held' = [held EXCEPT ![a] = x]
      /\ master_list' = master_list \cup {a}
      /\ head_fd' \in Fd /\ head_fd <= head_fd' /\ a <= head_fd'
  BY OpensFacts
<1>2. /\ control_conn_list' = IF x[1] = "control" THEN control_conn_list \cup {a}
                              ELSE control_conn_list
      /\ timer_val' = IF x[1] = "timer" THEN [timer_val EXCEPT ![x[2]] = a] ELSE timer_val
  OBVIOUS
<1> HIDE DEF a
<1>3. /\ held \in [Fd -> Object] /\ master_list \subseteq Fd /\ head_fd \in Fd
      /\ isNeighbor \subseteq Neighbor /\ timer_val \in [Router -> Fd \cup {None}]
  BY DEF TypeOK
<1>4. /\ a # control_socket /\ a # router_socket /\ a # data_socket
      /\ a \notin control_conn_list /\ a \notin master_list
      /\ \A n \in Router : timer_val[n] # a
  BY <1>1 DEF RolesAgree, Unused
<1>5. x[1] = "timer" => x[2] \in Router /\ x = <<"timer", x[2]>>
  BY ObjectKinds
<1>6. None \notin Fd /\ \A f \in Fd : f \in Nat
  BY FdType
<1>7. ASSUME NEW f \in Fd
      PROVE  /\ held'[f][1] = "control_socket" <=> f = control_socket
             /\ held'[f][1] = "router_socket" <=> f = router_socket'
             /\ held'[f][1] = "data_socket" <=> f = data_socket'
             /\ held'[f][1] = "control" <=> f \in control_conn_list'
  BY <1>1, <1>2, <1>3, <1>4 DEF RolesAgree
<1>8. ASSUME NEW f \in Fd, NEW n \in Router
      PROVE  held'[f] = <<"timer", n>> <=> timer_val'[n] = f
  <2>1. CASE f = a
    <3>1. held'[f] = x
      BY <1>1, <1>3, <2>1
    <3>2. timer_val'[n] = a <=> x[1] = "timer" /\ n = x[2]
      BY <1>2, <1>3, <1>4, <1>5
    <3> QED
      BY <1>5, <2>1, <3>1, <3>2
  <2>2. CASE f # a
    <3>1. held'[f] = held[f]
      BY <1>1, <1>3, <2>2
    <3>2. timer_val'[n] = f <=> timer_val[n] = f
      BY <1>2, <1>3, <1>5, <1>6, <2>2
    <3> QED
      BY <3>1, <3>2 DEF RolesAgree
  <2> QED
    BY <2>1, <2>2
<1>9. ASSUME NEW f \in Fd
      PROVE  /\ f \in master_list' <=>
                  held'[f][1] # "free" /\ (held'[f][1] = "timer" => held'[f][2] \in isNeighbor \cup {Self})
             /\ f \in master_list' => f <= head_fd'
  <2>1. CASE f = a
    BY <1>1, <1>3, <2>1
  <2>2. CASE f # a
    <3>1. held'[f] = held[f] /\ (f \in master_list' <=> f \in master_list)
      BY <1>1, <1>3, <2>2
    <3>2. f \in master_list => f <= head_fd'
      BY <1>1, <1>3, <1>6 DEF RolesAgree
    <3> QED
      BY <3>1, <3>2 DEF RolesAgree
  <2> QED
    BY <2>1, <2>2
<1> QED
  BY <1>7, <1>8, <1>9 DEF RolesAgree
-----------------------------------------------------------------------------
(* The tables in the initial state and when nothing or little is opened *)

LEMMA InitTables == Init => TablesOK
<1> SUFFICES ASSUME Init PROVE TablesOK
  OBVIOUS
<1>1. <<"control_socket", Self>> \in Object /\ Unused \in Object
  BY DEF Object, Unused
<1>2. TypeOK
  <2>1. held \in [Fd -> Object]
    BY <1>1 DEF Init
  <2>2. timer_val \in [Router -> Fd \cup {None}]
    BY DEF Init
  <2>3. left \in [Router -> 0 .. Intervals] /\ quiet \in [Neighbor -> 0 .. Intervals]
    BY DEF Init, Intervals
  <2>4. requests \in [Controller -> Request \cup {"none"}]
    BY DEF Init
  <2>5. backlog \in Seq(Controller) /\ inbox \in Seq(Neighbor) /\ dialing \in Seq(Peers)
    BY DEF Init
  <2>6. /\ master_list \subseteq Fd /\ watch_list \subseteq Fd /\ head_fd \in Fd
        /\ control_conn_list \subseteq Fd /\ router_socket = None /\ data_socket = None
    BY FdType DEF Init
  <2>7. /\ fate = "running" /\ announced = FALSE /\ isNeighbor = {} /\ closed = {}
        /\ readable = {} /\ heard = {}
    BY DEF Init
  <2> QED
    BY <2>1, <2>2, <2>3, <2>4, <2>5, <2>6, <2>7 DEF TypeOK
<1>3. RolesAgree
  <2>1. ASSUME NEW f \in Fd
        PROVE  /\ f = control_socket => held[f] = <<"control_socket", Self>>
               /\ f # control_socket => held[f] = <<"free", Self>>
    BY DEF Init, Unused
  <2>2. \A n \in Router : timer_val[n] = None
    BY DEF Init
  <2>3. control_socket \in Fd /\ \A f \in Fd : f # None /\ f \in Nat
    BY FdType
  <2>4. /\ master_list = {control_socket} /\ head_fd = control_socket
        /\ control_conn_list = {} /\ router_socket = None /\ data_socket = None
    BY DEF Init
  <2>5. ASSUME NEW f \in Fd
        PROVE  /\ held[f][1] = "control_socket" <=> f = control_socket
               /\ held[f][1] = "router_socket" <=> f = router_socket
               /\ held[f][1] = "data_socket" <=> f = data_socket
               /\ held[f][1] = "control" <=> f \in control_conn_list
               /\ held[f][1] # "timer"
               /\ f \in master_list <=> held[f][1] # "free"
               /\ f \in master_list => f <= head_fd
    <3>1. CASE f = control_socket
      <4>1. held[f][1] = "control_socket"
        <5>1. held[f] = <<"control_socket", Self>>
          BY <2>1, <2>5, <3>1
        <5> QED
          BY <5>1
      <4> QED
        BY <2>3, <2>4, <2>5, <3>1, <4>1
    <3>2. CASE f # control_socket
      <4>1. held[f][1] = "free"
        <5>1. held[f] = <<"free", Self>>
          BY <2>1, <2>5, <3>2
        <5> QED
          BY <5>1
      <4> QED
        BY <2>3, <2>4, <2>5, <3>2, <4>1
    <3> QED
      BY <3>1, <3>2
  <2>6. ASSUME NEW f \in Fd, NEW n \in Router
        PROVE  held[f] = <<"timer", n>> <=> timer_val[n] = f
    BY <2>2, <2>3, <2>5
  <2> QED
    BY <2>5, <2>6 DEF RolesAgree
<1>4. InitOnce
  BY DEF Init, InitOnce
<1>5. EachOnce
  BY FdType DEF Init, EachOnce, Unused, control_socket
<1> QED
  BY <1>2, <1>3, <1>4, <1>5 DEF TablesOK

(* A step that touches none of the tables. *)
LEMMA SameRoles == RolesAgree /\ UNCHANGED tables => RolesAgree'
BY DEF RolesAgree, tables

(* Two timers are two routers', and a router has one. *)
LEMMA TimerRoles ==
  ASSUME TypeOK, RolesAgree, NEW f \in Fd, NEW n \in Router, timer_val[n] = f
  PROVE  /\ held[f] = <<"timer", n>>
         /\ \A m \in Router : timer_val[m] = f => m = n
         /\ \A g \in Fd : held[g][1] = "timer" /\ held[g][2] = n => g = f
<1>1. held[f] = <<"timer", n>>
  BY DEF RolesAgree
<1>2. ASSUME NEW m \in Router, timer_val[m] = f PROVE m = n
  <2>1. held[f] = <<"timer", m>>
    BY <1>2 DEF RolesAgree
  <2> QED
    BY <1>1, <2>1
<1>3. ASSUME NEW g \in Fd, held[g][1] = "timer", held[g][2] = n PROVE g = f
  <2>1. held[g] = <<"timer", n>>
    BY <1>3, ObjectKinds DEF TypeOK
  <2> QED
    BY <2>1 DEF RolesAgree
<1> QED
  BY <1>1, <1>2, <1>3

LEMMA CrashedRoles ==
  ASSUME TypeOK, RolesAgree, NEW f \in Fd, isTimer(f), ~isSelfTimer(f),
         update_crashed_router(f)
  PROVE  /\ RolesAgree'
         /\ \E n \in Router : timer_val[n] = f /\ n # Self /\ isNeighbor' = isNeighbor \ {n}
<1>1. PICK n \in Router : timer_val[n] = f
  BY DEF isTimer
<1>2. n # Self
  BY <1>1 DEF isSelfTimer
<1>3. /\ held[f] = <<"timer", n>>
      /\ \A m \in Router : timer_val[m] = f => m = n
      /\ \A g \in Fd : held[g][1] = "timer" /\ held[g][2] = n => g = f
  BY <1>1, TimerRoles
<1>4. /\ isNeighbor' = isNeighbor \ {n} /\ master_list' = master_list \ {f}
      /\ UNCHANGED <<held, head_fd, control_conn_list, router_socket, data_socket, timer_val>>
  BY <1>1, <1>3 DEF update_crashed_router
<1>5. ASSUME NEW g \in Fd
      PROVE  g \in master_list' <=>
               held[g][1] # "free" /\ (held[g][1] = "timer" => held[g][2] \in isNeighbor' \cup {Self})
  <2>1. CASE g = f
    BY <1>2, <1>3, <1>4, <2>1
  <2>2. CASE g # f
    <3>1. held[g][1] = "timer" => held[g][2] # n
      BY <1>3, <2>2
    <3> QED
      BY <1>4, <2>2, <3>1 DEF RolesAgree
  <2> QED
    BY <2>1, <2>2
<1>6. RolesAgree'
  BY <1>4, <1>5 DEF RolesAgree
<1> QED
  BY <1>1, <1>2, <1>4, <1>6

LEMMA RemovedRoles ==
  ASSUME TypeOK, RolesAgree, NEW f \in Fd, isControl(f), remove_control_conn(f)
  PROVE  RolesAgree' /\ held' \in [Fd -> Object] /\ held[f][1] = "control"
<1>1. held[f][1] = "control"
  BY DEF RolesAgree, isControl
<1>2. /\ held' = [held EXCEPT ![f] = Unused]
      /\ control_conn_list' = control_conn_list \ {f} /\ master_list' = master_list \ {f}
      /\ UNCHANGED <<head_fd, router_socket, data_socket, timer_val, isNeighbor>>
  BY DEF remove_control_conn
<1>3. held \in [Fd -> Object]
  BY DEF TypeOK
<1>4. held'[f] = Unused /\ \A g \in Fd : g # f => held'[g] = held[g]
  BY <1>2, <1>3
<1>5. \A n \in Router : held[f] # <<"timer", n>>
  BY <1>1
<1>6. ASSUME NEW g \in Fd
      PROVE  /\ held'[g][1] = "control_socket" <=> g = control_socket
             /\ held'[g][1] = "router_socket" <=> g = router_socket'
             /\ held'[g][1] = "data_socket" <=> g = data_socket'
             /\ held'[g][1] = "control" <=> g \in control_conn_list'
             /\ \A n \in Router : held'[g] = <<"timer", n>> <=> timer_val'[n] = g
             /\ g \in master_list' <=>
                  held'[g][1] # "free" /\ (held'[g][1] = "timer" => held'[g][2] \in isNeighbor' \cup {Self})
             /\ g \in master_list' => g <= head_fd'
  <2>1. CASE g = f
    <3>1. held'[g][1] = "free" /\ \A n \in Router : held'[g] # <<"timer", n>>
      BY <1>4, <2>1 DEF Unused
    <3>2. \A n \in Router : timer_val[n] # g
      BY <1>5, <2>1 DEF RolesAgree
    <3>3. g # control_socket /\ g # router_socket /\ g # data_socket
      BY <1>1, <2>1 DEF RolesAgree
    <3> QED
      BY <1>2, <2>1, <3>1, <3>2, <3>3
  <2>2. CASE g # f
    BY <1>2, <1>4, <2>2 DEF RolesAgree
  <2> QED
    BY <2>1, <2>2
<1>7. held' \in [Fd -> Object]
  BY <1>2, <1>3, ObjectKinds
<1> QED
  BY <1>1, <1>6, <1>7 DEF RolesAgree

(* INIT opens three different descriptors. *)
LEMMA ThreeOpened ==
  ASSUME TypeOK, init_handler
  PROVE  \E a, b, c \in Fd :
           /\ a # b /\ a # c /\ b # c
           /\ held[a] = Unused /\ held[b] = Unused /\ held[c] = Unused
           /\ held'[a] = <<"timer", Self>> /\ held'[b] = <<"router_socket", Self>>
           /\ held'[c] = <<"data_socket", Self>>
           /\ \A g \in Fd \ {a, b, c} : held'[g] = held[g]
           /\ held' \in [Fd -> Object]
           /\ timer_val' = [timer_val EXCEPT ![Self] = a]
           /\ router_socket' = b /\ data_socket' = c
           /\ master_list' = master_list \cup {a, b, c}
           /\ head_fd' \in Fd /\ head_fd <= head_fd'
           /\ a <= head_fd' /\ b <= head_fd' /\ c <= head_fd'
<1> DEFINE a == Lowest(held)
           b == Lowest(Timed)
           c == Lowest(Routed)
<1>1. a \in Fd /\ held[a] = Unused
  BY LowestFree DEF init_handler, RoomForThree
<1>2. b \in Fd /\ Timed[b] = Unused
  BY LowestFree DEF init_handler, RoomForThree
<1>3. c \in Fd /\ Routed[c] = Unused
  BY LowestFree DEF init_handler, RoomForThree
<1>4. /\ Timed = [held EXCEPT ![a] = <<"timer", Self>>]
      /\ Routed = [Timed EXCEPT ![b] = <<"router_socket", Self>>]
      /\ held' = [Routed EXCEPT ![c] = <<"data_socket", Self>>]
      /\ timer_val' = [timer_val EXCEPT ![Self] = a]
      /\ router_socket' = b /\ data_socket' = c
      /\ addToList({a, b, c})
  BY DEF init_handler, Timed, Routed, Opened
<1> HIDE DEF a, b, c
<1>5. /\ held \in [Fd -> Object] /\ head_fd \in Fd
      /\ <<"timer", Self>> \in Object /\ <<"router_socket", Self>> \in Object
      /\ <<"data_socket", Self>> \in Object
  BY DEF TypeOK, Object, Router
<1>6. Timed \in [Fd -> Object] /\ \A g \in Fd : Timed[g] = IF g = a THEN <<"timer", Self>> ELSE held[g]
  BY <1>1, <1>4, <1>5
<1>7. /\ Routed \in [Fd -> Object]
      /\ \A g \in Fd : Routed[g] = IF g = b THEN <<"router_socket", Self>> ELSE Timed[g]
  BY <1>2, <1>4, <1>5, <1>6
<1>8. /\ held' \in [Fd -> Object]
      /\ \A g \in Fd : held'[g] = IF g = c THEN <<"data_socket", Self>> ELSE Routed[g]
  BY <1>3, <1>4, <1>5, <1>7
<1>9. a # b /\ a # c /\ b # c
  BY <1>1, <1>2, <1>3, <1>6, <1>7 DEF Unused
<1>10. /\ held[b] = Unused /\ held[c] = Unused
       /\ held'[a] = <<"timer", Self>> /\ held'[b] = <<"router_socket", Self>>
       /\ held'[c] = <<"data_socket", Self>>
       /\ \A g \in Fd \ {a, b, c} : held'[g] = held[g]
  BY <1>1, <1>2, <1>3, <1>6, <1>7, <1>8, <1>9
<1>11. /\ master_list' = master_list \cup {a, b, c}
       /\ head_fd' \in Fd /\ head_fd <= head_fd'
       /\ a <= head_fd' /\ b <= head_fd' /\ c <= head_fd'
  BY <1>1, <1>2, <1>3, <1>4, <1>5, HeadFd
<1> QED
  BY <1>1, <1>2, <1>3, <1>4, <1>8, <1>9, <1>10, <1>11


LEMMA InitRoles ==
  ASSUME TypeOK, RolesAgree, EachOnce, init_handler,
         router_socket = None, data_socket = None, \A n \in Router : timer_val[n] = None
  PROVE  /\ RolesAgree'
         /\ \A f, g \in Fd : held'[f] = held'[g] /\ held'[f][1] # "free" => f = g
         /\ \A g \in Fd : held'[g] = held[g] \/ held'[g][1] \notin {"control", "in"}
         /\ \A g \in Fd : held[g][1] # "free" => held'[g] = held[g]
         /\ held' \in [Fd -> Object] /\ master_list' \subseteq Fd /\ head_fd' \in Fd
         /\ router_socket' \in Fd /\ data_socket' \in Fd
         /\ timer_val' \in [Router -> Fd \cup {None}]
         /\ \A n \in Neighbor : timer_val'[n] = None
<1>1. PICK a \in Fd, b \in Fd, c \in Fd :
           /\ a # b /\ a # c /\ b # c
           /\ held[a] = Unused /\ held[b] = Unused /\ held[c] = Unused
           /\ held'[a] = <<"timer", Self>> /\ held'[b] = <<"router_socket", Self>>
           /\ held'[c] = <<"data_socket", Self>>
           /\ \A g \in Fd \ {a, b, c} : held'[g] = held[g]
           /\ held' \in [Fd -> Object]
           /\ timer_val' = [timer_val EXCEPT ![Self] = a]
           /\ router_socket' = b /\ data_socket' = c
           /\ master_list' = master_list \cup {a, b, c}
           /\ head_fd' \in Fd /\ head_fd <= head_fd'
           /\ a <= head_fd' /\ b <= head_fd' /\ c <= head_fd'
  BY ThreeOpened
<1>2. control_conn_list' = control_conn_list /\ isNeighbor' = Neighbor
  BY DEF init_handler
<1>3. /\ timer_val \in [Router -> Fd \cup {None}] /\ held \in [Fd -> Object]
      /\ master_list \subseteq Fd /\ head_fd \in Fd
  BY DEF TypeOK
<1>4. Self \in Router /\ Self \notin Neighbor /\ Neighbor \subseteq Router
  BY NameAssumption DEF Router
<1>5. /\ timer_val'[Self] = a /\ \A n \in Router : n # Self => timer_val'[n] = None
      /\ timer_val' \in [Router -> Fd \cup {None}]
  BY <1>1, <1>3, <1>4
<1>6. None \notin Fd /\ \A f \in Fd : f \in Nat
  BY FdType
<1>7. \A g \in Fd : held[g][1] \notin {"timer", "router_socket", "data_socket"}
  <2> SUFFICES ASSUME NEW g \in Fd PROVE held[g][1] \notin {"timer", "router_socket", "data_socket"}
    OBVIOUS
  <2>1. held[g][1] # "router_socket" /\ held[g][1] # "data_socket"
    BY <1>6 DEF RolesAgree
  <2>2. held[g][1] # "timer"
    <3> SUFFICES ASSUME held[g][1] = "timer" PROVE FALSE
      OBVIOUS
    <3>1. held[g] = <<"timer", held[g][2]>> /\ held[g][2] \in Router
      BY <1>3, ObjectKinds
    <3>2. timer_val[held[g][2]] = g
      BY <3>1 DEF RolesAgree
    <3> QED
      BY <1>6, <3>1, <3>2
  <2> QED
    BY <2>1, <2>2
<1>8. /\ a # control_socket /\ b # control_socket /\ c # control_socket
      /\ a \notin control_conn_list /\ b \notin control_conn_list /\ c \notin control_conn_list
  BY <1>1 DEF RolesAgree, Unused
<1>9. ASSUME NEW g \in Fd
      PROVE  /\ held'[g][1] = "control_socket" <=> g = control_socket
             /\ held'[g][1] = "router_socket" <=> g = router_socket'
             /\ held'[g][1] = "data_socket" <=> g = data_socket'
             /\ held'[g][1] = "control" <=> g \in control_conn_list'
             /\ \A n \in Router : held'[g] = <<"timer", n>> <=> timer_val'[n] = g
             /\ g \in master_list' <=>
                  held'[g][1] # "free" /\ (held'[g][1] = "timer" => held'[g][2] \in isNeighbor' \cup {Self})
             /\ g \in master_list' => g <= head_fd'
  <2>1. CASE g = a
    BY <1>1, <1>2, <1>4, <1>5, <1>6, <1>8, <2>1
  <2>2. CASE g = b
    BY <1>1, <1>2, <1>5, <1>6, <1>8, <2>2
  <2>3. CASE g = c
    BY <1>1, <1>2, <1>5, <1>6, <1>8, <2>3
  <2>4. CASE g \notin {a, b, c}
    <3>1. held'[g] = held[g] /\ (g \in master_list' <=> g \in master_list)
      BY <1>1, <2>4
    <3>2. held[g][1] \notin {"timer", "router_socket", "data_socket"}
      BY <1>7
    <3>3. /\ held[g][1] = "control_socket" <=> g = control_socket
          /\ held[g][1] = "control" <=> g \in control_conn_list
          /\ g \in master_list <=> held[g][1] # "free"
          /\ g \in master_list => g <= head_fd
      BY <3>2 DEF RolesAgree
    <3>4. \A n \in Router : timer_val'[n] # g
      BY <1>5, <1>6, <2>4
    <3>5. g \in master_list => g <= head_fd'
      BY <1>1, <1>3, <1>6, <3>3
    <3>6. \A n \in Router : held[g] # <<"timer", n>>
      BY <3>2
    <3> QED
      BY <1>1, <1>2, <2>4, <3>1, <3>2, <3>3, <3>4, <3>5, <3>6
  <2> QED
    BY <2>1, <2>2, <2>3, <2>4
<1>10. RolesAgree'
  BY <1>9 DEF RolesAgree
<1>11. ASSUME NEW f \in Fd, NEW g \in Fd, held'[f] = held'[g], held'[f][1] # "free"
       PROVE  f = g
  <2>1. CASE f \in {a, b, c} \/ g \in {a, b, c}
    BY <1>1, <1>7, <1>11, <2>1
  <2>2. CASE f \notin {a, b, c} /\ g \notin {a, b, c}
    BY <1>1, <1>11, <2>2 DEF EachOnce
  <2> QED
    BY <2>1, <2>2
<1>12. \A g \in Fd : held'[g] = held[g] \/ held'[g][1] \notin {"control", "in"}
  BY <1>1
<1>13. \A g \in Fd : held[g][1] # "free" => held'[g] = held[g]
  BY <1>1 DEF Unused
<1> QED
  BY <1>1, <1>3, <1>4, <1>5, <1>10, <1>11, <1>12, <1>13

(* Opening x keeps everything single. *)
LEMMA OpenedOnce ==
  ASSUME TypeOK, EachOnce, NEW x \in Object, Opens(x), ~Open(x)
  PROVE  /\ \A f, g \in Fd : held'[f] = held'[g] /\ held'[f][1] # "free" => f = g
         /\ \A g \in Fd : held'[g] = held[g] \/ held'[g] = x
         /\ \A g \in Fd : held[g][1] # "free" => held'[g] = held[g]
<1> DEFINE a == Lowest(held)
<1>1. a \in Fd /\ held' = [held EXCEPT ![a] = x] /\ held \in [Fd -> Object] /\ held[a] = Unused
  BY OpensFacts DEF TypeOK
<1> HIDE DEF a
<1>2. \A f \in Fd : held[f] # x
  BY DEF Open
<1>3. ASSUME NEW f \in Fd, NEW g \in Fd, held'[f] = held'[g], held'[f][1] # "free"
      PROVE  f = g
  BY <1>1, <1>2, <1>3 DEF EachOnce
<1>4. \A g \in Fd : held'[g] = held[g] \/ held'[g] = x
  BY <1>1
<1>5. \A g \in Fd : held[g][1] # "free" => held'[g] = held[g]
  BY <1>1 DEF Unused
<1> QED
  BY <1>3, <1>4, <1>5

-----------------------------------------------------------------------------
(* What is left alone stays true *)

LEMMA SameOnce ==
  ASSUME EachOnce, UNCHANGED <<backlog, dialing>>,
         \A f, g \in Fd : held'[f] = held'[g] /\ held'[f][1] # "free" => f = g,
         \A g \in Fd : held'[g] = held[g] \/ held'[g][1] \notin {"control", "in"}
  PROVE  EachOnce'
BY DEF EachOnce, Open

LEMMA SameInit ==
  InitOnce /\ UNCHANGED <<requests, announced, router_socket, data_socket, timer_val, isNeighbor>>
    => InitOnce'
BY DEF InitOnce

LEMMA SameSilence ==
  ASSUME SilenceMeasured, UNCHANGED <<fate, inbox, quiet>>,
         \A n \in Neighbor : timer_val'[n] = timer_val[n] /\ left'[n] = left[n]
  PROVE  SilenceMeasured'
BY DEF SilenceMeasured, Waits, Running

(* A handler of f, or a step of the surroundings (then f is no descriptor), *)
(* takes nothing from the rest of the round but a timer's expiry, and that  *)
(* only when its neighbour has been heard.                                  *)
LEMMA RoundGoesOn ==
  ASSUME TypeOK, RolesAgree, NothingBlocks, NEW f, fate' = fate,
         watch_list' = watch_list \ {f},
         watch_list' = {} \/ heard \subseteq heard',
         \A g \in Fd : held[g][1] # "free" /\ g # f => held'[g] = held[g],
         \A n \in Router : timer_val[n] # None => timer_val'[n] = timer_val[n],
         \A n \in Router : timer_val[n] \notin {None, f} /\ left[n] = 0 =>
                             left'[n] = 0 \/ watch_list' = {} \/ n \in heard',
         backlog # << >> /\ f # control_socket => backlog' # << >>,
         inbox # << >> /\ f # router_socket => inbox' # << >>,
         dialing # << >> /\ f # data_socket => dialing' # << >>,
         \A g \in Fd \ {f} : held[g][1] = "control" =>
            (requests[held[g][2]] # "none" \/ held[g][2] \in closed =>
               requests'[held[g][2]] # "none" \/ held[g][2] \in closed'),
         \A g \in Fd \ {f} : held[g][1] \in {"in", "out"} =>
            (held[g] \in readable => held[g] \in readable')
  PROVE  NothingBlocks'
<1> SUFFICES ASSUME Running', NEW g \in watch_list'
             PROVE  Ready(g)' \/ \E n \in heard' : timer_val'[n] = g
  BY DEF NothingBlocks
<1>1. g \in watch_list /\ g # f /\ g \in Fd /\ Running /\ heard \subseteq heard'
  BY DEF TypeOK, Running
<1>2. Ready(g) \/ \E n \in heard : timer_val[n] = g
  BY <1>1 DEF NothingBlocks
<1>3. None \notin Fd /\ heard \subseteq Router /\ held \in [Fd -> Object]
  BY FdType DEF TypeOK, Router
<1>4. CASE \E n \in heard : timer_val[n] = g
  BY <1>1, <1>3, <1>4
<1>5. CASE Ready(g)
  <2>1. held'[g] = held[g]
    BY <1>1, <1>5 DEF Ready
  <2>2. CASE held[g][1] = "timer"
    <3>1. PICK n \in Router : held[g] = <<"timer", n>> /\ held[g][2] = n
      BY <1>1, <1>3, <2>2, ObjectKinds
    <3>2. timer_val[n] = g /\ timer_val'[n] = g
      BY <1>1, <1>3, <3>1 DEF RolesAgree
    <3>3. left[n] = 0
      BY <1>5, <3>1 DEF Ready
    <3>4. left'[n] = 0 \/ n \in heard'
      BY <1>1, <1>3, <3>2, <3>3
    <3> QED
      BY <2>1, <3>1, <3>2, <3>4 DEF Ready
  <2>3. CASE held[g][1] = "control_socket"
    <3>1. g = control_socket
      BY <1>1, <2>3 DEF RolesAgree
    <3> QED
      BY <1>1, <1>5, <2>1, <2>3, <3>1 DEF Ready
  <2>4. CASE held[g][1] = "router_socket"
    <3>1. g = router_socket
      BY <1>1, <2>4 DEF RolesAgree
    <3> QED
      BY <1>1, <1>5, <2>1, <2>4, <3>1 DEF Ready
  <2>5. CASE held[g][1] = "data_socket"
    <3>1. g = data_socket
      BY <1>1, <2>5 DEF RolesAgree
    <3> QED
      BY <1>1, <1>5, <2>1, <2>5, <3>1 DEF Ready
  <2>6. CASE held[g][1] = "control"
    BY <1>1, <1>5, <2>1, <2>6 DEF Ready
  <2>7. CASE held[g][1] \in {"in", "out"}
    BY <1>1, <1>5, <2>1, <2>7 DEF Ready
  <2> QED
    BY <1>5, <2>2, <2>3, <2>4, <2>5, <2>6, <2>7 DEF Ready
<1> QED
  BY <1>2, <1>4, <1>5


-----------------------------------------------------------------------------
(* The handlers *)

LEMMA HandleFrame ==
  ASSUME IInv, Running, NEW f \in Fd, Handle(f)
  PROVE  /\ TypeOK /\ RolesAgree /\ InitOnce /\ EachOnce /\ NothingBlocks /\ SilenceMeasured
         /\ fate' = fate /\ quiet' = quiet /\ watch_list' = watch_list \ {f}
         /\ watch_list' \subseteq Fd /\ heard' \subseteq Neighbor
         /\ watch_list' = {} \/ heard \subseteq heard'
         /\ watch_list' = {} \/ (f = router_socket => Head(inbox) \in heard')
         /\ f = control_socket => ~isTimer(f) /\ backlog # << >>
         /\ f = router_socket => ~isTimer(f) /\ inbox # << >>
         /\ f = data_socket => ~isTimer(f) /\ dialing # << >>
<1>1. TypeOK /\ RolesAgree /\ InitOnce /\ EachOnce /\ NothingBlocks /\ SilenceMeasured
  BY DEF IInv, TablesOK
<1>2. /\ fate' = fate /\ quiet' = quiet /\ watch_list' = watch_list \ {f} /\ f \in watch_list
      /\ heard' = IF watch_list = {f} THEN {}
                  ELSE IF f = router_socket THEN heard \cup {Head(inbox)}
                  ELSE heard
  BY DEF Handle, IsNext
<1>3. heard \subseteq Neighbor /\ watch_list \subseteq Fd /\ inbox \in Seq(Neighbor)
  BY <1>1 DEF TypeOK
<1>4. Ready(f) \/ isTimer(f)
  BY <1>1, <1>2, <1>3 DEF NothingBlocks, isTimer, Router
<1>5. isTimer(f) => held[f][1] = "timer"
  BY <1>1 DEF isTimer, RolesAgree
<1>6. /\ f = control_socket <=> held[f][1] = "control_socket"
      /\ f = router_socket <=> held[f][1] = "router_socket"
      /\ f = data_socket <=> held[f][1] = "data_socket"
  BY <1>1 DEF RolesAgree
<1>7. f = control_socket => ~isTimer(f) /\ backlog # << >>
  BY <1>4, <1>5, <1>6 DEF Ready
<1>8. f = router_socket => ~isTimer(f) /\ inbox # << >>
  BY <1>4, <1>5, <1>6 DEF Ready
<1>9. f = data_socket => ~isTimer(f) /\ dialing # << >>
  BY <1>4, <1>5, <1>6 DEF Ready
<1>10. f = router_socket => Head(inbox) \in Neighbor
  BY <1>3, <1>8
<1> QED
  BY <1>1, <1>2, <1>3, <1>7, <1>8, <1>9, <1>10

(* A connection or timer x that a handler opens. *)
LEMMA OpensOne ==
  ASSUME TypeOK, RolesAgree, EachOnce, NEW x \in Object, Opens(x), ~Open(x),
         x[1] \in {"control", "in", "out"},
         UNCHANGED <<router_socket, data_socket, timer_val, isNeighbor>>,
         control_conn_list' = IF x[1] = "control"
                              THEN control_conn_list \cup {Lowest(held)}
                              ELSE control_conn_list
  PROVE  /\ RolesAgree'
         /\ held' \in [Fd -> Object] /\ master_list' \subseteq Fd /\ head_fd' \in Fd
         /\ control_conn_list' \subseteq Fd
         /\ \A f, g \in Fd : held'[f] = held'[g] /\ held'[f][1] # "free" => f = g
         /\ \A g \in Fd : held'[g] = held[g] \/ held'[g] = x
         /\ \A g \in Fd : held[g][1] # "free" => held'[g] = held[g]
<1>1. RolesAgree'
  <2>1. timer_val' = IF x[1] = "timer" THEN [timer_val EXCEPT ![x[2]] = Lowest(held)] ELSE timer_val
    OBVIOUS
  <2> QED
    BY <2>1, OpenedRoles
<1>2. /\ Lowest(held) \in Fd
      /\ held' \in [Fd -> Object] /\ master_list' \subseteq Fd /\ head_fd' \in Fd
  BY OpensFacts
<1>3. control_conn_list' \subseteq Fd
  BY <1>2 DEF TypeOK
<1> QED
  BY <1>1, <1>2, <1>3, OpenedOnce

LEMMA SelfTimerKeeps ==
  ASSUME IInv, Running, NEW f \in Fd, Handle(f), isSelfTimer(f), send_routing_updates
  PROVE  IInv'
<1>1. /\ TypeOK /\ RolesAgree /\ InitOnce /\ EachOnce /\ NothingBlocks /\ SilenceMeasured
      /\ fate' = fate /\ quiet' = quiet /\ watch_list' = watch_list \ {f}
      /\ watch_list' \subseteq Fd /\ heard' \subseteq Neighbor
      /\ watch_list' = {} \/ heard \subseteq heard'
  BY HandleFrame
<1>2. /\ left' = [left EXCEPT ![Self] = 1]
      /\ UNCHANGED <<tables, wires, inbox, dialing, readable>>
  BY DEF send_routing_updates
<1>3. UNCHANGED <<held, master_list, head_fd, control_conn_list, router_socket, data_socket,
                  timer_val, isNeighbor, backlog, requests, closed, announced>>
  BY <1>2 DEF tables, wires
<1>4. left \in [Router -> 0 .. Intervals] /\ Self \in Router /\ Self \notin Neighbor
      /\ Neighbor \subseteq Router /\ timer_val[Self] = f
  BY <1>1, NameAssumption DEF TypeOK, Router, isSelfTimer
<1>5. left' \in [Router -> 0 .. Intervals] /\ \A n \in Router : n # Self => left'[n] = left[n]
  BY <1>2, <1>4 DEF Intervals
<1>6. TypeOK'
  BY <1>1, <1>2, <1>3, <1>5 DEF TypeOK
<1>7. RolesAgree' /\ InitOnce' /\ EachOnce'
  <2>1. RolesAgree' /\ InitOnce'
    BY <1>1, <1>2, <1>3, SameRoles, SameInit
  <2>2. \A g, h \in Fd : held'[g] = held'[h] /\ held'[g][1] # "free" => g = h
    BY <1>1, <1>3 DEF EachOnce
  <2>3. dialing' = dialing
    BY <1>2
  <2>4. EachOnce'
    BY <1>1, <1>3, <2>2, <2>3, SameOnce
  <2> QED
    BY <2>1, <2>4
<1>8. NothingBlocks'
  BY <1>1, <1>2, <1>3, <1>4, <1>5, RoundGoesOn
<1>9. SilenceMeasured'
  BY <1>1, <1>2, <1>3, <1>4, <1>5, SameSilence
<1> QED
  BY <1>6, <1>7, <1>8, <1>9 DEF IInv, TablesOK

LEMMA CrashedKeeps ==
  ASSUME IInv, Running, NEW f \in Fd, Handle(f), isTimer(f), ~isSelfTimer(f),
         update_crashed_router(f)
  PROVE  IInv'
<1>1. /\ TypeOK /\ RolesAgree /\ InitOnce /\ EachOnce /\ NothingBlocks /\ SilenceMeasured
      /\ fate' = fate /\ quiet' = quiet /\ watch_list' = watch_list \ {f}
      /\ watch_list' \subseteq Fd /\ heard' \subseteq Neighbor
      /\ watch_list' = {} \/ heard \subseteq heard'
  BY HandleFrame
<1>2. /\ master_list' = master_list \ {f}
      /\ UNCHANGED <<held, head_fd, control_conn_list, router_socket, data_socket,
                     timer_val, left, backlog, requests, closed, announced, inbox,
                     dialing, readable>>
  BY DEF update_crashed_router, wires
<1>3. RolesAgree'
  BY <1>1, CrashedRoles
<1>4. PICK n \in Router : timer_val[n] = f /\ isNeighbor' = isNeighbor \ {n}
  BY <1>1, CrashedRoles
<1>5. TypeOK'
  BY <1>1, <1>2, <1>4 DEF TypeOK
<1>6. None \notin Fd /\ Neighbor \subseteq Router
  BY FdType DEF Router
<1>7. InitOnce'
  BY <1>1, <1>2, <1>4, <1>6 DEF InitOnce
<1>8. EachOnce'
  BY <1>1, <1>2, SameOnce DEF EachOnce
<1>9. NothingBlocks'
  BY <1>1, <1>2, RoundGoesOn
<1>10. SilenceMeasured'
  BY <1>1, <1>2, SameSilence
<1> QED
  BY <1>3, <1>5, <1>7, <1>8, <1>9, <1>10 DEF IInv, TablesOK

LEMMA ControlConnKeeps ==
  ASSUME IInv, Running, NEW f \in Fd, Handle(f), f = control_socket, new_control_conn
  PROVE  IInv'
<1>1. /\ TypeOK /\ RolesAgree /\ InitOnce /\ EachOnce /\ NothingBlocks /\ SilenceMeasured
      /\ fate' = fate /\ quiet' = quiet /\ watch_list' = watch_list \ {f}
      /\ watch_list' \subseteq Fd /\ heard' \subseteq Neighbor
      /\ watch_list' = {} \/ heard \subseteq heard'
      /\ backlog # << >>
  BY HandleFrame
<1> DEFINE c == Head(backlog)
           x == <<"control", c>>
<1>2. /\ backlog' = Tail(backlog) /\ Opens(x)
      /\ control_conn_list' = control_conn_list \cup {Lowest(held)}
      /\ UNCHANGED <<router_socket, data_socket, timer_val, isNeighbor, left,
                     requests, closed, announced, inbox, dialing, readable>>
  BY DEF new_control_conn
<1>3. backlog \in Seq(Controller)
  BY <1>1 DEF TypeOK
<1>4. /\ c \in Controller /\ backlog' \in Seq(Controller) /\ c = backlog[1] /\ 1 \in DOMAIN backlog
      /\ \A i \in DOMAIN backlog' : i + 1 \in DOMAIN backlog /\ backlog'[i] = backlog[i + 1]
                                     /\ i \in Nat /\ i >= 1
  BY <1>1, <1>2, <1>3
<1>5. x \in Object /\ ~Open(x) /\ x[1] = "control"
  BY <1>1, <1>4, ObjectKinds DEF EachOnce
<1> HIDE DEF c, x
<1>6. /\ RolesAgree'
      /\ held' \in [Fd -> Object] /\ master_list' \subseteq Fd /\ head_fd' \in Fd
      /\ control_conn_list' \subseteq Fd
      /\ \A g, h \in Fd : held'[g] = held'[h] /\ held'[g][1] # "free" => g = h
      /\ \A g \in Fd : held'[g] = held[g] \/ held'[g] = x
      /\ \A g \in Fd : held[g][1] # "free" => held'[g] = held[g]
  BY <1>1, <1>2, <1>5, OpensOne
<1>7. TypeOK'
  BY <1>1, <1>2, <1>4, <1>6 DEF TypeOK
<1>8. InitOnce'
  BY <1>1, <1>2, SameInit
<1>9. EachOnce'
  <2>1. \A i, j \in DOMAIN backlog' : backlog'[i] = backlog'[j] => i = j
    <3> SUFFICES ASSUME NEW i \in DOMAIN backlog', NEW j \in DOMAIN backlog',
                        backlog'[i] = backlog'[j]
                 PROVE  i = j
      OBVIOUS
    <3>1. i + 1 = j + 1
      BY <1>1, <1>4 DEF EachOnce
    <3> QED
      BY <1>4, <3>1
  <2>2. ASSUME NEW i \in DOMAIN backlog', NEW g \in Fd
        PROVE  held'[g] # <<"control", backlog'[i]>>
    <3>1. backlog'[i] # c
      <4>1. i + 1 # 1
        BY <1>4
      <4> QED
        BY <1>1, <1>4, <4>1 DEF EachOnce
    <3>2. held[g] # <<"control", backlog'[i]>>
      BY <1>1, <1>4 DEF EachOnce, Open
    <3> QED
      BY <1>6, <3>1, <3>2 DEF x
  <2>3. ASSUME NEW i \in DOMAIN dialing', NEW g \in Fd
        PROVE  held'[g] # <<"in", dialing'[i]>>
    <3>1. held[g] # <<"in", dialing'[i]>>
      BY <1>1, <1>2 DEF EachOnce, Open
    <3> QED
      BY <1>6, <3>1 DEF x
  <2> QED
    BY <1>1, <1>2, <1>6, <2>1, <2>2, <2>3 DEF EachOnce, Open
<1>10. NothingBlocks'
  BY <1>1, <1>2, <1>6, RoundGoesOn
<1>11. SilenceMeasured'
  BY <1>1, <1>2, SameSilence
<1> QED
  BY <1>6, <1>7, <1>8, <1>9, <1>10, <1>11 DEF IInv, TablesOK


LEMMA NewTimerKeeps ==
  ASSUME IInv, Running, NEW f \in Fd, Handle(f), f = router_socket, recv_router_update,
         NewTimer(Head(inbox))
  PROVE  IInv'
<1> DEFINE n == Head(inbox)
           x == <<"timer", n>>
           a == Lowest(held)
<1>1. /\ TypeOK /\ RolesAgree /\ InitOnce /\ EachOnce /\ NothingBlocks /\ SilenceMeasured
      /\ fate' = fate /\ quiet' = quiet /\ watch_list' = watch_list \ {f}
      /\ watch_list' \subseteq Fd /\ heard' \subseteq Neighbor
      /\ watch_list' = {} \/ heard \subseteq heard'
      /\ inbox # << >>
  BY HandleFrame
<1>2. /\ inbox' = Tail(inbox)
      /\ UNCHANGED <<backlog, requests, closed, announced, dialing, readable>>
  BY DEF recv_router_update, wires
<1>3. /\ timer_val[n] = None /\ Opens(x)
      /\ timer_val' = [timer_val EXCEPT ![n] = a]
      /\ left' = [left EXCEPT ![n] = Intervals]
      /\ UNCHANGED <<control_conn_list, router_socket, data_socket, isNeighbor>>
  BY DEF NewTimer
<1>4. inbox \in Seq(Neighbor) /\ quiet \in [Neighbor -> 0 .. Intervals]
      /\ timer_val \in [Router -> Fd \cup {None}] /\ left \in [Router -> 0 .. Intervals]
  BY <1>1 DEF TypeOK
<1>5. /\ n \in Neighbor /\ n \in Router /\ inbox' \in Seq(Neighbor)
      /\ \A i \in DOMAIN inbox : inbox[i] = n \/ (i - 1 \in DOMAIN inbox' /\ inbox'[i - 1] = inbox[i])
  BY <1>1, <1>2, <1>4 DEF Router
<1>6. None \notin Fd /\ Neighbor \subseteq Router /\ Self \notin Neighbor
  BY FdType, NameAssumption DEF Router
<1>7. n \in isNeighbor
  <2>1. router_socket # None
    BY <1>6
  <2> QED
    BY <1>1, <1>3, <1>5, <2>1 DEF InitOnce
<1>8. x \in Object /\ ~Open(x) /\ x[1] = "timer" /\ x[2] = n
  <2>1. \A g \in Fd : held[g] # x
    BY <1>1, <1>3, <1>5, <1>6 DEF RolesAgree
  <2> QED
    BY <1>5, <2>1, ObjectKinds DEF Open
<1> HIDE DEF n, x
<1>9. RolesAgree'
  <2>1. timer_val' = IF x[1] = "timer" THEN [timer_val EXCEPT ![x[2]] = Lowest(held)] ELSE timer_val
    BY <1>3, <1>8 DEF a
  <2>2. x[1] = "timer" => x[2] \in isNeighbor /\ timer_val[x[2]] = None
    BY <1>3, <1>7, <1>8
  <2>3. control_conn_list' = IF x[1] = "control" THEN control_conn_list \cup {Lowest(held)}
                             ELSE control_conn_list
    BY <1>3, <1>8
  <2> QED
    BY <1>1, <1>3, <1>8, <2>1, <2>2, <2>3, OpenedRoles
<1>10. /\ a \in Fd /\ held' \in [Fd -> Object] /\ master_list' \subseteq Fd /\ head_fd' \in Fd
  BY <1>1, <1>3, <1>8, OpensFacts
<1>11. /\ \A g, h \in Fd : held'[g] = held'[h] /\ held'[g][1] # "free" => g = h
       /\ \A g \in Fd : held'[g] = held[g] \/ held'[g] = x
       /\ \A g \in Fd : held[g][1] # "free" => held'[g] = held[g]
  BY <1>1, <1>3, <1>8, OpenedOnce
<1> HIDE DEF a
<1>12. /\ timer_val' \in [Router -> Fd \cup {None}] /\ left' \in [Router -> 0 .. Intervals]
       /\ left'[n] = Intervals /\ timer_val'[n] = a
       /\ \A m \in Router : m # n => left'[m] = left[m] /\ timer_val'[m] = timer_val[m]
  BY <1>3, <1>4, <1>5, <1>10 DEF Intervals
<1>13. TypeOK'
  BY <1>1, <1>2, <1>3, <1>5, <1>10, <1>12 DEF TypeOK
<1>14. InitOnce'
  <2>1. router_socket' # None /\ router_socket # None
    BY <1>3, <1>6
  <2>2. announced /\ ~(\E c \in Controller : requests[c] = "INIT")
    BY <1>1, <2>1 DEF InitOnce
  <2>3. \A m \in Neighbor \ isNeighbor : timer_val'[m] # None
    BY <1>1, <1>6, <1>7, <1>12, <2>1 DEF InitOnce
  <2> QED
    BY <1>2, <1>3, <2>2, <2>3 DEF InitOnce
<1>15. EachOnce'
  <2>1. \A g \in Fd : held'[g] = held[g] \/ held'[g][1] \notin {"control", "in"}
    BY <1>8, <1>11
  <2> QED
    BY <1>1, <1>2, <1>11, <2>1, SameOnce
<1>16. NothingBlocks'
  <2>1. \A m \in Router : timer_val[m] # None => timer_val'[m] = timer_val[m]
    BY <1>3, <1>12
  <2>2. \A m \in Router : timer_val[m] \notin {None, f} /\ left[m] = 0 =>
                             left'[m] = 0 \/ watch_list' = {} \/ m \in heard'
    BY <1>3, <1>12
  <2> QED
    BY <1>1, <1>2, <1>11, <2>1, <2>2, RoundGoesOn
<1>17. SilenceMeasured'
  <2> SUFFICES ASSUME NEW m \in Neighbor, Running', timer_val'[m] # None, ~Waits(m)'
               PROVE  quiet'[m] + left'[m] >= Intervals
    BY DEF SilenceMeasured
  <2>1. CASE m = n
    <3>1. left'[m] = Intervals
      BY <1>12, <2>1
    <3>2. quiet'[m] \in 0 .. Intervals
      BY <1>1, <1>4
    <3> QED
      BY <3>1, <3>2 DEF Intervals
  <2>2. CASE m # n
    <3>1. ~Waits(m)
      BY <1>5, <2>2 DEF Waits
    <3>2. timer_val[m] # None /\ left'[m] = left[m]
      BY <1>6, <1>12, <2>2
    <3> QED
      BY <1>1, <3>1, <3>2 DEF SilenceMeasured, Running
  <2> QED
    BY <2>1, <2>2
<1> QED
  BY <1>9, <1>13, <1>14, <1>15, <1>16, <1>17 DEF IInv, TablesOK

LEMMA SetTimerKeeps ==
  ASSUME IInv, Running, NEW f \in Fd, Handle(f), f = router_socket, recv_router_update,
         SetTimer(Head(inbox))
  PROVE  IInv'
<1> DEFINE n == Head(inbox)
<1>1. /\ TypeOK /\ RolesAgree /\ InitOnce /\ EachOnce /\ NothingBlocks /\ SilenceMeasured
      /\ fate' = fate /\ quiet' = quiet /\ watch_list' = watch_list \ {f}
      /\ watch_list' \subseteq Fd /\ heard' \subseteq Neighbor
      /\ watch_list' = {} \/ heard \subseteq heard'
      /\ watch_list' = {} \/ n \in heard'
      /\ inbox # << >>
  BY HandleFrame
<1>2. /\ inbox' = Tail(inbox)
      /\ UNCHANGED <<backlog, requests, closed, announced, dialing, readable>>
  BY DEF recv_router_update, wires
<1>3. /\ left' = [left EXCEPT ![n] = Intervals]
      /\ UNCHANGED <<held, master_list, head_fd, control_conn_list, router_socket, data_socket,
                     timer_val, isNeighbor>>
  BY DEF SetTimer, tables
<1>4. inbox \in Seq(Neighbor) /\ quiet \in [Neighbor -> 0 .. Intervals]
      /\ left \in [Router -> 0 .. Intervals]
  BY <1>1 DEF TypeOK
<1>5. /\ n \in Neighbor /\ n \in Router /\ inbox' \in Seq(Neighbor)
      /\ \A i \in DOMAIN inbox : inbox[i] = n \/ (i - 1 \in DOMAIN inbox' /\ inbox'[i - 1] = inbox[i])
  BY <1>1, <1>2, <1>4 DEF Router
<1> HIDE DEF n
<1>6. /\ left' \in [Router -> 0 .. Intervals] /\ left'[n] = Intervals
      /\ \A m \in Router : m # n => left'[m] = left[m]
  BY <1>3, <1>4, <1>5 DEF Intervals
<1>7. TypeOK'
  BY <1>1, <1>2, <1>3, <1>5, <1>6 DEF TypeOK
<1>8. RolesAgree' /\ InitOnce'
  BY <1>1, <1>2, <1>3, SameRoles, SameInit DEF tables
<1>9. EachOnce'
  <2>1. \A g, h \in Fd : held'[g] = held'[h] /\ held'[g][1] # "free" => g = h
    BY <1>1, <1>3 DEF EachOnce
  <2> QED
    BY <1>1, <1>2, <1>3, <2>1, SameOnce
<1>10. NothingBlocks'
  <2>1. \A m \in Router : timer_val[m] \notin {None, f} /\ left[m] = 0 =>
                             left'[m] = 0 \/ watch_list' = {} \/ m \in heard'
    BY <1>1, <1>6
  <2> QED
    BY <1>1, <1>2, <1>3, <2>1, RoundGoesOn
<1>11. SilenceMeasured'
  <2> SUFFICES ASSUME NEW m \in Neighbor, Running', timer_val'[m] # None, ~Waits(m)'
               PROVE  quiet'[m] + left'[m] >= Intervals
    BY DEF SilenceMeasured
  <2>1. CASE m = n
    BY <1>1, <1>4, <1>6, <2>1 DEF Intervals
  <2>2. CASE m # n
    <3>1. ~Waits(m)
      BY <1>5, <2>2 DEF Waits
    <3>2. timer_val[m] # None /\ left'[m] = left[m]
      BY <1>3, <1>6, <2>2 DEF Router
    <3> QED
      BY <1>1, <3>1, <3>2 DEF SilenceMeasured, Running
  <2> QED
    BY <2>1, <2>2
<1> QED
  BY <1>7, <1>8, <1>9, <1>10, <1>11 DEF IInv, TablesOK

LEMMA DataConnKeeps ==
  ASSUME IInv, Running, NEW f \in Fd, Handle(f), f = data_socket, new_data_conn
  PROVE  IInv'
<1>1. /\ TypeOK /\ RolesAgree /\ InitOnce /\ EachOnce /\ NothingBlocks /\ SilenceMeasured
      /\ fate' = fate /\ quiet' = quiet /\ watch_list' = watch_list \ {f}
      /\ watch_list' \subseteq Fd /\ heard' \subseteq Neighbor
      /\ watch_list' = {} \/ heard \subseteq heard'
      /\ dialing # << >>
  BY HandleFrame
<1> DEFINE p == Head(dialing)
           x == <<"in", p>>
<1>2. /\ dialing' = Tail(dialing) /\ Opens(x)
      /\ UNCHANGED <<control_conn_list, router_socket, data_socket, timer_val, isNeighbor, left,
                     backlog, requests, closed, announced, inbox, readable>>
  BY DEF new_data_conn, wires
<1>3. dialing \in Seq(Peers)
  BY <1>1 DEF TypeOK
<1>4. /\ p \in Peers /\ dialing' \in Seq(Peers) /\ p = dialing[1] /\ 1 \in DOMAIN dialing
      /\ \A i \in DOMAIN dialing' : i + 1 \in DOMAIN dialing /\ dialing'[i] = dialing[i + 1]
                                     /\ i \in Nat /\ i >= 1
  BY <1>1, <1>2, <1>3
<1>5. x \in Object /\ ~Open(x) /\ x[1] = "in"
  BY <1>1, <1>4, ObjectKinds DEF EachOnce
<1> HIDE DEF p, x
<1>6. /\ RolesAgree'
      /\ held' \in [Fd -> Object] /\ master_list' \subseteq Fd /\ head_fd' \in Fd
      /\ control_conn_list' \subseteq Fd
      /\ \A g, h \in Fd : held'[g] = held'[h] /\ held'[g][1] # "free" => g = h
      /\ \A g \in Fd : held'[g] = held[g] \/ held'[g] = x
      /\ \A g \in Fd : held[g][1] # "free" => held'[g] = held[g]
  BY <1>1, <1>2, <1>5, OpensOne
<1>7. TypeOK'
  BY <1>1, <1>2, <1>4, <1>6 DEF TypeOK
<1>8. InitOnce'
  BY <1>1, <1>2, SameInit
<1>9. EachOnce'
  <2>1. \A i, j \in DOMAIN dialing' : dialing'[i] = dialing'[j] => i = j
    <3> SUFFICES ASSUME NEW i \in DOMAIN dialing', NEW j \in DOMAIN dialing',
                        dialing'[i] = dialing'[j]
                 PROVE  i = j
      OBVIOUS
    <3>1. i + 1 = j + 1
      BY <1>1, <1>4 DEF EachOnce
    <3> QED
      BY <1>4, <3>1
  <2>2. ASSUME NEW i \in DOMAIN dialing', NEW g \in Fd
        PROVE  held'[g] # <<"in", dialing'[i]>>
    <3>1. dialing'[i] # p
      <4>1. i + 1 # 1
        BY <1>4
      <4> QED
        BY <1>1, <1>4, <4>1 DEF EachOnce
    <3>2. held[g] # <<"in", dialing'[i]>>
      BY <1>1, <1>4 DEF EachOnce, Open
    <3> QED
      BY <1>6, <3>1, <3>2 DEF x
  <2>3. ASSUME NEW i \in DOMAIN backlog', NEW g \in Fd
        PROVE  held'[g] # <<"control", backlog'[i]>>
    <3>1. held[g] # <<"control", backlog'[i]>>
      BY <1>1, <1>2 DEF EachOnce, Open
    <3> QED
      BY <1>6, <3>1 DEF x
  <2> QED
    BY <1>1, <1>2, <1>6, <2>1, <2>2, <2>3 DEF EachOnce, Open
<1>10. NothingBlocks'
  BY <1>1, <1>2, <1>6, RoundGoesOn
<1>11. SilenceMeasured'
  BY <1>1, <1>2, SameSilence
<1> QED
  BY <1>6, <1>7, <1>8, <1>9, <1>10, <1>11 DEF IInv, TablesOK


(* What a handler that may open a connection to n leaves behind. *)
LEMMA ConnectsFacts ==
  ASSUME TypeOK, RolesAgree, EachOnce,
         UNCHANGED tables \/ \E n \in Peers : connect_to_router(n)
  PROVE  /\ RolesAgree'
         /\ held' \in [Fd -> Object] /\ master_list' \subseteq Fd /\ head_fd' \in Fd
         /\ \A f, g \in Fd : held'[f] = held'[g] /\ held'[f][1] # "free" => f = g
         /\ \A g \in Fd : held'[g] = held[g] \/ held'[g][1] \notin {"control", "in"}
         /\ \A g \in Fd : held[g][1] # "free" => held'[g] = held[g]
         /\ UNCHANGED <<control_conn_list, router_socket, data_socket, timer_val, isNeighbor>>
<1>1. CASE UNCHANGED tables
  <2>1. RolesAgree'
    BY <1>1, SameRoles
  <2>2. UNCHANGED <<held, master_list, head_fd, control_conn_list, router_socket, data_socket,
                    timer_val, isNeighbor>>
    BY <1>1 DEF tables
  <2> QED
    BY <2>1, <2>2 DEF TypeOK, EachOnce
<1>2. ASSUME NEW n \in Peers, connect_to_router(n), ~UNCHANGED tables
      PROVE  /\ RolesAgree'
             /\ held' \in [Fd -> Object] /\ master_list' \subseteq Fd /\ head_fd' \in Fd
             /\ \A f, g \in Fd : held'[f] = held'[g] /\ held'[f][1] # "free" => f = g
             /\ \A g \in Fd : held'[g] = held[g] \/ held'[g][1] \notin {"control", "in"}
             /\ \A g \in Fd : held[g][1] # "free" => held'[g] = held[g]
             /\ UNCHANGED <<control_conn_list, router_socket, data_socket, timer_val, isNeighbor>>
  <2> DEFINE x == <<"out", n>>
  <2>1. /\ ~Open(x) /\ Opens(x)
        /\ UNCHANGED <<control_conn_list, router_socket, data_socket, timer_val, isNeighbor>>
    BY <1>2 DEF connect_to_router
  <2>2. x \in Object /\ x[1] = "out"
    BY ObjectKinds
  <2> HIDE DEF x
  <2>3. /\ RolesAgree'
        /\ held' \in [Fd -> Object] /\ master_list' \subseteq Fd /\ head_fd' \in Fd
        /\ \A f, g \in Fd : held'[f] = held'[g] /\ held'[f][1] # "free" => f = g
        /\ \A g \in Fd : held'[g] = held[g] \/ held'[g] = x
        /\ \A g \in Fd : held[g][1] # "free" => held'[g] = held[g]
    BY <2>1, <2>2, OpensOne
  <2>4. \A g \in Fd : held'[g] = held[g] \/ held'[g][1] \notin {"control", "in"}
    BY <2>2, <2>3
  <2> QED
    BY <2>1, <2>3, <2>4
<1> QED
  BY <1>1, <1>2

LEMMA DataPacketKeeps ==
  ASSUME IInv, Running, NEW f \in Fd, Handle(f), ~isTimer(f), ~isControl(f),
         f \notin {control_socket, router_socket, data_socket}, process_data_packet(f)
  PROVE  IInv'
<1>1. /\ TypeOK /\ RolesAgree /\ InitOnce /\ EachOnce /\ NothingBlocks /\ SilenceMeasured
      /\ fate' = fate /\ quiet' = quiet /\ watch_list' = watch_list \ {f}
      /\ watch_list' \subseteq Fd /\ heard' \subseteq Neighbor
      /\ watch_list' = {} \/ heard \subseteq heard'
  BY HandleFrame
<1>2. /\ readable' = readable \ {held[f]}
      /\ UNCHANGED tables \/ \E n \in Peers : connect_to_router(n)
      /\ UNCHANGED <<left, backlog, requests, closed, announced, inbox, dialing>>
  BY DEF process_data_packet, wires
<1>3. /\ RolesAgree'
      /\ held' \in [Fd -> Object] /\ master_list' \subseteq Fd /\ head_fd' \in Fd
      /\ \A g, h \in Fd : held'[g] = held'[h] /\ held'[g][1] # "free" => g = h
      /\ \A g \in Fd : held'[g] = held[g] \/ held'[g][1] \notin {"control", "in"}
      /\ \A g \in Fd : held[g][1] # "free" => held'[g] = held[g]
      /\ UNCHANGED <<control_conn_list, router_socket, data_socket, timer_val, isNeighbor>>
  BY <1>1, <1>2, ConnectsFacts
<1>4. TypeOK'
  BY <1>1, <1>2, <1>3 DEF TypeOK
<1>5. InitOnce'
  BY <1>1, <1>2, <1>3, SameInit
<1>6. EachOnce'
  BY <1>1, <1>2, <1>3, SameOnce
<1>7. NothingBlocks'
  <2>1. \A g \in Fd \ {f} : held[g][1] \in {"in", "out"} =>
            (held[g] \in readable => held[g] \in readable')
    BY <1>1, <1>2 DEF EachOnce
  <2> QED
    BY <1>1, <1>2, <1>3, <2>1, RoundGoesOn
<1>8. SilenceMeasured'
  BY <1>1, <1>2, <1>3, SameSilence DEF Router
<1> QED
  BY <1>3, <1>4, <1>5, <1>6, <1>7, <1>8 DEF IInv, TablesOK

(* Reading f's request changes nothing for the other connections. *)
LEMMA RequestRead ==
  ASSUME TypeOK, RolesAgree, EachOnce, NEW f \in Fd, isControl(f),
         requests' = [requests EXCEPT ![held[f][2]] = "none"],
         closed' = closed \/ closed' = closed \ {held[f][2]}
  PROVE  /\ held[f][1] = "control" /\ held[f][2] \in Controller
         /\ f \notin {control_socket, router_socket, data_socket}
         /\ requests' \in [Controller -> Request \cup {"none"}] /\ closed' \subseteq Controller
         /\ requests'[held[f][2]] = "none"
         /\ \A d \in Controller : requests'[d] = "INIT" => requests[d] = "INIT"
         /\ \A g \in Fd \ {f} : held[g][1] = "control" =>
              (requests[held[g][2]] # "none" \/ held[g][2] \in closed =>
                 requests'[held[g][2]] # "none" \/ held[g][2] \in closed')
<1>1. held[f][1] = "control"
  BY DEF RolesAgree, isControl
<1>2. held \in [Fd -> Object] /\ requests \in [Controller -> Request \cup {"none"}]
      /\ closed \subseteq Controller
  BY DEF TypeOK
<1>3. PICK c \in Controller : c = held[f][2] /\ held[f] = <<"control", c>>
  BY <1>1, <1>2, ObjectKinds
<1>4. f \notin {control_socket, router_socket, data_socket}
  BY <1>1 DEF RolesAgree
<1>5. /\ requests' \in [Controller -> Request \cup {"none"}] /\ closed' \subseteq Controller
      /\ requests'[c] = "none"
      /\ \A d \in Controller : d # c => requests'[d] = requests[d]
  BY <1>2, <1>3
<1>6. ASSUME NEW g \in Fd \ {f}, held[g][1] = "control",
             requests[held[g][2]] # "none" \/ held[g][2] \in closed
      PROVE  requests'[held[g][2]] # "none" \/ held[g][2] \in closed'
  <2>1. PICK d \in Controller : d = held[g][2] /\ held[g] = <<"control", d>>
    BY <1>2, <1>6, ObjectKinds
  <2>2. d # c
    BY <1>3, <1>6, <2>1 DEF EachOnce
  <2> QED
    BY <1>3, <1>5, <1>6, <2>1, <2>2
<1> QED
  BY <1>1, <1>3, <1>4, <1>5, <1>6

LEMMA RequestKeeps ==
  ASSUME IInv, Running, NEW f \in Fd, Handle(f), isControl(f),
         requests' = [requests EXCEPT ![held[f][2]] = "none"],
         UNCHANGED tables \/ \E n \in Peers : connect_to_router(n),
         UNCHANGED <<left, closed, backlog, announced, inbox, dialing, readable>>
  PROVE  IInv'
<1>1. /\ TypeOK /\ RolesAgree /\ InitOnce /\ EachOnce /\ NothingBlocks /\ SilenceMeasured
      /\ fate' = fate /\ quiet' = quiet /\ watch_list' = watch_list \ {f}
      /\ watch_list' \subseteq Fd /\ heard' \subseteq Neighbor
      /\ watch_list' = {} \/ heard \subseteq heard'
  BY HandleFrame
<1>2. /\ RolesAgree'
      /\ held' \in [Fd -> Object] /\ master_list' \subseteq Fd /\ head_fd' \in Fd
      /\ \A g, h \in Fd : held'[g] = held'[h] /\ held'[g][1] # "free" => g = h
      /\ \A g \in Fd : held'[g] = held[g] \/ held'[g][1] \notin {"control", "in"}
      /\ \A g \in Fd : held[g][1] # "free" => held'[g] = held[g]
      /\ UNCHANGED <<control_conn_list, router_socket, data_socket, timer_val, isNeighbor>>
  BY <1>1, ConnectsFacts
<1>3. /\ requests' \in [Controller -> Request \cup {"none"}]
      /\ \A d \in Controller : requests'[d] = "INIT" => requests[d] = "INIT"
      /\ \A g \in Fd \ {f} : held[g][1] = "control" =>
           (requests[held[g][2]] # "none" \/ held[g][2] \in closed =>
              requests'[held[g][2]] # "none" \/ held[g][2] \in closed')
  BY <1>1, RequestRead
<1>4. TypeOK'
  BY <1>1, <1>2, <1>3 DEF TypeOK
<1>5. InitOnce'
  BY <1>1, <1>2, <1>3 DEF InitOnce
<1>6. EachOnce'
  BY <1>1, <1>2, SameOnce
<1>7. NothingBlocks'
  BY <1>1, <1>2, <1>3, RoundGoesOn
<1>8. SilenceMeasured'
  BY <1>1, <1>2, SameSilence
<1> QED
  BY <1>2, <1>4, <1>5, <1>6, <1>7, <1>8 DEF IInv, TablesOK

LEMMA RemoveKeeps ==
  ASSUME IInv, Running, NEW f \in Fd, Handle(f), isControl(f),
         requests' = [requests EXCEPT ![held[f][2]] = "none"],
         remove_control_conn(f),
         UNCHANGED <<backlog, announced, inbox, dialing, readable>>
  PROVE  IInv'
<1>1. /\ TypeOK /\ RolesAgree /\ InitOnce /\ EachOnce /\ NothingBlocks /\ SilenceMeasured
      /\ fate' = fate /\ quiet' = quiet /\ watch_list' = watch_list \ {f}
      /\ watch_list' \subseteq Fd /\ heard' \subseteq Neighbor
      /\ watch_list' = {} \/ heard \subseteq heard'
  BY HandleFrame
<1>2. RolesAgree' /\ held' \in [Fd -> Object] /\ held[f][1] = "control"
  BY <1>1, RemovedRoles
<1>3. /\ control_conn_list' = control_conn_list \ {f}
      /\ held' = [held EXCEPT ![f] = Unused] /\ master_list' = master_list \ {f}
      /\ closed' = closed \ {held[f][2]}
      /\ UNCHANGED <<head_fd, router_socket, data_socket, timer_val, isNeighbor, left>>
  BY DEF remove_control_conn
<1>4. held \in [Fd -> Object]
  BY <1>1 DEF TypeOK
<1>5. held'[f] = Unused /\ \A g \in Fd : g # f => held'[g] = held[g]
  BY <1>3, <1>4
<1>6. /\ requests' \in [Controller -> Request \cup {"none"}] /\ closed' \subseteq Controller
      /\ \A d \in Controller : requests'[d] = "INIT" => requests[d] = "INIT"
      /\ \A g \in Fd \ {f} : held[g][1] = "control" =>
           (requests[held[g][2]] # "none" \/ held[g][2] \in closed =>
              requests'[held[g][2]] # "none" \/ held[g][2] \in closed')
  BY <1>1, <1>3, RequestRead
<1>7. TypeOK'
  BY <1>1, <1>2, <1>3, <1>6 DEF TypeOK
<1>8. InitOnce'
  BY <1>1, <1>3, <1>6 DEF InitOnce
<1>9. EachOnce'
  <2>1. \A g, h \in Fd : held'[g] = held'[h] /\ held'[g][1] # "free" => g = h
    BY <1>1, <1>5 DEF EachOnce, Unused
  <2>2. \A g \in Fd : held'[g] = held[g] \/ held'[g][1] \notin {"control", "in"}
    BY <1>5 DEF Unused
  <2> QED
    BY <1>1, <2>1, <2>2, SameOnce
<1>10. NothingBlocks'
  BY <1>1, <1>3, <1>5, <1>6, RoundGoesOn
<1>11. SilenceMeasured'
  BY <1>1, <1>3, SameSilence
<1> QED
  BY <1>2, <1>7, <1>8, <1>9, <1>10, <1>11 DEF IInv, TablesOK

LEMMA InitKeeps ==
  ASSUME IInv, Running, NEW f \in Fd, Handle(f), isControl(f),
         requests' = [requests EXCEPT ![held[f][2]] = "none"],
         requests[held[f][2]] = "INIT", init_handler,
         UNCHANGED <<closed, backlog, announced, inbox, dialing, readable>>
  PROVE  IInv'
<1>1. /\ TypeOK /\ RolesAgree /\ InitOnce /\ EachOnce /\ NothingBlocks /\ SilenceMeasured
      /\ fate' = fate /\ quiet' = quiet /\ watch_list' = watch_list \ {f}
      /\ watch_list' \subseteq Fd /\ heard' \subseteq Neighbor
      /\ watch_list' = {} \/ heard \subseteq heard'
  BY HandleFrame
<1>2. /\ held[f][2] \in Controller /\ requests'[held[f][2]] = "none"
      /\ requests' \in [Controller -> Request \cup {"none"}]
      /\ \A d \in Controller : requests'[d] = "INIT" => requests[d] = "INIT"
      /\ \A g \in Fd \ {f} : held[g][1] = "control" =>
           (requests[held[g][2]] # "none" \/ held[g][2] \in closed =>
              requests'[held[g][2]] # "none" \/ held[g][2] \in closed')
  BY <1>1, RequestRead
<1>3. /\ announced /\ \A d \in Controller : requests[d] = "INIT" => d = held[f][2]
      /\ router_socket = None /\ data_socket = None /\ \A n \in Router : timer_val[n] = None
  BY <1>1, <1>2 DEF InitOnce
<1>4. /\ RolesAgree'
      /\ \A g, h \in Fd : held'[g] = held'[h] /\ held'[g][1] # "free" => g = h
      /\ \A g \in Fd : held'[g] = held[g] \/ held'[g][1] \notin {"control", "in"}
      /\ \A g \in Fd : held[g][1] # "free" => held'[g] = held[g]
      /\ held' \in [Fd -> Object] /\ master_list' \subseteq Fd /\ head_fd' \in Fd
      /\ router_socket' \in Fd /\ data_socket' \in Fd
      /\ timer_val' \in [Router -> Fd \cup {None}]
      /\ \A n \in Neighbor : timer_val'[n] = None
  BY <1>1, <1>3, InitRoles
<1>5. left' = [left EXCEPT ![Self] = 1] /\ isNeighbor' = Neighbor /\ UNCHANGED control_conn_list
  BY DEF init_handler
<1>6. left \in [Router -> 0 .. Intervals] /\ 1 \in 0 .. Intervals
  BY <1>1 DEF TypeOK, Intervals
<1>7. left' \in [Router -> 0 .. Intervals]
  BY <1>5, <1>6
<1>8. TypeOK'
  BY <1>1, <1>2, <1>4, <1>5, <1>7 DEF TypeOK
<1>9. InitOnce'
  <2>1. \A d \in Controller : requests'[d] # "INIT"
    BY <1>2, <1>3
  <2> QED
    BY <1>3, <1>5, <2>1 DEF InitOnce
<1>10. EachOnce'
  BY <1>1, <1>4, SameOnce
<1>11. NothingBlocks'
  BY <1>1, <1>2, <1>3, <1>4, RoundGoesOn
<1>12. SilenceMeasured'
  BY <1>4 DEF SilenceMeasured
<1> QED
  BY <1>4, <1>8, <1>9, <1>10, <1>11, <1>12 DEF IInv, TablesOK


LEMMA HandleKeeps ==
  ASSUME IInv, Running, NEW f \in Fd, Handle(f)
  PROVE  IInv'
<1>1. Handler(f)
  BY DEF Handle
<1>2. CASE isTimer(f) /\ isSelfTimer(f) /\ send_routing_updates
  BY <1>2, SelfTimerKeeps
<1>3. CASE isTimer(f) /\ ~isSelfTimer(f) /\ update_crashed_router(f)
  BY <1>3, CrashedKeeps
<1>4. CASE f = control_socket /\ new_control_conn
  BY <1>4, ControlConnKeeps
<1>5. CASE f = router_socket /\ recv_router_update
  <2>1. NewTimer(Head(inbox)) \/ SetTimer(Head(inbox))
    BY <1>5 DEF recv_router_update
  <2> QED
    BY <1>5, <2>1, NewTimerKeeps, SetTimerKeeps
<1>6. CASE f = data_socket /\ new_data_conn
  BY <1>6, DataConnKeeps
<1>7. CASE isControl(f) /\ control_recv_hook(f)
  <2>1. /\ requests' = [requests EXCEPT ![held[f][2]] = "none"]
        /\ UNCHANGED <<backlog, announced, inbox, dialing, readable>>
        /\ \/ remove_control_conn(f)
           \/ requests[held[f][2]] = "INIT" /\ init_handler /\ UNCHANGED closed
           \/ (\E n \in Peers : connect_to_router(n)) /\ UNCHANGED <<left, closed>>
           \/ UNCHANGED <<tables, left, closed>>
    BY <1>7 DEF control_recv_hook
  <2>2. CASE remove_control_conn(f)
    BY <1>7, <2>1, <2>2, RemoveKeeps
  <2>3. CASE requests[held[f][2]] = "INIT" /\ init_handler /\ UNCHANGED closed
    BY <1>7, <2>1, <2>3, InitKeeps
  <2>4. CASE (\E n \in Peers : connect_to_router(n)) /\ UNCHANGED <<left, closed>>
    BY <1>7, <2>1, <2>4, RequestKeeps
  <2>5. CASE UNCHANGED <<tables, left, closed>>
    BY <1>7, <2>1, <2>5, RequestKeeps
  <2> QED
    BY <2>1, <2>2, <2>3, <2>4, <2>5
<1>8. CASE /\ ~isTimer(f) /\ ~isControl(f)
           /\ f \notin {control_socket, router_socket, data_socket} /\ process_data_packet(f)
  BY <1>8, DataPacketKeeps
<1> QED
  BY <1>1, <1>2, <1>3, <1>4, <1>5, <1>6, <1>7, <1>8 DEF Handler

-----------------------------------------------------------------------------
(* The other steps *)

LEMMA SelectKeeps ==
  ASSUME IInv, Select
  PROVE  IInv'
<1>1. TypeOK /\ RolesAgree /\ InitOnce /\ EachOnce /\ NothingBlocks /\ SilenceMeasured
  BY DEF IInv, TablesOK
<1>2. /\ watch_list' = {f \in master_list : f <= head_fd /\ Ready(f)}
      /\ UNCHANGED <<fate, tables, wires, peers, left, heard, quiet>>
  BY DEF Select
<1>3. UNCHANGED <<fate, held, master_list, head_fd, control_conn_list, router_socket,
                  data_socket, timer_val, isNeighbor, backlog, requests, closed, announced,
                  inbox, dialing, readable, left, heard, quiet>>
  BY <1>2 DEF tables, wires, peers
<1>4. TypeOK'
  BY <1>1, <1>2, <1>3 DEF TypeOK
<1>5. RolesAgree' /\ InitOnce' /\ EachOnce'
  BY <1>1, <1>2, <1>3, SameRoles, SameInit, SameOnce DEF EachOnce
<1>6. NothingBlocks'
  BY <1>2, <1>3 DEF NothingBlocks, Ready
<1>7. SilenceMeasured'
  BY <1>1, <1>3, SameSilence
<1> QED
  BY <1>4, <1>5, <1>6, <1>7 DEF IInv, TablesOK

LEMMA StopKeeps ==
  ASSUME IInv, NEW f \in Fd, Stop(f)
  PROVE  IInv'
<1>1. TypeOK /\ RolesAgree /\ InitOnce /\ EachOnce
  BY DEF IInv, TablesOK
<1>2. /\ fate' \in {"exited", "hung"}
      /\ UNCHANGED <<tables, watch_list, wires, peers, left, heard, quiet>>
  BY DEF Stop
<1>3. UNCHANGED <<held, master_list, head_fd, control_conn_list, router_socket,
                  data_socket, timer_val, isNeighbor, backlog, requests, closed, announced,
                  inbox, dialing, readable, watch_list, left, heard, quiet>>
  BY <1>2 DEF tables, wires, peers
<1>4. TypeOK'
  BY <1>1, <1>2, <1>3 DEF TypeOK
<1>5. RolesAgree' /\ InitOnce' /\ EachOnce'
  BY <1>1, <1>2, <1>3, SameRoles, SameInit, SameOnce DEF EachOnce
<1>6. NothingBlocks' /\ SilenceMeasured'
  BY <1>2 DEF NothingBlocks, SilenceMeasured, Running
<1> QED
  BY <1>4, <1>5, <1>6 DEF IInv, TablesOK

LEMMA TickKeeps ==
  ASSUME IInv, Tick
  PROVE  IInv'
<1>1. TypeOK /\ RolesAgree /\ InitOnce /\ EachOnce /\ NothingBlocks /\ SilenceMeasured
  BY DEF IInv, TablesOK
<1>2. /\ left' = [n \in Router |-> Lower(left[n])]
      /\ quiet' = [n \in Neighbor |-> Higher(quiet[n])]
      /\ UNCHANGED <<fate, tables, watch_list, wires, peers, heard>>
  BY DEF Tick
<1>3. UNCHANGED <<fate, held, master_list, head_fd, control_conn_list, router_socket,
                  data_socket, timer_val, isNeighbor, backlog, requests, closed, announced,
                  inbox, dialing, readable, watch_list, heard>>
  BY <1>2 DEF tables, wires, peers
<1>4. left \in [Router -> 0 .. Intervals] /\ quiet \in [Neighbor -> 0 .. Intervals]
      /\ Neighbor \subseteq Router /\ watch_list \subseteq Fd
  BY <1>1 DEF TypeOK, Router
<1>5. left' \in [Router -> 0 .. Intervals] /\ quiet' \in [Neighbor -> 0 .. Intervals]
  BY <1>2, <1>4 DEF Lower, Higher, Intervals
<1>6. TypeOK'
  BY <1>1, <1>3, <1>5 DEF TypeOK
<1>7. RolesAgree' /\ InitOnce' /\ EachOnce'
  BY <1>1, <1>2, <1>3, SameRoles, SameInit, SameOnce DEF EachOnce
<1>8. NothingBlocks'
  <2>1. \A n \in Router : left[n] = 0 => left'[n] = 0
    BY <1>2, <1>4 DEF Lower
  <2>2. None \notin Fd
    BY FdType
  <2>3. watch_list' = watch_list \ {None}
    BY <1>3, <1>4, <2>2
  <2> QED
    BY <1>1, <1>3, <2>1, <2>3, RoundGoesOn
<1>9. SilenceMeasured'
  <2> SUFFICES ASSUME NEW n \in Neighbor, Running', timer_val'[n] # None, ~Waits(n)'
               PROVE  quiet'[n] + left'[n] >= Intervals
    BY DEF SilenceMeasured
  <2>1. quiet[n] + left[n] >= Intervals
    BY <1>1, <1>3 DEF SilenceMeasured, Running, Waits
  <2>2. /\ quiet'[n] = IF quiet[n] = Intervals THEN Intervals ELSE quiet[n] + 1
        /\ left'[n] = IF left[n] = 0 THEN 0 ELSE left[n] - 1
    BY <1>2, <1>4 DEF Lower, Higher
  <2> QED
    BY <1>4, <2>1, <2>2 DEF Intervals
<1> QED
  BY <1>6, <1>7, <1>8, <1>9 DEF IInv, TablesOK

(* Something arrives: connections, requests, updates, packets. *)
LEMMA AroundKeeps ==
  ASSUME IInv, Around
  PROVE  IInv'
<1>1. TypeOK /\ RolesAgree /\ InitOnce /\ EachOnce /\ NothingBlocks /\ SilenceMeasured
  BY DEF IInv, TablesOK
<1>2. Running /\ UNCHANGED <<fate, tables, watch_list, left, heard>>
  BY DEF Around
<1>3. UNCHANGED <<held, master_list, head_fd, control_conn_list, router_socket,
                  data_socket, timer_val, isNeighbor>>
  BY <1>2 DEF tables
<1>4. RolesAgree'
  BY <1>1, <1>2, SameRoles
<1>5. /\ backlog \in Seq(Controller) /\ inbox \in Seq(Neighbor) /\ dialing \in Seq(Peers)
      /\ requests \in [Controller -> Request \cup {"none"}] /\ closed \subseteq Controller
      /\ announced \in BOOLEAN /\ quiet \in [Neighbor -> 0 .. Intervals]
      /\ readable \subseteq {"in", "out"} \X Peers /\ watch_list \subseteq Fd
      /\ held \in [Fd -> Object]
  BY <1>1 DEF TypeOK
<1>6. watch_list' = watch_list \ {None}
  BY <1>2, <1>5, FdType
<1>7. ASSUME NEW c \in Controller, Connect(c) PROVE IInv'
  <2>1. /\ ~Connected(c) /\ backlog' = Append(backlog, c)
        /\ UNCHANGED <<requests, closed, announced, inbox, dialing, readable, quiet>>
    BY <1>7 DEF Connect, peers
  <2>2. /\ backlog' \in Seq(Controller) /\ backlog' # << >>
        /\ \A i \in DOMAIN backlog' : (i \in DOMAIN backlog /\ backlog'[i] = backlog[i])
                                        \/ (i = Len(backlog) + 1 /\ backlog'[i] = c)
    BY <1>5, <2>1
  <2>3. TypeOK'
    BY <1>1, <1>2, <1>3, <2>1, <2>2 DEF TypeOK
  <2>4. EachOnce'
    <3>1. \A i \in DOMAIN backlog : backlog[i] # c
      BY <2>1 DEF Connected
    <3>2. \A g \in Fd : held[g] # <<"control", c>>
      BY <2>1 DEF Connected, Open
    <3>3. \A i, j \in DOMAIN backlog' : backlog'[i] = backlog'[j] => i = j
      BY <1>1, <2>2, <3>1 DEF EachOnce
    <3>4. \A i \in DOMAIN backlog' : \A g \in Fd : held[g] # <<"control", backlog'[i]>>
      BY <1>1, <2>2, <3>2 DEF EachOnce, Open
    <3> QED
      BY <1>1, <1>3, <2>1, <3>3, <3>4 DEF EachOnce, Open
  <2>5. InitOnce'
    BY <1>1, <1>3, <2>1, SameInit
  <2>6. NothingBlocks'
    BY <1>1, <1>2, <1>3, <1>6, <2>1, <2>2, RoundGoesOn
  <2>7. SilenceMeasured'
    BY <1>1, <1>2, <1>3, <2>1, SameSilence
  <2> QED
    BY <1>4, <2>3, <2>4, <2>5, <2>6, <2>7 DEF IInv, TablesOK
<1>8. ASSUME NEW c \in Controller, Close(c) PROVE IInv'
  <2>1. /\ closed' = closed \cup {c}
        /\ UNCHANGED <<backlog, requests, announced, inbox, dialing, readable, quiet>>
    BY <1>8 DEF Close, peers
  <2>2. TypeOK'
    BY <1>1, <1>2, <1>3, <2>1 DEF TypeOK
  <2>3. EachOnce' /\ InitOnce'
    BY <1>1, <1>3, <2>1, SameInit, SameOnce DEF EachOnce
  <2>4. NothingBlocks'
    BY <1>1, <1>2, <1>3, <1>6, <2>1, RoundGoesOn
  <2>5. SilenceMeasured'
    BY <1>1, <1>2, <1>3, <2>1, SameSilence
  <2> QED
    BY <1>4, <2>2, <2>3, <2>4, <2>5 DEF IInv, TablesOK
<1>9. ASSUME NEW c \in Controller, NEW command \in Request, Send(c, command) PROVE IInv'
  <2>1. /\ requests[c] = "none" /\ c \notin closed
        /\ command = "INIT" => ~announced
        /\ requests' = [requests EXCEPT ![c] = command]
        /\ closed' = IF command = "torn" THEN closed \cup {c} ELSE closed
        /\ announced' = (announced \/ command = "INIT")
        /\ UNCHANGED <<backlog, inbox, dialing, readable, quiet>>
    BY <1>9 DEF Send, peers
  <2>2. /\ requests' \in [Controller -> Request \cup {"none"}] /\ requests'[c] = command
        /\ command # "none"
        /\ \A d \in Controller : d # c => requests'[d] = requests[d]
    BY <1>5, <2>1 DEF Request
  <2>3. closed' \subseteq Controller /\ closed \subseteq closed'
    BY <1>5, <2>1
  <2>4. announced' \in BOOLEAN /\ (announced' <=> announced \/ command = "INIT")
    BY <2>1
  <2>5. TypeOK'
    BY <1>1, <1>2, <1>3, <2>1, <2>2, <2>3, <2>4 DEF TypeOK
  <2>6. EachOnce'
    BY <1>1, <1>3, <2>1, SameOnce DEF EachOnce
  <2>7. InitOnce'
    <3>1. CASE command = "INIT"
      <4>1. ~announced /\ announced'
        BY <2>1, <2>4, <3>1
      <4>2. \A d \in Controller : requests[d] # "INIT"
        BY <1>1, <4>1 DEF InitOnce
      <4>3. \A d \in Controller : requests'[d] = "INIT" => d = c
        BY <2>2, <4>2
      <4>4. router_socket = None /\ data_socket = None /\ \A n \in Router : timer_val[n] = None
        BY <1>1, <4>1 DEF InitOnce
      <4> QED
        BY <1>3, <4>1, <4>3, <4>4 DEF InitOnce
    <3>2. CASE command # "INIT"
      <4>1. announced' <=> announced
        BY <2>4, <3>2
      <4>2. \A d \in Controller : requests'[d] = "INIT" <=> requests[d] = "INIT"
        BY <2>1, <2>2, <3>2
      <4> QED
        BY <1>1, <1>3, <4>1, <4>2 DEF InitOnce
    <3> QED
      BY <3>1, <3>2
  <2>8. NothingBlocks'
    <3>1. \A g \in Fd \ {None} : held[g][1] = "control" =>
            (requests[held[g][2]] # "none" \/ held[g][2] \in closed =>
               requests'[held[g][2]] # "none" \/ held[g][2] \in closed')
      BY <1>5, <2>2, <2>3, ObjectKinds
    <3> QED
      BY <1>1, <1>2, <1>3, <1>6, <2>1, <3>1, RoundGoesOn
  <2>9. SilenceMeasured'
    BY <1>1, <1>2, <1>3, <2>1, SameSilence
  <2> QED
    BY <1>4, <2>5, <2>6, <2>7, <2>8, <2>9 DEF IInv, TablesOK
<1>10. ASSUME NEW n \in Neighbor, Arrive(n) PROVE IInv'
  <2>1. /\ inbox' = Append(inbox, n) /\ quiet' = [quiet EXCEPT ![n] = 0]
        /\ UNCHANGED <<backlog, requests, closed, announced, dialing, readable>>
    BY <1>10 DEF Arrive, wires
  <2>2. /\ inbox' \in Seq(Neighbor) /\ inbox' # << >>
        /\ inbox'[Len(inbox) + 1] = n /\ Len(inbox) + 1 \in DOMAIN inbox'
        /\ \A i \in DOMAIN inbox : i \in DOMAIN inbox' /\ inbox'[i] = inbox[i]
        /\ quiet' \in [Neighbor -> 0 .. Intervals]
        /\ \A m \in Neighbor : m # n => quiet'[m] = quiet[m]
    BY <1>5, <2>1 DEF Intervals
  <2>3. TypeOK'
    BY <1>1, <1>2, <1>3, <2>1, <2>2 DEF TypeOK
  <2>4. EachOnce' /\ InitOnce'
    BY <1>1, <1>3, <2>1, SameInit, SameOnce DEF EachOnce
  <2>5. NothingBlocks'
    BY <1>1, <1>2, <1>3, <1>6, <2>1, <2>2, RoundGoesOn
  <2>6. SilenceMeasured'
    <3> SUFFICES ASSUME NEW m \in Neighbor, timer_val'[m] # None, ~Waits(m)'
                 PROVE  quiet'[m] + left'[m] >= Intervals
      BY DEF SilenceMeasured
    <3>1. m # n /\ ~Waits(m)
      BY <2>2 DEF Waits
    <3> QED
      BY <1>1, <1>2, <1>3, <2>2, <3>1 DEF SilenceMeasured
  <2> QED
    BY <1>4, <2>3, <2>4, <2>5, <2>6 DEF IInv, TablesOK
<1>11. ASSUME NEW n \in Peers, Dial(n) PROVE IInv'
  <2>1. /\ n \notin {dialing[i] : i \in DOMAIN dialing} /\ ~Open(<<"in", n>>)
        /\ dialing' = Append(dialing, n)
        /\ UNCHANGED <<backlog, requests, closed, announced, inbox, readable, quiet>>
    BY <1>11 DEF Dial, wires
  <2>2. /\ dialing' \in Seq(Peers) /\ dialing' # << >>
        /\ \A i \in DOMAIN dialing' : (i \in DOMAIN dialing /\ dialing'[i] = dialing[i])
                                        \/ (i = Len(dialing) + 1 /\ dialing'[i] = n)
    <3>1. dialing \in Seq(Peers) /\ dialing' = Append(dialing, n)
      BY <1>5, <2>1
    <3> QED
      BY <3>1
  <2>3. TypeOK'
    BY <1>1, <1>2, <1>3, <2>1, <2>2 DEF TypeOK
  <2>4. EachOnce'
    <3>1. \A i \in DOMAIN dialing : dialing[i] # n
      BY <2>1
    <3>2. \A g \in Fd : held[g] # <<"in", n>>
      BY <2>1 DEF Open
    <3>3. \A i, j \in DOMAIN dialing' : dialing'[i] = dialing'[j] => i = j
      BY <1>1, <2>2, <3>1 DEF EachOnce
    <3>4. \A i \in DOMAIN dialing' : \A g \in Fd : held[g] # <<"in", dialing'[i]>>
      BY <1>1, <2>2, <3>2 DEF EachOnce, Open
    <3> QED
      BY <1>1, <1>3, <2>1, <3>3, <3>4 DEF EachOnce, Open
  <2>5. InitOnce'
    BY <1>1, <1>3, <2>1, SameInit
  <2>6. NothingBlocks'
    BY <1>1, <1>2, <1>3, <1>6, <2>1, <2>2, RoundGoesOn
  <2>7. SilenceMeasured'
    BY <1>1, <1>2, <1>3, <2>1, SameSilence
  <2> QED
    BY <1>4, <2>3, <2>4, <2>5, <2>6, <2>7 DEF IInv, TablesOK
<1>12. ASSUME NEW n \in Peers, NEW kind \in {"in", "out"}, PacketArrives(<<kind, n>>) PROVE IInv'
  <2>1. /\ readable' = readable \cup {<<kind, n>>}
        /\ UNCHANGED <<backlog, requests, closed, announced, inbox, dialing, quiet>>
    BY <1>12 DEF PacketArrives, wires
  <2>2. TypeOK'
    BY <1>1, <1>2, <1>3, <2>1 DEF TypeOK
  <2>3. EachOnce' /\ InitOnce'
    BY <1>1, <1>3, <2>1, SameInit, SameOnce DEF EachOnce
  <2>4. NothingBlocks'
    BY <1>1, <1>2, <1>3, <1>6, <2>1, RoundGoesOn
  <2>5. SilenceMeasured'
    BY <1>1, <1>2, <1>3, <2>1, SameSilence
  <2> QED
    BY <1>4, <2>2, <2>3, <2>4, <2>5 DEF IInv, TablesOK
<1> QED
  BY <1>7, <1>8, <1>9, <1>10, <1>11, <1>12 DEF Around

-----------------------------------------------------------------------------
(* The invariant and what follows from it *)

LEMMA InitIInv == Init => IInv
<1> SUFFICES ASSUME Init PROVE IInv
  OBVIOUS
<1>1. NothingBlocks
  BY DEF Init, NothingBlocks
<1>2. SilenceMeasured
  BY DEF Init, SilenceMeasured, Router
<1> QED
  BY <1>1, <1>2, InitTables DEF IInv

LEMMA StepKeeps == IInv /\ [Next]_vars => IInv'
<1> SUFFICES ASSUME IInv, [Next]_vars PROVE IInv'
  OBVIOUS
<1>1. CASE main_loop
  BY <1>1, SelectKeeps, HandleKeeps, StopKeeps DEF main_loop
<1>2. CASE Around
  BY <1>2, AroundKeeps
<1>3. CASE Tick
  BY <1>3, TickKeeps
<1>4. CASE UNCHANGED vars
  <2>1. UNCHANGED <<fate, tables, watch_list, wires, peers, left, heard, quiet>>
    BY <1>4 DEF vars
  <2>2. UNCHANGED <<fate, held, master_list, head_fd, control_conn_list, router_socket,
                  data_socket, timer_val, isNeighbor, backlog, requests, closed, announced,
                  inbox, dialing, readable, watch_list, left, heard, quiet>>
    BY <2>1 DEF tables, wires, peers
  <2> QED
    BY <2>2 DEF IInv, TablesOK, TypeOK, RolesAgree, InitOnce, EachOnce, Open, NothingBlocks,
                Ready, Running, SilenceMeasured, Waits
<1> QED
  BY <1>1, <1>2, <1>3, <1>4 DEF Next

(* The tables of descriptors, timers and connections agree with each other *)
(* and with the kernel, and timers measure silence, in every state of the  *)
(* select loop. (connection_manager.c, network_util.c:142-182)             *)
THEOREM Invariance == Spec => []IInv
<1> QED
  BY InitIInv, StepKeeps, PTL DEF Spec

(* The select loop's variables keep their types. *)
THEOREM TypeCorrect == Spec => []TypeOK
<1>1. IInv => TypeOK
  BY DEF IInv, TablesOK
<1> QED
  BY <1>1, Invariance, PTL

(* The handler of a descriptor that select found ready never waits.        *)
(* (connection_manager.c:34-112)                                           *)
THEOREM NeverBlocks == Spec => []NothingBlocks
<1>1. IInv => NothingBlocks
  BY DEF IInv
<1> QED
  BY <1>1, Invariance, PTL

(* Only update_crashed_router drops a neighbour, and the timer it is       *)
(* called for has expired or been set again by an update of this round.    *)
LEMMA CrashedStep ==
  ASSUME IInv, [Next]_vars, NEW n \in isNeighbor, n \notin isNeighbor'
  PROVE  quiet[n] = Intervals \/ n \in heard \/ Waits(n)
<1>1. TypeOK /\ RolesAgree /\ NothingBlocks /\ SilenceMeasured
  BY DEF IInv, TablesOK
<1>2. n \in Neighbor /\ n \in Router
  BY <1>1 DEF TypeOK, Router
<1>3. CASE Running /\ \E f \in Fd : IsNext(f) /\ isTimer(f) /\ update_crashed_router(f)
  <2>1. PICK f \in Fd : IsNext(f) /\ isTimer(f) /\ update_crashed_router(f)
    BY <1>3
  <2>2. timer_val[n] = f /\ f \in watch_list
    BY <1>2, <2>1 DEF update_crashed_router, IsNext
  <2>3. /\ held[f] = <<"timer", n>> /\ \A m \in Router : timer_val[m] = f => m = n
    BY <1>1, <1>2, <2>2, TimerRoles
  <2>4. Ready(f) \/ n \in heard
    BY <1>1, <1>3, <2>2, <2>3 DEF NothingBlocks, TypeOK, Router
  <2>5. CASE Ready(f)
    <3>1. left[n] = 0
      BY <2>3, <2>5 DEF Ready
    <3>2. timer_val[n] # None
      BY <2>2, FdType
    <3>3. quiet[n] \in 0 .. Intervals
      BY <1>1, <1>2 DEF TypeOK
    <3> QED
      BY <1>1, <1>2, <1>3, <3>1, <3>2, <3>3 DEF SilenceMeasured, Intervals
  <2> QED
    BY <2>4, <2>5
<1>4. CASE UNCHANGED isNeighbor
  BY <1>4
<1>5. CASE isNeighbor' = Neighbor
  BY <1>2, <1>5
<1>6. \/ Running /\ \E f \in Fd : IsNext(f) /\ isTimer(f) /\ update_crashed_router(f)
      \/ UNCHANGED isNeighbor
      \/ isNeighbor' = Neighbor
  <2>1. CASE Running /\ \E f \in Fd : Handle(f)
    <3>1. PICK f \in Fd : IsNext(f) /\ Handler(f)
      BY <2>1 DEF Handle
    <3>2. CASE isTimer(f) /\ update_crashed_router(f)
      BY <2>1, <3>1, <3>2
    <3>3. CASE send_routing_updates
      BY <3>3 DEF send_routing_updates, tables
    <3>4. CASE new_control_conn
      BY <3>4 DEF new_control_conn
    <3>5. CASE recv_router_update
      BY <3>5 DEF recv_router_update, NewTimer, SetTimer, tables
    <3>6. CASE new_data_conn
      BY <3>6 DEF new_data_conn
    <3>7. CASE control_recv_hook(f)
      BY <3>7 DEF control_recv_hook, remove_control_conn, init_handler, connect_to_router, tables
    <3>8. CASE process_data_packet(f)
      BY <3>8 DEF process_data_packet, connect_to_router, tables
    <3> QED
      BY <3>1, <3>2, <3>3, <3>4, <3>5, <3>6, <3>7, <3>8 DEF Handler
  <2>2. CASE Select \/ \E f \in Fd : Stop(f)
    BY <2>2 DEF Select, Stop, tables
  <2>3. CASE Around \/ Tick \/ UNCHANGED vars
    BY <2>3 DEF Around, Tick, vars, tables
  <2> QED
    BY <2>1, <2>2, <2>3 DEF Next, main_loop
<1> QED
  BY <1>3, <1>4, <1>5, <1>6

(* A neighbour that is declared crashed has been silent for three          *)
(* intervals, or its update came too late for the round's ready set.       *)
(* (connection_manager.c:36-60, router_process_handler.c:87-118)           *)
THEOREM OnlySilentCrash == Spec => CrashedWasSilent
<1>1. IInv /\ [Next]_vars =>
        [\A n \in isNeighbor \ isNeighbor' : quiet[n] = Intervals \/ n \in heard \/ Waits(n)]_vars
  BY CrashedStep
<1> QED
  BY <1>1, Invariance, PTL DEF Spec, CrashedWasSilent
=============================================================================

