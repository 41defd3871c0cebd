------------------------- MODULE ConnectionManager -------------------------
(***************************************************************************)
(* One router's select loop: connection_manager.c and the handlers as far  *)
(* as they open, close and watch descriptors or set timers                 *)
(* (control_handler.c, init.c, router_process_handler.c, network_util.c).  *)
(*                                                                         *)
(* A round takes the ready set once and walks it in the order of the       *)
(* descriptors; between two handlers anything may arrive and time passes.  *)
(* What a handler does to routes, packets and files is not looked at here. *)
(***************************************************************************)
EXTENDS Integers, Sequences, FiniteSets

CONSTANTS
  Neighbor,     \* the routers whose updates reach this one
  Self,         \* this router
  Controller,   \* the connections controllers open
  Peers,        \* the routers at the other end of data connections
  LastFd,       \* the last descriptor the process may have
  MaxUnread     \* bound on the updates, packets and connections that wait

ASSUME NameAssumption == Self \notin Neighbor
ASSUME BoundAssumption == LastFd \in Nat /\ LastFd >= 3 /\ MaxUnread \in Nat

Fd     == 3 .. LastFd    \* behind stdin, stdout and stderr
None   == -1
Router == Neighbor \cup {Self}

(* A neighbour is given three update intervals. *)
Intervals == 3

(* What a request from the controller does to this module's state.  INIT   *)
(* comes once; SENDFILE may open a data connection; CRASH ends the router; *)
(* "torn" is one whose connection ends in its middle.                      *)
Request == {"INIT", "SENDFILE", "CRASH", "other", "torn"}

Object == {"free", "control_socket", "router_socket", "data_socket"} \X {Self}
            \cup {"timer"} \X Router
            \cup {"control"} \X Controller
            \cup {"in", "out"} \X Peers
Unused == <<"free", Self>>

VARIABLES
  fate,               \* running, exited, or hung in recvALL
  held,               \* the kernel: what each descriptor is, and whose
  master_list, watch_list, head_fd,
  control_conn_list,
  router_socket, data_socket,
  timer_val,          \* router_conn->timer_val
  isNeighbor,         \* the routers with router_conn->isNeighbor
  left,               \* the kernel: intervals until each timer expires
  backlog,            \* control connections to accept
  requests,           \* the request that waits on each control connection
  closed,             \* control connections the controller has closed
  announced,          \* the controller has sent its INIT
  inbox,              \* senders of the updates in the router socket
  dialing,            \* data connections to accept
  readable,           \* data connections with a packet to read
  heard,              \* history: whose updates this round has read
  quiet               \* history: intervals since n's last update came in

control_socket == 3

tables == <<held, master_list, head_fd, control_conn_list, router_socket,
            data_socket, timer_val, isNeighbor>>
wires  == <<backlog, requests, closed, announced>>
peers  == <<inbox, dialing, readable>>
vars   == <<fate, tables, watch_list, wires, peers, left, heard, quiet>>

Running == fate = "running"

-----------------------------------------------------------------------------
(* Descriptors: the kernel gives the lowest one that is free *)

Full(h) == \A f \in Fd : h[f] # Unused
Lowest(h) == CHOOSE f \in Fd : h[f] = Unused /\ \A g \in Fd : g < f => h[g] # Unused
Opened(h, x) == [h EXCEPT ![Lowest(h)] = x]

addToList(fs) ==
  /\ master_list' = master_list \cup fs
  /\ head_fd' = CHOOSE f \in fs \cup {head_fd} : \A g \in fs \cup {head_fd} : g <= f

Opens(x) ==
  /\ ~Full(held)
  /\ held' = Opened(held, x)
  /\ addToList({Lowest(held)})

Open(x) == \E f \in Fd : held[f] = x

isTimer(f)     == \E n \in Router : timer_val[n] = f
isSelfTimer(f) == timer_val[Self] = f
isControl(f)   == f \in control_conn_list

(* What select() sees. *)
Ready(f) ==
  LET x == held[f]
  IN  \/ x[1] = "timer" /\ left[x[2]] = 0
      \/ x[1] = "control_socket" /\ backlog # << >>
      \/ x[1] = "router_socket" /\ inbox # << >>
      \/ x[1] = "data_socket" /\ dialing # << >>
      \/ x[1] = "control" /\ (requests[x[2]] # "none" \/ x[2] \in closed)
      \/ x[1] \in {"in", "out"} /\ x \in readable

-----------------------------------------------------------------------------
(* The handlers, for a descriptor f of the round *)

(* Each update goes out by a socket of its own, which is closed at once;   *)
(* timerfd_settime in reassign_self_timer: the next updates are due.       *)
RoomToSend == isNeighbor = {} \/ ~Full(held)

send_routing_updates ==
  /\ RoomToSend
  /\ left' = [left EXCEPT ![Self] = 1]
  /\ UNCHANGED <<tables, wires, inbox, dialing, readable>>

(* Mutant: the timer's descriptor is closed. *)
update_crashed_routerCloses(f) ==
  /\ isNeighbor' = isNeighbor \ {n \in Router : timer_val[n] = f}
  /\ master_list' = master_list \ {f}
  /\ held' = [held EXCEPT ![f] = Unused]
  /\ UNCHANGED <<head_fd, control_conn_list, router_socket, data_socket,
                 timer_val, left, wires, inbox, dialing, readable>>

(* The timer keeps its descriptor and is not watched any more. *)
update_crashed_router(f) ==
  /\ isNeighbor' = isNeighbor \ {n \in Router : timer_val[n] = f}
  /\ master_list' = master_list \ {f}
  /\ UNCHANGED <<held, head_fd, control_conn_list, router_socket, data_socket,
                 timer_val, left, wires, inbox, dialing, readable>>

new_control_conn ==
  /\ backlog' = Tail(backlog)
  /\ Opens(<<"control", Head(backlog)>>)
  /\ control_conn_list' = control_conn_list \cup {Lowest(held)}
  /\ UNCHANGED <<router_socket, data_socket, timer_val, isNeighbor, left,
                 requests, closed, announced, inbox, dialing, readable>>

(* Mutant: the new timer is not watched. *)
NewTimerUnwatched(n) ==
  /\ timer_val[n] = None /\ ~Full(held)
  /\ held' = Opened(held, <<"timer", n>>)
  /\ timer_val' = [timer_val EXCEPT ![n] = Lowest(held)]
  /\ left' = [left EXCEPT ![n] = Intervals]
  /\ UNCHANGED <<control_conn_list, router_socket, data_socket, isNeighbor,
                 master_list, head_fd>>

(* An update of n that has no timer yet creates it. *)
NewTimer(n) ==
  /\ timer_val[n] = None
  /\ Opens(<<"timer", n>>)
  /\ timer_val' = [timer_val EXCEPT ![n] = Lowest(held)]
  /\ left' = [left EXCEPT ![n] = Intervals]
  /\ UNCHANGED <<control_conn_list, router_socket, data_socket, isNeighbor>>

(* Mutant: a timer that runs is not set again. *)
SetTimerNot(n) == timer_val[n] # None /\ UNCHANGED <<tables, left>>

(* Any later one sets it again, whether it is watched or not. *)
SetTimer(n) ==
  /\ timer_val[n] # None
  /\ left' = [left EXCEPT ![n] = Intervals]
  /\ UNCHANGED tables

(* One update is read in a round. *)
recv_router_update ==
  /\ inbox' = Tail(inbox)
  /\ NewTimer(Head(inbox)) \/ SetTimer(Head(inbox))
  /\ UNCHANGED <<wires, dialing, readable>>

new_data_conn ==
  /\ dialing' = Tail(dialing)
  /\ Opens(<<"in", Head(dialing)>>)
  /\ UNCHANGED <<control_conn_list, router_socket, data_socket, timer_val,
                 isNeighbor, left, wires, inbox, readable>>

(* A handler sends to n: over the connection there is, or over a new one.  *)
connect_to_router(n) ==
  \/ /\ Open(<<"in", n>>) \/ Open(<<"out", n>>)
     /\ UNCHANGED tables
  \/ /\ ~Open(<<"in", n>>) /\ ~Open(<<"out", n>>)
     /\ Opens(<<"out", n>>)
     /\ UNCHANGED <<control_conn_list, router_socket, data_socket, timer_val, isNeighbor>>

(* The rest is in DataPlane: the packet is kept, dropped or sent on. *)
process_data_packet(f) ==
  /\ readable' = readable \ {held[f]}
  /\ UNCHANGED tables \/ \E n \in Peers : connect_to_router(n)
  /\ UNCHANGED <<left, wires, inbox, dialing>>

(* INIT opens the router's own timer, the router and the data socket. *)
Timed  == Opened(held, <<"timer", Self>>)
Routed == Opened(Timed, <<"router_socket", Self>>)

RoomForThree == ~Full(held) /\ ~Full(Timed) /\ ~Full(Routed)

init_handler ==
  /\ RoomForThree
  /\ held' = Opened(Routed, <<"data_socket", Self>>)
  /\ timer_val' = [timer_val EXCEPT ![Self] = Lowest(held)]
  /\ router_socket' = Lowest(Timed) /\ data_socket' = Lowest(Routed)
  /\ left' = [left EXCEPT ![Self] = 1]
  /\ addToList({Lowest(held), Lowest(Timed), Lowest(Routed)})
  /\ isNeighbor' = Neighbor
  /\ UNCHANGED control_conn_list

(* The connection has ended between two messages, or between a header and  *)
(* its payload.                                                            *)
remove_control_conn(f) ==
  /\ control_conn_list' = control_conn_list \ {f}
  /\ held' = [held EXCEPT ![f] = Unused]
  /\ master_list' = master_list \ {f}
  /\ closed' = closed \ {held[f][2]}
  /\ UNCHANGED <<head_fd, router_socket, data_socket, timer_val, isNeighbor, left>>

control_recv_hook(f) ==
  LET command == requests[held[f][2]]
  IN  /\ requests' = [requests EXCEPT ![held[f][2]] = "none"]
      /\ \/ command = "none" /\ remove_control_conn(f)
         \/ command = "INIT" /\ init_handler /\ UNCHANGED closed
         \/ /\ command = "SENDFILE" /\ ~Full(held)
            /\ \E n \in Peers : connect_to_router(n)
            /\ UNCHANGED <<left, closed>>
         \/ command = "other" /\ UNCHANGED <<tables, left, closed>>
      /\ UNCHANGED <<backlog, announced, inbox, dialing, readable>>

(* The code's chain of tests for what f is. *)
Handler(f) ==
  \/ isTimer(f) /\ isSelfTimer(f) /\ send_routing_updates
  \/ isTimer(f) /\ ~isSelfTimer(f) /\ update_crashed_router(f)
  \/ /\ ~isTimer(f)
     /\ \/ f = control_socket /\ new_control_conn
        \/ f = router_socket /\ recv_router_update
        \/ f = data_socket /\ new_data_conn
        \/ /\ f \notin {control_socket, router_socket, data_socket}
           /\ IF isControl(f) THEN control_recv_hook(f) ELSE process_data_packet(f)

(* The handler of f may end the router: CRASH; no descriptor is left;      *)
(* recvfrom fails on the address length it is given unset; an answer goes  *)
(* to a controller that has left; the list of connections is walked on     *)
(* from the one that was freed; a data connection is refused or has ended. *)
MayExit(f) ==
  LET command == requests[held[f][2]]
  IN  \/ isSelfTimer(f) /\ ~RoomToSend
      \/ /\ ~isTimer(f)
         /\ \/ f \in {control_socket, data_socket} /\ Full(held)
            \/ f = router_socket
            \/ isControl(f) /\ \/ command \in {"none", "CRASH", "SENDFILE"}
                               \/ command # "torn" /\ held[f][2] \in closed
                               \/ command = "INIT" /\ ~RoomForThree
            \/ f \notin {control_socket, router_socket, data_socket} /\ ~isControl(f)

(* recvALL and sendALL go on for ever after an error or in a message that  *)
(* does not come to its end.                                               *)
MayHang(f) ==
  /\ ~isTimer(f) /\ f \notin {control_socket, router_socket, data_socket}
  /\ isControl(f) => requests[held[f][2]] \in {"none", "torn", "SENDFILE"}

-----------------------------------------------------------------------------
(* main_loop *)

(* Mutant: the descriptors watched are taken for the ready ones. *)
SelectAll ==
  /\ watch_list = {} /\ \E f \in master_list : Ready(f)
  /\ watch_list' = master_list
  /\ UNCHANGED <<fate, tables, wires, peers, left, heard, quiet>>

Select ==
  /\ watch_list = {}
  /\ watch_list' = {f \in master_list : f <= head_fd /\ Ready(f)}
  /\ watch_list' # {}
  /\ UNCHANGED <<fate, tables, wires, peers, left, heard, quiet>>

IsNext(f) == f \in watch_list /\ \A g \in watch_list : f <= g

(* Mutant: the round ends with its first handler. *)
HandleFirst(f) ==
  /\ IsNext(f) /\ Handler(f)
  /\ watch_list' = {} /\ heard' = {}
  /\ UNCHANGED <<fate, quiet>>

Handle(f) ==
  /\ IsNext(f) /\ Handler(f)
  /\ watch_list' = watch_list \ {f}
  /\ heard' = IF watch_list = {f} THEN {}
              ELSE IF f = router_socket THEN heard \cup {Head(inbox)}
              ELSE heard
  /\ UNCHANGED <<fate, quiet>>

(* The router ends or hangs in the handler of f. *)
Stop(f) ==
  /\ IsNext(f)
  /\ \/ MayExit(f) /\ fate' = "exited"
     \/ MayHang(f) /\ fate' = "hung"
  /\ UNCHANGED <<tables, watch_list, wires, peers, left, heard, quiet>>

main_loop ==
  /\ Running
  /\ Select \/ \E f \in Fd : Handle(f) \/ Stop(f)

-----------------------------------------------------------------------------
(* What happens around the router *)

RoomToWait == Len(backlog) + Len(inbox) + Len(dialing) + Cardinality(readable) < MaxUnread

Connected(c) == c \in {backlog[i] : i \in DOMAIN backlog} \/ Open(<<"control", c>>)

Connect(c) ==
  /\ ~Connected(c) /\ RoomToWait
  /\ backlog' = Append(backlog, c)
  /\ UNCHANGED <<requests, closed, announced, peers, quiet>>

Send(c, command) ==
  /\ Connected(c) /\ requests[c] = "none" /\ c \notin closed
  /\ command = "INIT" => ~announced
  /\ command = "SENDFILE" => data_socket # None
  /\ requests' = [requests EXCEPT ![c] = command]
  /\ closed' = IF command = "torn" THEN closed \cup {c} ELSE closed
  /\ announced' = (announced \/ command = "INIT")
  /\ UNCHANGED <<backlog, peers, quiet>>

Close(c) ==
  /\ Connected(c)
  /\ closed' = closed \cup {c}
  /\ UNCHANGED <<backlog, requests, announced, peers, quiet>>

Arrive(n) ==
  /\ router_socket # None /\ RoomToWait
  /\ inbox' = Append(inbox, n)
  /\ quiet' = [quiet EXCEPT ![n] = 0]
  /\ UNCHANGED <<wires, dialing, readable>>

Dial(n) ==
  /\ data_socket # None /\ RoomToWait /\ n \notin {dialing[i] : i \in DOMAIN dialing}
  /\ ~Open(<<"in", n>>)
  /\ dialing' = Append(dialing, n)
  /\ UNCHANGED <<wires, inbox, readable, quiet>>

PacketArrives(x) ==
  /\ Open(x) /\ RoomToWait
  /\ readable' = readable \cup {x}
  /\ UNCHANGED <<wires, inbox, dialing, quiet>>

Lower(k) == IF k = 0 THEN 0 ELSE k - 1
Higher(k) == IF k = Intervals THEN Intervals ELSE k + 1

Around ==
  /\ Running
  /\ \/ \E c \in Controller : \/ Connect(c) \/ Close(c)
                              \/ \E command \in Request : Send(c, command)
     \/ \E n \in Neighbor : Arrive(n)
     \/ \E n \in Peers : Dial(n) \/ \E kind \in {"in", "out"} : PacketArrives(<<kind, n>>)
  /\ UNCHANGED <<fate, tables, watch_list, left, heard>>

(* An update interval passes. *)
Tick ==
  /\ Running
  /\ left' = [n \in Router |-> Lower(left[n])]
  /\ quiet' = [n \in Neighbor |-> Higher(quiet[n])]
  /\ UNCHANGED <<fate, tables, watch_list, wires, peers, heard>>

(* Before INIT only the control socket is there. *)
Init ==
  /\ fate = "running"
  /\ held = [f \in Fd |-> IF f = control_socket THEN <<"control_socket", Self>> ELSE Unused]
  /\ master_list = {control_socket} /\ watch_list = {} /\ head_fd = control_socket
  /\ control_conn_list = {}
  /\ router_socket = None /\ data_socket = None
  /\ timer_val = [n \in Router |-> None]
  /\ isNeighbor = {}
  /\ left = [n \in Router |-> 0]
  /\ backlog = << >> /\ requests = [c \in Controller |-> "none"] /\ closed = {}
  /\ announced = FALSE
  /\ inbox = << >> /\ dialing = << >> /\ readable = {}
  /\ heard = {} /\ quiet = [n \in Neighbor |-> 0]

Next == main_loop \/ Around \/ Tick

Spec == Init /\ [][Next]_vars

-----------------------------------------------------------------------------
(* Safety *)

TypeOK ==
  /\ fate \in {"running", "exited", "hung"}
  /\ held \in [Fd -> Object]
  /\ master_list \subseteq Fd /\ watch_list \subseteq Fd /\ head_fd \in Fd
  /\ control_conn_list \subseteq Fd
  /\ router_socket \in Fd \cup {None} /\ data_socket \in Fd \cup {None}
  /\ timer_val \in [Router -> Fd \cup {None}]
  /\ isNeighbor \subseteq Neighbor
  /\ left \in [Router -> 0 .. Intervals]
  /\ backlog \in Seq(Controller)
  /\ requests \in [Controller -> Request \cup {"none"}]
  /\ closed \subseteq Controller /\ announced \in BOOLEAN
  /\ inbox \in Seq(Neighbor) /\ dialing \in Seq(Peers)
  /\ readable \subseteq {"in", "out"} \X Peers
  /\ heard \subseteq Neighbor
  /\ quiet \in [Neighbor -> 0 .. Intervals]

(* Descriptors are closed and given out again, and what one is for is      *)
(* looked up in five places; they agree with each other and with the       *)
(* kernel, and everything that may have something to say is watched:       *)
(* everything but the timers of crashed neighbours.                        *)
(* (connection_manager.c:45-110, network_util.c:142-182)                   *)
RolesAgree ==
  \A f \in Fd :
    LET x == held[f]
    IN  /\ x[1] = "control_socket" <=> f = control_socket
        /\ x[1] = "router_socket" <=> f = router_socket
        /\ x[1] = "data_socket" <=> f = data_socket
        /\ x[1] = "control" <=> f \in control_conn_list
        /\ \A n \in Router : x = <<"timer", n>> <=> timer_val[n] = f
        /\ f \in master_list <=>
             x[1] # "free" /\ (x[1] = "timer" => x[2] \in isNeighbor \cup {Self})
        /\ f \in master_list => f <= head_fd

(* The one thread never waits in a handler: what select found ready still  *)
(* has its connection, update or request when its turn comes, whatever the *)
(* handlers before it closed, opened or read.  Only a timer may have been  *)
(* set again meanwhile, by its neighbour's update.                         *)
(* (connection_manager.c:34-112)                                           *)
NothingBlocks ==
  Running => \A f \in watch_list : Ready(f) \/ \E n \in heard : timer_val[n] = f

Waits(n) == n \in {inbox[i] : i \in DOMAIN inbox}

(* Unless an update of n waits to be read, its timer has run since then.   *)
SilenceMeasured ==
  Running => \A n \in Neighbor :
    timer_val[n] # None /\ ~Waits(n) => quiet[n] + left[n] >= Intervals

(* INIT is sent and obeyed once, and a crashed neighbour had a timer.      *)
InitOnce ==
  /\ \A c \in Controller : requests[c] = "INIT" =>
       announced /\ \A d \in Controller : requests[d] = "INIT" => d = c
  /\ ~announced \/ (\E c \in Controller : requests[c] = "INIT") =>
       router_socket = None /\ data_socket = None /\ \A n \in Router : timer_val[n] = None
  /\ router_socket # None => \A n \in Neighbor \ isNeighbor : timer_val[n] # None

(* No two descriptors or places in a queue are the same connection. *)
EachOnce ==
  /\ \A f, g \in Fd : held[f] = held[g] /\ held[f][1] # "free" => f = g
  /\ \A i, j \in DOMAIN backlog : backlog[i] = backlog[j] => i = j
  /\ \A i \in DOMAIN backlog : ~Open(<<"control", backlog[i]>>)
  /\ \A i, j \in DOMAIN dialing : dialing[i] = dialing[j] => i = j
  /\ \A i \in DOMAIN dialing : ~Open(<<"in", dialing[i]>>)

TablesOK == TypeOK /\ RolesAgree /\ InitOnce /\ EachOnce
IInv     == TablesOK /\ NothingBlocks /\ SilenceMeasured

(* A neighbour is declared crashed after three intervals without an update *)
(* from it, and only then, except that an update that came in too late for *)
(* the round's ready set does not save it: neither one the round has read  *)
(* since, which has set the timer again, nor one it has yet to read.       *)
(* (connection_manager.c:36-60, router_process_handler.c:87-118)           *)
CrashedWasSilent ==
  [][\A n \in isNeighbor \ isNeighbor' :
       quiet[n] = Intervals \/ n \in heard \/ Waits(n)]_vars

-----------------------------------------------------------------------------
(* Liveness *)

(* Time passes, and the one thread is scheduled. *)
FairSpec == Spec /\ WF_vars(main_loop) /\ WF_vars(Tick)

(* A neighbour that has been heard of and is heard no more is declared     *)
(* crashed in the end, for good, whatever else keeps the loop busy.        *)
(* (router_process_handler.c:87-118, 185-204)                              *)
SilentIsNoticed ==
  \A n \in Neighbor :
    <>[](timer_val[n] # None /\ ~Waits(n)) => <>[](n \notin isNeighbor \/ ~Running)

(* Every request is read in the end, on whatever descriptor: the router's  *)
(* timer, the updates and the other connections do not starve it.          *)
(* (connection_manager.c:43-112)                                           *)
HandledInTurn ==
  \A c \in Controller : requests[c] # "none" ~> requests[c] = "none" \/ ~Running
=============================================================================
