----------------------------- MODULE ChatServer -----------------------------
(***************************************************************************)
(* The chat application: a select loop that keeps a table of clients and   *)
(* relays their messages, and the client processes that talk to it over    *)
(* one TCP connection each (server.c, serverFunctions.c, client.c).        *)
(*                                                                         *)
(* TCP keeps no boundaries: one recv may return several commands, and both *)
(* sides then act on the first alone.  Descriptors are reused, a client    *)
(* may be gone when the server writes to it, and clients beyond the table  *)
(* are served without an entry.  A message is known by its sender.         *)
(***************************************************************************)
EXTENDS Integers, Sequences, FiniteSets

CONSTANTS
  Clients,      \* client processes, each on a host of its own: also its IP
  NoIP, Garbage,\* an empty entry's IP; what an unset pointer is printed as
  nslots,       \* length of allClients: 4
  MaxRecv,      \* how many queued commands one recv may return
  MaxTyped      \* bound on the commands users type

(* blockedUser has four places too: with more hosts it would overflow.     *)
ASSUME ChatAssumption ==
  /\ IsFiniteSet(Clients) /\ Cardinality(Clients) <= 4
  /\ NoIP \notin Clients /\ Garbage \notin Clients
  /\ nslots \in Nat \ {0} /\ MaxRecv \in Nat \ {0} /\ MaxTyped \in Nat

VARIABLES
  up,           \* the server runs
  allClients,   \* the server's table
  fd,           \* the server's descriptor of each client's connection, 0 if none
  toServer, toClient,             \* what each connection carries
  phase, isLoggedIn, view,        \* each client: its life, its flag, its list
  promised,     \* history: hosts whose BLOCK was confirmed to each client
  wasReset,     \* history: a recv has failed
  typed         \* commands typed so far

server == <<up, allClients, fd, toClient, promised, wasReset>>
users  == <<phase, isLoggedIn, typed>>
vars   == <<server, toServer, users, view>>

-----------------------------------------------------------------------------
(* The table *)

Slots == 1 .. nslots
Types == {"LOGINSUCCESS", "REFRESHSUCCESS", "SBLOCK", "EBLOCK", "SUNBLOCK", "EUNBLOCK",
          "SEND", "BROADCAST"}
Message == [type : Types, from : Clients \cup {Garbage}, by : Clients, ips : SUBSET Clients]
Entry == [socket : 0 .. Cardinality(Clients), IP : Clients \cup {NoIP},
          status : {"unset", "logged-in", "logged-out"},
          bufferMsg : Seq(Message), blockedUser : Seq(Clients)]

First(S)       == CHOOSE i \in S : \A j \in S : i <= j
Mine(c)        == {i \in Slots : allClients[i].socket = fd[c]}
Named(ip)      == {i \in Slots : allClients[i].IP = ip /\ allClients[i].socket # 0}
Holds(i, ip)   == \E j \in DOMAIN allClients[i].blockedUser :
                    allClients[i].blockedUser[j] = ip
ListOf(table)  == {table[i].IP : i \in {j \in Slots : /\ table[j].status = "logged-in"
                                                      /\ table[j].socket # 0}}

Msg(type, from, by, ips) == [type |-> type, from |-> from, by |-> by, ips |-> ips]
Reply(type, c, ips)      == Msg(type, Garbage, c, ips)

(* The server writes ms[c] to each c.  What is written to a client that is *)
(* gone is lost, or the write raises SIGPIPE, which ends the server.       *)
Write(ms) ==
  /\ toClient' = [c \in Clients |-> IF phase[c] = "gone" THEN << >>
                                    ELSE toClient[c] \o ms[c]]
  /\ up' = TRUE \/ (up' = FALSE /\ \E c \in Clients : phase[c] = "gone" /\ ms[c] # << >>)

To(c, m) == [d \in Clients |-> IF d = c THEN m ELSE << >>]

Crash == up' = FALSE /\ UNCHANGED <<allClients, fd, toClient, promised, wasReset>>

-----------------------------------------------------------------------------
(* The event handlers; c's connection is the one that is ready. *)

(* Mutant: the IP of the slot's former client stays. *)
newClientOldIP(old, socket, ip) ==
  [old EXCEPT !.socket = socket, !.IP = IF @ = NoIP THEN ip ELSE @, !.status = "logged-in"]

(* bufferMsg and the block list of the slot's former client stay. *)
newClient(old, socket, ip) ==
  [old EXCEPT !.socket = socket, !.IP = ip, !.status = "logged-in"]

(* The reply to a login lists the clients that are now logged in. *)
serverLoginEvent(c) ==
  Write(To(c, <<Reply("LOGINSUCCESS", c, ListOf(allClients'))>>))

(* LOGIN on a connection that has been logged in before. *)
loginAgain(c) ==
  /\ IF Mine(c) # {}
     THEN allClients' = [allClients EXCEPT ![First(Mine(c))].status = "logged-in"]
     ELSE UNCHANGED allClients
  /\ serverLoginEvent(c)
  /\ UNCHANGED <<fd, promised, wasReset>>

serverRefreshEvent(c) ==
  /\ Write(To(c, <<Reply("REFRESHSUCCESS", c, ListOf(allClients))>>))
  /\ UNCHANGED <<allClients, fd, promised, wasReset>>

serverLogoutEvent(c) ==
  /\ IF Mine(c) # {}
     THEN allClients' = [allClients EXCEPT ![First(Mine(c))].status = "logged-out"]
     ELSE UNCHANGED allClients
  /\ UNCHANGED <<up, fd, toClient, promised, wasReset>>

(* Mutant: only the descriptor is closed. *)
serverExitEventOpen(c) ==
  /\ fd' = [fd EXCEPT ![c] = 0]
  /\ UNCHANGED <<up, allClients, toClient, promised, wasReset>>

(* The entry is free again, but still logged in. *)
serverExitEvent(c) ==
  /\ allClients' = [i \in Slots |-> IF i \in Mine(c)
                                    THEN [allClients[i] EXCEPT !.socket = 0]
                                    ELSE allClients[i]]
  /\ fd' = [fd EXCEPT ![c] = 0]
  /\ UNCHANGED <<up, toClient, promised, wasReset>>

(* The sender's IP; without an entry it is read through an unset pointer.  *)
HostIP(c) == IF Mine(c) = {} THEN Garbage ELSE allClients[First(Mine(c))].IP

Relayed(type, c) == Msg(type, HostIP(c), c, {})
Buffered(entry, m) == [entry EXCEPT !.bufferMsg = Append(@, m)]

(* One copy for each of these entries, to whoever has its descriptor now.  *)
Copies(S, m) ==
  [d \in Clients |->
     [k \in 1 .. Cardinality({i \in S : fd[d] # 0 /\ allClients[i].socket = fd[d]}) |-> m]]

(* Mutant: the sender's block list is looked at. *)
serverSendEventOwnList(c, ip) ==
  LET m    == Relayed("SEND", c)
      dest == First(Named(ip))
  IN  /\ Named(ip) # {}
      /\ IF Mine(c) # {} /\ Holds(First(Mine(c)), ip)
         THEN UNCHANGED <<up, allClients, toClient>>
         ELSE IF allClients[dest].status = "logged-in"
         THEN Write(Copies({dest}, m)) /\ UNCHANGED allClients
         ELSE /\ allClients' = [allClients EXCEPT ![dest] = Buffered(@, m)]
              /\ UNCHANGED <<up, toClient>>
      /\ UNCHANGED <<fd, promised, wasReset>>

(* If nobody has that IP any more, destClient is an uninitialised record:  *)
(* the server crashes on it, or the message is lost.                       *)
serverSendEvent(c, ip) ==
  LET m    == Relayed("SEND", c)
      dest == First(Named(ip))
  IN  \/ /\ Named(ip) # {}
         /\ IF Holds(dest, m.from)
            THEN UNCHANGED <<up, allClients, toClient>>
            ELSE IF allClients[dest].status = "logged-in"
            THEN Write(Copies({dest}, m)) /\ UNCHANGED allClients
            ELSE /\ allClients' = [allClients EXCEPT ![dest] = Buffered(@, m)]
                 /\ UNCHANGED <<up, toClient>>
         /\ UNCHANGED <<fd, promised, wasReset>>
      \/ Named(ip) = {} /\ UNCHANGED server
      \/ (Named(ip) = {} \/ Mine(c) = {}) /\ Crash

(* To every entry but those with the sender's socket, blocked or not; an   *)
(* empty entry is still written to, at descriptor 0, where nobody reads.   *)
serverBroadcastEvent(c) ==
  LET m      == Relayed("BROADCAST", c)
      others == Slots \ Mine(c)
      online == {i \in others : allClients[i].status = "logged-in"}
  IN  \/ /\ Write(Copies(online, m))
         /\ allClients' = [i \in Slots |-> IF i \in others \ online
                                           THEN Buffered(allClients[i], m)
                                           ELSE allClients[i]]
         /\ UNCHANGED <<fd, promised, wasReset>>
      \/ Mine(c) = {} /\ Crash

(* The loops over the table handle c's entries up to the first that does   *)
(* not hold ip: an entry for each client, so one, unless a recv failed.    *)
Lacking(c, ip) == {i \in Mine(c) : ~Holds(i, ip)}
Holding(c, ip) == {i \in Mine(c) : \A j \in Lacking(c, ip) : i < j}
Replies(c, S, type) == [k \in 1 .. Cardinality(S) |-> Reply(type, c, {})]

AddTo(i, ip) == [allClients[i] EXCEPT !.blockedUser = Append(@, ip)]
(* Mutant: the place is blanked and still counted. *)
WithoutBlank(i, ip) ==
  [allClients[i] EXCEPT !.blockedUser =
     [j \in DOMAIN @ |-> IF @[j] = ip THEN NoIP ELSE @[j]]]

(* The places behind the first that holds ip move up by one. *)
Without(i, ip) ==
  LET list  == allClients[i].blockedUser
      place == First({j \in DOMAIN list : list[j] = ip})
  IN  [allClients[i] EXCEPT !.blockedUser =
         [j \in 1 .. Len(list) - 1 |-> IF j < place THEN list[j] ELSE list[j + 1]]]

(* Mutant: blocks without looking whether the list has it. *)
serverBlockEventAgain(c, ip) ==
  /\ allClients' = [i \in Slots |-> IF i \in Mine(c) THEN AddTo(i, ip) ELSE allClients[i]]
  /\ Write(To(c, <<Reply("SBLOCK", c, {})>>))
  /\ promised' = [promised EXCEPT ![c] = @ \cup {ip}]
  /\ UNCHANGED <<fd, wasReset>>

serverBlockEvent(c, ip) ==
  LET lacking == Lacking(c, ip)
      added   == IF lacking = {} THEN {} ELSE {First(lacking)}
  IN  /\ allClients' = [i \in Slots |-> IF i \in added THEN AddTo(i, ip) ELSE allClients[i]]
      /\ Write(To(c, Replies(c, Holding(c, ip), "EBLOCK") \o Replies(c, added, "SBLOCK")))
      /\ promised' = IF added = {} THEN promised
                     ELSE [promised EXCEPT ![c] = @ \cup {ip}]
      /\ UNCHANGED <<fd, wasReset>>

(* An IP that is not on the list is put on it. *)
serverUnblockEvent(c, ip) ==
  LET lacking == Lacking(c, ip)
      removed == Holding(c, ip)
      added   == IF lacking = {} THEN {} ELSE {First(lacking)}
  IN  /\ allClients' = [i \in Slots |-> CASE i \in removed -> Without(i, ip)
                                          [] i \in added   -> AddTo(i, ip)
                                          [] OTHER         -> allClients[i]]
      /\ Write(To(c, Replies(c, removed, "SUNBLOCK") \o Replies(c, added, "EUNBLOCK")))
      /\ promised' = IF removed = {} THEN promised
                     ELSE [promised EXCEPT ![c] = @ \ {ip}]
      /\ UNCHANGED <<fd, wasReset>>

Command(cmd, ip) == [cmd |-> cmd, ip |-> ip]

Words == {"LOGIN", "REFRESH", "LOGOUT", "EXIT", "SEND", "BROADCAST", "BLOCK", "UNBLOCK"}

serverEvents(c, k) ==
  CASE k.cmd = "LOGIN"     -> loginAgain(c)
    [] k.cmd = "REFRESH"   -> serverRefreshEvent(c)
    [] k.cmd = "LOGOUT"    -> serverLogoutEvent(c)
    [] k.cmd = "EXIT"      -> serverExitEvent(c)
    [] k.cmd = "SEND"      -> serverSendEvent(c, k.ip)
    [] k.cmd = "BROADCAST" -> serverBroadcastEvent(c)
    [] k.cmd = "BLOCK"     -> serverBlockEvent(c, k.ip)
    [] k.cmd = "UNBLOCK"   -> serverUnblockEvent(c, k.ip)

-----------------------------------------------------------------------------
(* The select loop *)

Received(queue) == {n \in 1 .. MaxRecv : n <= Len(queue)}

(* accept takes the lowest free descriptor; a command that came with the   *)
(* login line is a third token in an array of two.                         *)
acceptClient(c) ==
  LET free   == {i \in Slots : allClients[i].socket = 0}
      socket == First((1 .. Cardinality(Clients)) \ {fd[d] : d \in Clients})
  IN  /\ up /\ toServer[c] # << >> /\ Head(toServer[c]).cmd = "HELLO"
      /\ \E n \in Received(toServer[c]) :
           /\ toServer' = [toServer EXCEPT ![c] = SubSeq(@, n + 1, Len(@))]
           /\ \/ /\ allClients' = IF free = {} THEN allClients
                                  ELSE [allClients EXCEPT
                                          ![First(free)] = newClient(@, socket, c)]
                 /\ fd' = [fd EXCEPT ![c] = socket]
                 /\ serverLoginEvent(c)
                 /\ UNCHANGED <<promised, wasReset>>
              \/ n > 1 /\ Crash
      /\ UNCHANGED <<users, view>>

(* REFRESH is sent without a separator: with another command behind it,    *)
(* its first word is no command.                                           *)
serve(c) ==
  /\ up /\ fd[c] # 0 /\ toServer[c] # << >>
  /\ \E n \in Received(toServer[c]) :
       /\ toServer' = [toServer EXCEPT ![c] = SubSeq(@, n + 1, Len(@))]
       /\ IF n > 1 /\ Head(toServer[c]).cmd = "REFRESH"
          THEN UNCHANGED server
          ELSE serverEvents(c, Head(toServer[c]))
  /\ UNCHANGED <<users, view>>

(* recv returns 0 for a connection the client has closed, and serverEvents *)
(* compares an unset token: it crashes, does nothing, or finds the words   *)
(* of an earlier call in its place.  The next round does so again; words   *)
(* found count as typed.                                                   *)
serveClosed(c) ==
  /\ up /\ fd[c] # 0 /\ toServer[c] = << >> /\ phase[c] = "gone"
  /\ \/ Crash /\ UNCHANGED typed
     \/ /\ typed < MaxTyped /\ typed' = typed + 1
        /\ \E cmd \in Words, ip \in Clients : serverEvents(c, Command(cmd, ip))
  /\ UNCHANGED <<toServer, phase, isLoggedIn, view>>

(* recv fails for a connection the client has reset: it is closed, and the *)
(* entry keeps the descriptor.                                             *)
serveReset(c) ==
  /\ up /\ fd[c] # 0 /\ toServer[c] = << >> /\ phase[c] = "gone"
  /\ fd' = [fd EXCEPT ![c] = 0]
  /\ wasReset' = TRUE
  /\ UNCHANGED <<up, allClients, toClient, promised, toServer, users, view>>

-----------------------------------------------------------------------------
(* The client processes *)

Type(c, k) ==
  /\ typed < MaxTyped /\ typed' = typed + 1
  /\ toServer' = [toServer EXCEPT ![c] = Append(@, k)]

(* The first login connects; later ones use the connection. *)
LOGIN(c) ==
  /\ up /\ phase[c] # "gone" /\ ~isLoggedIn[c]
  /\ Type(c, Command(IF phase[c] = "new" THEN "HELLO" ELSE "LOGIN", NoIP))
  /\ phase' = [phase EXCEPT ![c] = "connected"]
  /\ isLoggedIn' = [isLoggedIn EXCEPT ![c] = TRUE]
  /\ UNCHANGED <<server, view>>

LOGOUT(c) ==
  /\ up /\ phase[c] = "connected" /\ isLoggedIn[c]
  /\ Type(c, Command("LOGOUT", NoIP))
  /\ isLoggedIn' = [isLoggedIn EXCEPT ![c] = FALSE]
  /\ UNCHANGED <<server, phase, view>>

(* The process ends without reading what it was sent. *)
EXIT(c) ==
  /\ up /\ phase[c] = "connected"
  /\ Type(c, Command("EXIT", NoIP))
  /\ phase' = [phase EXCEPT ![c] = "gone"]
  /\ isLoggedIn' = [isLoggedIn EXCEPT ![c] = FALSE]
  /\ toClient' = [toClient EXCEPT ![c] = << >>]
  /\ view' = [view EXCEPT ![c] = {}]
  /\ UNCHANGED <<up, allClients, fd, promised, wasReset>>

(* SEND, BLOCK and UNBLOCK name a host of the client's own list. *)
Talk(c) ==
  /\ up /\ phase[c] = "connected" /\ isLoggedIn[c]
  /\ \/ \E cmd \in {"REFRESH", "BROADCAST"} : Type(c, Command(cmd, NoIP))
     \/ \E cmd \in {"SEND", "BLOCK", "UNBLOCK"}, ip \in view[c] :
          Type(c, Command(cmd, ip))
  /\ UNCHANGED <<server, phase, isLoggedIn, view>>

(* Of what one recv returns, the client acts on the first message. *)
receive(c) ==
  /\ up /\ phase[c] = "connected" /\ toClient[c] # << >>
  /\ \E n \in Received(toClient[c]) :
       toClient' = [toClient EXCEPT ![c] = SubSeq(@, n + 1, Len(@))]
  /\ LET m == Head(toClient[c])
     IN  view' = IF m.type \in {"LOGINSUCCESS", "REFRESHSUCCESS"}
                 THEN [view EXCEPT ![c] = m.ips] ELSE view
  /\ UNCHANGED <<up, allClients, fd, promised, wasReset, toServer, users>>

-----------------------------------------------------------------------------
Init ==
  /\ up = TRUE
  /\ allClients = [i \in Slots |-> [socket |-> 0, IP |-> NoIP, status |-> "unset",
                                    bufferMsg |-> << >>, blockedUser |-> << >>]]
  /\ fd = [c \in Clients |-> 0]
  /\ toServer = [c \in Clients |-> << >>] /\ toClient = [c \in Clients |-> << >>]
  /\ phase = [c \in Clients |-> "new"]
  /\ isLoggedIn = [c \in Clients |-> FALSE]
  /\ view = [c \in Clients |-> {}]
  /\ promised = [c \in Clients |-> {}]
  /\ wasReset = FALSE /\ typed = 0

Next ==
  \E c \in Clients :
    \/ LOGIN(c) \/ LOGOUT(c) \/ EXIT(c) \/ Talk(c) \/ receive(c)
    \/ acceptClient(c) \/ serve(c) \/ serveClosed(c) \/ serveReset(c)

Spec == Init /\ [][Next]_vars

-----------------------------------------------------------------------------
ServerTypeOK ==
  /\ up \in BOOLEAN /\ wasReset \in BOOLEAN
  /\ allClients \in [Slots -> Entry]
  /\ fd \in [Clients -> 0 .. Cardinality(Clients)]
  /\ toClient \in [Clients -> Seq(Message)]
  /\ promised \in [Clients -> SUBSET Clients]

TypeOK ==
  /\ ServerTypeOK
  /\ typed \in 0 .. MaxTyped
  /\ toServer \in [Clients -> Seq([cmd : Words \cup {"HELLO"}, ip : Clients \cup {NoIP}])]
  /\ phase \in [Clients -> {"new", "connected", "gone"}]
  /\ isLoggedIn \in [Clients -> BOOLEAN]
  /\ view \in [Clients -> SUBSET Clients]

(* A message names the client that sent it, on the wire and in a buffer,   *)
(* or nobody: descriptors and entries are reused, but until a recv fails   *)
(* no entry is found for another client's connection.                      *)
(* (helpers.c:91-103, serverFunctions.c:143-155, 203-208)                  *)
NamedSenderSent ==
  ~wasReset =>
    /\ \A c \in Clients : \A i \in DOMAIN toClient[c] :
         toClient[c][i].from \in {toClient[c][i].by, Garbage}
    /\ \A s \in Slots : \A i \in DOMAIN allClients[s].bufferMsg :
         allClients[s].bufferMsg[i].from \in {allClients[s].bufferMsg[i].by, Garbage}

(* An entry in use is that of the one client whose connection has its      *)
(* descriptor, and no client has two. (server.c:74-83, 215-218)            *)
EntriesAreOpen ==
  ~wasReset =>
    \A i \in Slots : allClients[i].socket # 0 =>
      /\ \E c \in Clients : allClients[i].socket = fd[c] /\ allClients[i].IP = c
      /\ \A j \in Slots \ {i} : allClients[j].socket # allClients[i].socket

(* No host is twice on a block list, so that one UNBLOCK frees it and four *)
(* hosts fill it, whatever BLOCK, UNBLOCK and former clients of the entry  *)
(* put there. (serverFunctions.c:254-268, 286-305)                         *)
BlockedOnce ==
  \A i \in Slots : \A j, k \in DOMAIN allClients[i].blockedUser :
    j # k => allClients[i].blockedUser[j] # allClients[i].blockedUser[k]

(* No two clients have one descriptor, and an entry in use has an IP.      *)
OneDescriptorEach ==
  /\ \A c, d \in Clients : fd[c] = fd[d] /\ fd[c] # 0 => c = d
  /\ \A i \in Slots : allClients[i].socket # 0 => allClients[i].IP \in Clients

(* What has been confirmed as blocked is on the list of the client's entry. *)
PromisesKept ==
  ~wasReset =>
    \A i \in Slots, c \in Clients : allClients[i].socket = fd[c] /\ fd[c] # 0 =>
      \A ip \in promised[c] : Holds(i, ip)

(* A HELLO is the first thing a client says, and said once; until it is    *)
(* read the client has no descriptor and has been promised nothing.        *)
HelloFirst ==
  \A c \in Clients :
    /\ phase[c] = "new" => toServer[c] = << >> /\ fd[c] = 0 /\ promised[c] = {}
    /\ \A i \in DOMAIN toServer[c] :
         /\ toServer[c][i].cmd = "HELLO" => i = 1 /\ fd[c] = 0 /\ promised[c] = {}
         /\ toServer[c][i].cmd \in {"SEND", "BLOCK", "UNBLOCK"} => toServer[c][i].ip \in Clients

ServerOK == /\ ServerTypeOK /\ OneDescriptorEach /\ BlockedOnce
            /\ EntriesAreOpen /\ NamedSenderSent /\ PromisesKept
IInv     == TypeOK /\ ServerOK /\ HelloFirst

(* After "SBLOCK" for a host and until "SUNBLOCK", nothing that host sends *)
(* is written to the client, unless it is a broadcast or a recv failed.    *)
(* (serverFunctions.c:165-171, 262-268, 287-296)                           *)
BlockStands ==
  [][\A c \in Clients : Len(toClient'[c]) > Len(toClient[c]) =>
       LET m == toClient'[c][Len(toClient'[c])]
       IN  ~wasReset /\ m.type = "SEND" => m.from \notin promised[c]]_vars
=============================================================================
