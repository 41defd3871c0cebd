------------------------------ MODULE TimedSR ------------------------------
(***************************************************************************)
(* Selective Repeat on the event list of simulator.cpp, with its clock:    *)
(* the module that justifies what SR and Simulator abstract.  An event is  *)
(* handled at its time and in the order of the list; the medium delivers   *)
(* after the latest packet to the same entity; the timer is an event whose *)
(* time sr.cpp computes from the send times it remembers.                  *)
(*                                                                         *)
(* It keeps the variables of SR.  Four of them, toA, toB, timer and        *)
(* timers, are functions of the event list and the send times here, set at *)
(* the end of every handler (Derived); SR's handlers are not used.         *)
(*                                                                         *)
(* Time counts in whole units; jimsrand() chooses among Delays and Gaps.   *)
(***************************************************************************)
EXTENDS SR, SequencesExt

CONSTANTS
  increment,   \* the timeout, 15 in sr.cpp
  Delays,      \* transmission delays: 1 + 9 * jimsrand()
  Gaps         \* times between messages of layer 5: 2 * lambda * jimsrand()

ASSUME TimesAssumption ==
  increment \in Nat /\ Delays \subseteq 1 .. 10 /\ Gaps \subseteq Nat

VARIABLES
  time_local,     \* the time of the event being handled
  evlist,         \* the event list
  sent_at         \* A: timers[k], when packet k was last sent, 0 if never

timedvars == <<vars, time_local, evlist, sent_at>>

-----------------------------------------------------------------------------
(* The event list *)

Event(t, type, entity, p) ==
  [evtime |-> t, evtype |-> type, eventity |-> entity, packet |-> p]
Nothing == EmptyText   \* the packet of an event that carries none

IsPacketTo(entity, q) == q.evtype = "FROM_LAYER3" /\ q.eventity = entity
IsTimer(q) == q.evtype = "TIMER_INTERRUPT"

PacketsTo(list, entity) == {i \in DOMAIN list : IsPacketTo(entity, list[i])}
TimersIn(list)          == {i \in DOMAIN list : IsTimer(list[i])}

(* Mutant: behind the events of the same time and those just after it. *)
inserteventLate(list, p) ==
  InsertAt(list, Min({i \in DOMAIN list : list[i].evtime > p.evtime + 1}
                       \cup {Len(list) + 1}), p)

(* p goes before the first event that is not earlier. *)
insertevent(list, p) ==
  InsertAt(list, Min({i \in DOMAIN list : list[i].evtime >= p.evtime}
                       \cup {Len(list) + 1}), p)

generate_next_arrival(list) ==
  {insertevent(list, Event(time_local' + gap, "FROM_LAYER5", "A", Nothing)) :
     gap \in Gaps}

(* The first timer event goes; if there is none, only a warning is printed. *)
stoptimer(list) ==
  IF TimersIn(list) = {} THEN list ELSE RemoveAt(list, Min(TimersIn(list)))

(* Starting a timer that runs does nothing but print a warning. *)
starttimer(list, left) ==
  IF TimersIn(list) = {}
  THEN insertevent(list, Event(time_local' + left, "TIMER_INTERRUPT", "A", Nothing))
  ELSE list

(* Mutant: every packet's delay counts from now. *)
Timed_tolayer3Free(list, entity, p) ==
  {list} \cup
  {insertevent(list, Event(time_local' + delay, "FROM_LAYER3", entity, Damage(p, how))) :
     delay \in Delays, how \in Fates}

(* The arrival time of the last packet in the list to the same entity. *)
lastime(list, entity) ==
  IF PacketsTo(list, entity) = {}
  THEN time_local'
  ELSE list[Max(PacketsTo(list, entity))].evtime

(* A packet is lost, or arrives whole or damaged, after those before it. *)
Timed_tolayer3(list, entity, p) ==
  {list} \cup
  {insertevent(list, Event(lastime(list, entity) + delay, "FROM_LAYER3",
                           entity, Damage(p, how))) :
     delay \in Delays, how \in Fates}

(* The main loop takes the first event and sets the clock to its time. *)
TakeEvent(type, entity) ==
  /\ Running
  /\ evlist # << >>
  /\ Head(evlist).evtype = type /\ Head(evlist).eventity = entity
  /\ time_local' = Head(evlist).evtime

-----------------------------------------------------------------------------
(* What SR has as variables: the packets under way to an entity in their   *)
(* order on the list, whether the timer runs, and which packets have a     *)
(* send time.                                                              *)

(* The k-th position of the set S of positions. *)
InOrder(S) ==
  [k \in 1 .. Cardinality(S) |->
     CHOOSE i \in S : Cardinality({j \in S : j <= i}) = k]

UnderWay(list, entity) ==
  [k \in 1 .. Cardinality(PacketsTo(list, entity)) |->
     list[InOrder(PacketsTo(list, entity))[k]].packet]

HaveTime(at) == {k \in DOMAIN at : at[k] # 0}

Derived ==
  /\ toA' = UnderWay(evlist', "A")
  /\ toB' = UnderWay(evlist', "B")
  /\ IF TimersIn(evlist') = {} THEN timer' = FALSE ELSE timer' = TRUE
  /\ timers' = HaveTime(sent_at')

-----------------------------------------------------------------------------
(* The handlers *)

(* The first message comes after time 0: the send time of one that A sent  *)
(* at 0 exactly would say that it was never sent.                          *)
TimedInit ==
  /\ Init
  /\ time_local = 0
  /\ \E gap \in Gaps \ {0} : evlist = <<Event(gap, "FROM_LAYER5", "A", Nothing)>>
  /\ sent_at = [k \in 0 .. nsimmax - 1 |-> 0]

TimedA_output ==
  /\ TakeEvent("FROM_LAYER5", "A")
  /\ nsim' = nsim + 1
  /\ send_packets' = Append(send_packets, Text(Letter(nsim)))
  /\ \E list \in generate_next_arrival(Tail(evlist)) :
       IF nextseq < winbase + winsize
       THEN /\ RoomFor(toB, 1)
            /\ \E sent \in Timed_tolayer3(list, "B", SealedPkt(send_packets', nextseq)) :
                 evlist' = IF winbase = nextseq THEN starttimer(sent, increment) ELSE sent
            /\ sent_at' = [sent_at EXCEPT ![nextseq] = time_local']
            /\ unackedPkt' = IF winbase = nextseq THEN winbase ELSE unackedPkt
            /\ nextseq' = nextseq + 1
       ELSE /\ evlist' = list
            /\ UNCHANGED <<sent_at, unackedPkt, nextseq>>
  /\ UNCHANGED <<cur_msg_recv, exitcode, winbase, acked, bvars>>
  /\ Derived

(* An undamaged acknowledgement for packet n. *)
TimedAcknowledged(n) ==
  /\ acked' = acked \cup {n}
  /\ \E k \in winbase .. nsimmax :
       FirstOutside(acked', winbase, k) /\ winbase' = k
  /\ IF unackedPkt = n
     THEN \E u \in 0 .. nsimmax :
            /\ checkUnackedPkt(u, winbase', acked', HaveTime(sent_at))
            /\ unackedPkt' = u
            /\ evlist' = IF u \in HaveTime(sent_at)
                         THEN starttimer(stoptimer(Tail(evlist)),
                                         sent_at[u] + increment - time_local')
                         ELSE stoptimer(Tail(evlist))
     ELSE evlist' = Tail(evlist) /\ UNCHANGED unackedPkt

TimedA_input ==
  /\ TakeEvent("FROM_LAYER3", "A")
  /\ LET p == Head(evlist).packet
     IN  IF isValidChecksum(p)
         THEN TimedAcknowledged(p.acknum)
         ELSE evlist' = Tail(evlist) /\ UNCHANGED <<acked, winbase, unackedPkt>>
  /\ UNCHANGED <<nsim, cur_msg_recv, exitcode, nextseq, send_packets, sent_at, bvars>>
  /\ Derived

(* Mutant: the packet sent again keeps its old send time. *)
TimedA_timerinterruptOldTime ==
  /\ TakeEvent("TIMER_INTERRUPT", "A")
  /\ RoomFor(toB, 1)
  /\ \E u \in 0 .. nsimmax :
       /\ checkUnackedPkt(u, winbase, acked, HaveTime(sent_at))
       /\ unackedPkt' = u
       /\ \E sent \in Timed_tolayer3(Tail(evlist), "B", StoredPkt(unackedPkt)) :
            evlist' = starttimer(sent, increment)
  /\ UNCHANGED <<nsim, cur_msg_recv, exitcode, winbase, nextseq, send_packets,
                 acked, sent_at, bvars>>
  /\ Derived

TimedA_timerinterrupt ==
  /\ TakeEvent("TIMER_INTERRUPT", "A")
  /\ RoomFor(toB, 1)
  /\ sent_at' = [sent_at EXCEPT ![unackedPkt] = time_local']
  /\ \E u \in 0 .. nsimmax :
       /\ checkUnackedPkt(u, winbase, acked, HaveTime(sent_at'))
       /\ unackedPkt' = u
       /\ \E sent \in Timed_tolayer3(Tail(evlist), "B", StoredPkt(unackedPkt)) :
            evlist' = starttimer(sent, sent_at'[u] + increment - time_local')
  /\ UNCHANGED <<nsim, cur_msg_recv, exitcode, winbase, nextseq, send_packets,
                 acked, bvars>>
  /\ Derived

TimedB_input ==
  /\ TakeEvent("FROM_LAYER3", "B")
  /\ LET p == Head(evlist).packet
     IN  IF isValidChecksum(p)
         THEN /\ RoomFor(toA, 1)
              /\ evlist' \in Timed_tolayer3(Tail(evlist), "A", AckPkt(p.seqnum))
              /\ Received(p.seqnum, p.payload)
         ELSE evlist' = Tail(evlist) /\ UNCHANGED <<cur_msg_recv, exitcode, bvars>>
  /\ UNCHANGED <<nsim, winbase, nextseq, send_packets, acked, unackedPkt, sent_at>>
  /\ Derived

TimedNext ==
  TimedA_output \/ TimedA_input \/ TimedA_timerinterrupt \/ TimedB_input

TimedSpec == TimedInit /\ [][TimedNext]_timedvars

-----------------------------------------------------------------------------
(* Every timed behaviour is one of SR: packets to one entity keep their    *)
(* order on the event list, and stoptimer and starttimer keep at most one  *)
(* timer, which SR may let go off at any moment.                           *)
ImplementsSR == Spec

(* The event list is ordered by time. *)
EventsInOrder ==
  \A i, j \in DOMAIN evlist : i < j => evlist[i].evtime <= evlist[j].evtime

(* The one timer is due one timeout after the lowest unconfirmed packet    *)
(* was last sent, though sr.cpp computes its time in three places.         *)
(* (sr.cpp:104, 123-126, 137-143)                                          *)
TimerMatchesBase ==
  \A i \in DOMAIN evlist : IsTimer(evlist[i]) =>
    evlist[i].evtime = sent_at[winbase] + increment

(* A timer lies ahead of the clock: simulator.cpp:501 says of starttimer   *)
(* "create future event for when timer goes off".                          *)
TimerInFuture ==
  \A i \in DOMAIN evlist : IsTimer(evlist[i]) => evlist[i].evtime >= time_local
=============================================================================
