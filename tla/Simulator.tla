----------------------------- MODULE Simulator -----------------------------
(***************************************************************************)
(* The emulated network of simulator.cpp, as the three transport protocols *)
(* see it: layer 5 above, the medium below, one timer for A, and the main  *)
(* loop that calls one handler per event.                                  *)
(*                                                                         *)
(* The event list is abstracted to its contents: the packets under way in  *)
(* each direction (their order is their arrival order, because tolayer3    *)
(* schedules a packet after the latest one to the same entity) and whether *)
(* a timer event is pending.  A timer may go off at any moment.            *)
(*                                                                         *)
(* A protocol module EXTENDS this one, adds the state of its two entities  *)
(* and defines A_output, A_input, A_timerinterrupt and B_input.            *)
(***************************************************************************)
EXTENDS Packets

CONSTANTS nsimmax,       \* -m: messages layer 5 generates before the run ends
          MaxInFlight    \* bound on the packets under way in each direction

(* application_msgs, packets, buffer, acked... all have 1000 entries. *)
ASSUME nsimmaxAssumption == nsimmax \in 0 .. 1000
ASSUME MaxInFlightAssumption == MaxInFlight \in Nat

VARIABLES
  nsim,           \* messages layer 5 has given to A (cur_msg_sent is equal)
  cur_msg_recv,   \* messages B has given to layer 5
  exitcode,       \* 0, or what tolayer5 called exit() with
  timer,          \* is A's TIMER_INTERRUPT event on the event list?
  toA, toB        \* FROM_LAYER3 events for A and for B, in arrival order

simvars == <<nsim, cur_msg_recv, exitcode, timer, toA, toB>>

SimTypeOK ==
  /\ nsim \in 0 .. nsimmax
  /\ cur_msg_recv \in Nat
  /\ exitcode \in {0, 52, 63}
  /\ timer \in BOOLEAN
  /\ toA \in Seq(Pkt)
  /\ toB \in Seq(Pkt)

SimInit ==
  /\ nsim = 0
  /\ cur_msg_recv = 0
  /\ exitcode = 0
  /\ timer = FALSE
  /\ toA = << >>
  /\ toB = << >>

(* The main loop handles another event: neither exit() nor the break that  *)
(* ends the simulation at the first event after message nsimmax.           *)
Running == exitcode = 0 /\ nsim < nsimmax

-----------------------------------------------------------------------------
(* What the main loop does before it calls a handler *)

(* A FROM_LAYER5 event gives A the message Letter(nsim). *)
FromLayer5 == Running /\ nsim' = nsim + 1

(* A FROM_LAYER3 event takes the first packet under way to the entity. *)
FromLayer3A == Running /\ toA # << >> /\ toA' = Tail(toA)
FromLayer3B == Running /\ toB # << >> /\ toB' = Tail(toB)

(* A TIMER_INTERRUPT event. *)
TimerEvent == Running /\ timer

-----------------------------------------------------------------------------
(* The calls the handlers make *)

(* tolayer3: the queue after the medium took the packets s. *)
tolayer3(queue, s) == {queue \o r : r \in Carried(s)}

RoomFor(queue, n) == Len(queue) + n <= MaxInFlight

(* What layer 5 recorded as message k (0: no such message yet). *)
ApplicationMsg(k) == IF k < nsim THEN Letter(k) ELSE 0

(* The check tolayer5 makes of the j-th of the payloads ds; 0 is success.  *)
(* Its third check (exit 145) needs an undelivered message below           *)
(* cur_msg_recv, which the two assignments at its end rule out.            *)
Verdict(ds, j) ==
  LET expected == ApplicationMsg(cur_msg_recv + j - 1)
  IN  IF expected = 0 THEN 52
      ELSE IF ds[j] # Text(expected) THEN 63 ELSE 0

(* B hands the payloads ds to layer 5, one call after the other.  exit()   *)
(* ends the process: nothing the handler does after it is ever observed.   *)
tolayer5(ds) ==
  LET bad == {j \in 1 .. Len(ds) : Verdict(ds, j) # 0}
  IN  IF bad = {}
      THEN cur_msg_recv' = cur_msg_recv + Len(ds) /\ UNCHANGED exitcode
      ELSE \E j \in bad :
             /\ \A k \in bad : j <= k
             /\ cur_msg_recv' = cur_msg_recv + j - 1
             /\ exitcode' = Verdict(ds, j)

-----------------------------------------------------------------------------
(* No run ends in one of tolayer5's exits: B gives layer 5 exactly the     *)
(* messages A was given, each once, in order, undamaged, and none before   *)
(* A was given it.  (simulator.cpp:594-609)                                *)
NoPanic == exitcode = 0
=============================================================================
