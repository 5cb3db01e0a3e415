---------------------------- MODULE MCFixedDelay ----------------------------
(* FixedDelay with a history of what the code does not rule out and what      *)
(* order and punctuality do not survive.                                      *)
EXTENDS FixedDelay

(* Two packets one way, one the other. *)
MCMaxPackets == [s \in Sides |-> IF s = "lr" THEN 2 ELSE 1]

VARIABLES
  late,     \* time has passed a handler that was due, or the change handler
  raced,    \* the packet thread has run inside the change handler
  express   \* the packets that came while the delay was 0

history == <<late, raced, express>>

HandlerDue == \E s \in Sides : timer[s].ready > 0 \/ Due(timer[s])

MCInit == Init /\ late = FALSE /\ raced = FALSE /\ express = [s \in Sides |-> {}]

MCNext ==
  \/ /\ Packet
     /\ raced' = (raced \/ ~Unchanging)
     /\ express' = [s \in Sides |-> express[s] \cup
                      IF delay = 0 /\ received'[s] > received[s] THEN {received'[s]} ELSE {}]
     /\ UNCHANGED late
  \/ Tick /\ late' = (late \/ ~Unchanging \/ HandlerDue) /\ UNCHANGED <<raced, express>>
  \/ (Change \/ Message) /\ UNCHANGED history

MCSpec == MCInit /\ [][MCNext]_<<vars, history>> /\ Fairness

----------------------------------------------------------------------------
(* Packets leave in the order they came, through every change of the delay,
   but for those that came while it was 0: these are sent past the others
   (FixedDelayModule.cpp:45). *)
Fifo ==
  \A s \in Sides : \A i, j \in 1..Len(All(s)) :
    i < j /\ All(s)[i] \notin express[s] /\ All(s)[j] \notin express[s] => All(s)[i] < All(s)[j]

(* While something is queued, a handler is to run for it, or the timer is set, and
   waited for, so that one runs by the time the front of the queue is due (time e
   is no later than that), or the change handler is about to see to it
   (FixedDelayModule.cpp:62-66, 79).  Not so after the race: the change handler
   may have read the front of an empty queue, which is any time, and set the timer
   to that over what a packet received in between had set. *)
InTime(e, s) == e <= 0 \/ e <= Deadline(Head(packet_queue[s]))
TimerArmed ==
  ~ raced => \A s \in Sides : ~ Empty(s) =>
    \/ s \in changing
    \/ front.side = s /\ InTime(front.expiry, s)
    \/ timer[s].ready > 0
    \/ timer[s].waiting > 0 /\ InTime(timer[s].expiry, s)

(* As long as handlers run when they are due and the change handler alone, no
   packet stays longer than the delay, the one in force at that moment: the timer
   is set again for a delay that is changed (FixedDelayModule.cpp:64). *)
OnTime ==
  [][Tick /\ ~late' /\ ~raced =>
       \A s \in Sides : ~ Empty(s) => Deadline(Head(packet_queue[s])) > 0]_vars

(* README.md says parameters can be changed at runtime; once the delay is left
   alone, a packet that is queued is sent, unless the packet thread ran inside a
   change handler. *)
Queued(s, p) == \E i \in DOMAIN packet_queue[s] : packet_queue[s][i].id = p
Delivered ==
  (<>[](Unchanging /\ ~raced)) =>
    \A s \in Sides : \A p \in 1..MaxPackets[s] : Queued(s, p) ~> ~ Queued(s, p)
=============================================================================
