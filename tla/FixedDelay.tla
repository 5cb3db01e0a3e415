----------------------------- MODULE FixedDelay -----------------------------
(***************************************************************************)
(* The fixed delay module (FixedDelayModule.cpp).  Each direction has a     *)
(* queue of packets with the time they arrived, and one timer, set for the  *)
(* packet at the front.  The packet thread runs the receive and the timer   *)
(* handlers; the MQTT thread stores a new delay and sets both timers again, *)
(* without a lock: that handler is cut where it has read the front of the   *)
(* queue and not yet set the timer, and the packet thread may run there.    *)
(***************************************************************************)
EXTENDS AsioTimer, Sequences, FiniteSets

CONSTANTS
  Sides,       \* directions: lr and rl
  MaxPackets,  \* bound: MaxPackets[s], packets received in direction s
  Delays,      \* values the delay parameter takes, in ticks
  MaxAge       \* bound: ticks by which a packet's stay is tracked

ASSUME FixedDelayAssumption ==
  /\ "none" \notin Sides
  /\ MaxPackets \in [Sides -> Nat] /\ MaxAge \in Nat
  /\ Delays \subseteq 0..Far - 1 /\ Delays # {}

NoFront == [side |-> "none", expiry |-> Far]

VARIABLES
  delay,         \* parameter_delay
  packet_queue,  \* packet_queue_lr, packet_queue_rl: packets and their age
  timer,         \* timer_lr, timer_rl
  received,      \* packets received; a packet is its number
  sent,          \* the packets sent, in that order
  changing,      \* the sides whose timer the change handler has yet to set
  front          \* the expiry it has computed, and for which side

vars == <<delay, packet_queue, timer, received, sent, changing, front>>

Entry == [id : Nat, age : 0..MaxAge]

(* Type invariant. *)
TypeOK ==
  /\ delay \in Delays
  /\ packet_queue \in [Sides -> Seq(Entry)]
  /\ timer \in [Sides -> Timer]
  /\ received \in [Sides -> Nat]
  /\ sent \in [Sides -> Seq(Nat)]
  /\ changing \subseteq Sides
  /\ front \in [side : Sides, expiry : Int] \cup {NoFront}

Empty(s) == packet_queue[s] = <<>>
Numbers(q) == [i \in 1..Len(q) |-> q[i].id]

(* A packet's arrival plus the delay, relative to now. *)
Deadline(e) == delay - e.age

(* packet_queue.front() plus the delay: the front of an empty queue is whatever
   its memory holds. *)
FrontDeadlines(q) == IF q = <<>> THEN {-MaxLate, Far} ELSE {Deadline(Head(q))}

(* The MQTT thread is not in the change handler. *)
Unchanging == changing = {} /\ front = NoFront

----------------------------------------------------------------------------
(* The packet thread *)

(* receiveFromLeftModule, receiveFromRightModule: with no delay the packet goes
   straight out, whatever is queued. *)
(* Mutant: a packet sent at once is queued as well. *)
ReceiveTwice(s) ==
  /\ received[s] < MaxPackets[s]
  /\ received' = [received EXCEPT ![s] = @ + 1]
  /\ sent' = [sent EXCEPT ![s] = IF delay = 0 THEN Append(@, received'[s]) ELSE @]
  /\ packet_queue' = [packet_queue EXCEPT ![s] = Append(@, [id |-> received'[s], age |-> 0])]
  /\ timer' = IF Empty(s) THEN [timer EXCEPT ![s] = Start(@, delay)] ELSE timer
  /\ UNCHANGED <<delay, changing, front>>

(* Mutant: the packet is queued at the wrong end. *)
ReceiveInFront(s) ==
  /\ received[s] < MaxPackets[s]
  /\ received' = [received EXCEPT ![s] = @ + 1]
  /\ IF delay = 0
       THEN sent' = [sent EXCEPT ![s] = Append(@, received'[s])] /\ UNCHANGED <<packet_queue, timer>>
       ELSE /\ packet_queue' =
                 [packet_queue EXCEPT ![s] = <<[id |-> received'[s], age |-> 0]>> \o @]
            /\ timer' = IF Empty(s) THEN [timer EXCEPT ![s] = Start(@, delay)] ELSE timer
            /\ UNCHANGED sent
  /\ UNCHANGED <<delay, changing, front>>

Receive(s) ==
  /\ received[s] < MaxPackets[s]
  /\ received' = [received EXCEPT ![s] = @ + 1]
  /\ IF delay = 0
       THEN sent' = [sent EXCEPT ![s] = Append(@, received'[s])] /\ UNCHANGED <<packet_queue, timer>>
       ELSE /\ packet_queue' =
                 [packet_queue EXCEPT ![s] = Append(@, [id |-> received'[s], age |-> 0])]
            /\ timer' = IF Empty(s) THEN [timer EXCEPT ![s] = Start(@, delay)] ELSE timer
            /\ UNCHANGED sent
  /\ UNCHANGED <<delay, changing, front>>

(* The reactor. *)
Fire ==
  /\ \A s \in Sides : timer[s].ready = 0
  /\ \E s \in Sides : Due(timer[s])
  /\ timer' = [s \in Sides |-> IF Due(timer[s]) THEN Collect(timer[s]) ELSE timer[s]]
  /\ UNCHANGED <<delay, packet_queue, received, sent, changing, front>>

(* How many packets at the front of queue q are due. *)
DueCount(q) == Cardinality({n \in 1..Len(q) : \A i \in 1..n : Deadline(q[i]) <= 0})

(* processQueueLr, processQueueRl: send what is due, set the timer for what is
   then at the front. *)
(* Mutant: the timer is not set again for what stays. *)
ProcessLast(s) ==
  LET q == packet_queue[s]
      n == DueCount(q)
  IN  /\ timer[s].ready > 0
      /\ sent' = [sent EXCEPT ![s] = @ \o Numbers(SubSeq(q, 1, n))]
      /\ packet_queue' = [packet_queue EXCEPT ![s] = SubSeq(q, n + 1, Len(q))]
      /\ timer' = [timer EXCEPT ![s] = Return(@)]
      /\ UNCHANGED <<delay, received, changing, front>>

Process(s) ==
  LET q == packet_queue[s]
      n == DueCount(q)
      rest == SubSeq(q, n + 1, Len(q))
      done == Return(timer[s])
  IN  /\ timer[s].ready > 0
      /\ sent' = [sent EXCEPT ![s] = @ \o Numbers(SubSeq(q, 1, n))]
      /\ packet_queue' = [packet_queue EXCEPT ![s] = rest]
      /\ timer' = [timer EXCEPT ![s] = IF rest = <<>> THEN done ELSE Start(done, Deadline(Head(rest)))]
      /\ UNCHANGED <<delay, received, changing, front>>

Older(e) == [e EXCEPT !.age = IF @ < MaxAge THEN @ + 1 ELSE @]

Tick ==
  /\ timer' = [s \in Sides |-> Tock(timer[s])]
  /\ packet_queue' = [s \in Sides |-> [i \in DOMAIN packet_queue[s] |-> Older(packet_queue[s][i])]]
  /\ front' = [front EXCEPT !.expiry = Closer(@)]
  /\ UNCHANGED <<delay, received, sent, changing>>

----------------------------------------------------------------------------
(* The MQTT thread: parameter_delay.set, then handleDelayChange *)

(* Mutant: no change handler. *)
SetDelayOnly(d) ==
  /\ Unchanging
  /\ delay' = d
  /\ UNCHANGED <<packet_queue, timer, received, sent, changing, front>>

SetDelay(d) ==
  /\ Unchanging
  /\ delay' = d
  /\ changing' = Sides
  /\ UNCHANGED <<packet_queue, timer, received, sent, front>>

(* setQueueTimeout: cancel the timer, read the front of the queue ... *)
ReadFront(s) ==
  /\ s \in changing /\ front = NoFront
  /\ \E e \in FrontDeadlines(packet_queue[s]) : front' = [side |-> s, expiry |-> e]
  /\ timer' = [timer EXCEPT ![s] = Cancel(@)]
  /\ changing' = changing \ {s}
  /\ UNCHANGED <<delay, packet_queue, received, sent>>

(* ... and set the timer for it. *)
(* Mutant: the timer is not waited for. *)
SetTimeoutOnly ==
  /\ front # NoFront
  /\ timer' = [timer EXCEPT ![front.side] = ExpiresAt(@, front.expiry)]
  /\ front' = NoFront
  /\ UNCHANGED <<delay, packet_queue, received, sent, changing>>

SetTimeout ==
  /\ front # NoFront
  /\ timer' = [timer EXCEPT ![front.side] = Start(@, front.expiry)]
  /\ front' = NoFront
  /\ UNCHANGED <<delay, packet_queue, received, sent, changing>>

----------------------------------------------------------------------------
(* The constructor sets the delay, and so sets both timers for the front of an
   empty queue. *)
Init ==
  /\ delay \in Delays
  /\ packet_queue = [s \in Sides |-> <<>>]
  /\ timer \in [Sides -> {Start(Unarmed, e) : e \in FrontDeadlines(<<>>)}]
  /\ received = [s \in Sides |-> 0]
  /\ sent = [s \in Sides |-> <<>>]
  /\ changing = {} /\ front = NoFront

Packet == Fire \/ \E s \in Sides : Receive(s) \/ Process(s)
Change == SetTimeout \/ \E s \in Sides : ReadFront(s)
Message == \E d \in Delays : SetDelay(d)

Next == Packet \/ Tick \/ Change \/ Message

Spec == Init /\ [][Next]_vars

(* Both threads finish what they are at, and time passes. *)
Fairness ==
  /\ WF_vars(Fire) /\ WF_vars(Tick) /\ WF_vars(Change)
  /\ \A s \in Sides : WF_vars(Process(s))

----------------------------------------------------------------------------
(* Properties *)

(* The packets sent and queued, in that order. *)
All(s) == sent[s] \o Numbers(packet_queue[s])

(* Every packet received has been sent or is queued, once. *)
NoneLost ==
  \A s \in Sides :
    /\ Len(All(s)) = received[s]
    /\ {All(s)[i] : i \in 1..Len(All(s))} = 1..received[s]
=============================================================================
