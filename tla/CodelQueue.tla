----------------------------- MODULE CodelQueue -----------------------------
(***************************************************************************)
(* The CoDel queue (CodelQueueModule.cpp).  Time is an integer; it starts    *)
(* more than 16 intervals after the zero that marks an unset time point.    *)
(* A dequeue is one action: `now' is read once and nothing interrupts it.   *)
(***************************************************************************)
EXTENDS EcnQueue

CONSTANTS
  INTERVAL,
  MAXPACKET,
  Targets,    \* values of target_queue_time
  Horizon     \* bound: how long the clock runs

ASSUME CodelAssumption ==
  /\ INTERVAL \in Nat \ {0} /\ MAXPACKET \in Nat /\ Horizon \in Nat
  /\ Targets \subseteq Nat /\ Targets # {}

VARIABLES
  now,
  arrived,       \* arrival times of the packets in packet_queue
  target, first_above_time, drop_next, count, dropping,
  last_short     \* history: when the queue last was short, or a packet in time

codel == <<target, first_above_time, drop_next, count, dropping>>
vars == <<base, now, arrived, codel, last_short>>

Start == 16 * INTERVAL + 1

(* Type invariant. *)
TypeOK ==
  /\ QueueTypeOK
  /\ now \in Start..(Start + Horizon)
  /\ arrived \in Seq(Start..now) /\ Len(arrived) = Len(packet_queue)
  /\ target \in Targets /\ first_above_time \in Nat /\ drop_next \in Nat
  /\ count \in 0..MaxPackets /\ dropping \in BOOLEAN

(* The next drop, INTERVAL / sqrt(n) after t, rounded down. *)
ControlLaw(t, n) ==
  t + (CHOOSE k \in 0..INTERVAL :
         k * k * n <= INTERVAL * INTERVAL /\ (k + 1) * (k + 1) * n > INTERVAL * INTERVAL)

(* enqueue. *)
Enqueue(p) ==
  /\ Arrive
  /\ IF Full
       THEN Drop /\ UNCHANGED arrived
       ELSE Queue(p) /\ arrived' = Append(arrived, now)
  /\ UNCHANGED <<now, codel, last_short>>

----------------------------------------------------------------------------
(* dequeue.  A record holds what it has come to: how many packets were taken,
   whether the last may be dropped and whether it was marked, and the fields. *)
Fields ==
  [taken |-> 0, ok |-> FALSE, mark |-> FALSE, above |-> first_above_time,
   next |-> drop_next, count |-> count, dropping |-> dropping]

InTime(k) == now - arrived[k] < target
Short(k) == Len(packet_queue) - k <= MAXPACKET

(* There is a k-th packet, it has waited too long, and the queue is long without it. *)
(* Mutant: the size is not looked at. *)
StandingAlways(k) == k <= Len(packet_queue) /\ ~ InTime(k)
Standing(k) == k <= Len(packet_queue) /\ ~ InTime(k) /\ ~ Short(k)

(* Mutant: a packet in time does not end the time above the target. *)
dodequeueKeeps(d) ==
  LET k == d.taken + 1
  IN  IF Standing(k)
        THEN [d EXCEPT !.taken = k,
                       !.above = IF @ = 0 THEN now + INTERVAL ELSE @,
                       !.ok = d.above # 0 /\ now >= d.above]
        ELSE [d EXCEPT !.taken = k, !.ok = FALSE]

dodequeue(d) ==
  LET k == d.taken + 1
  IN  IF Standing(k)
        THEN [d EXCEPT !.taken = k,
                       !.above = IF @ = 0 THEN now + INTERVAL ELSE @,
                       !.ok = d.above # 0 /\ now >= d.above]
        ELSE [d EXCEPT !.taken = k, !.above = 0, !.ok = FALSE]

(* The next drop after i rounds of the dropping state. *)
Due(d, i) ==
  LET due[j \in Nat] == IF j = 0 THEN d.next ELSE ControlLaw(due[j - 1], d.count + j)
  IN  due[i]

(* The round ends the while loop: its packet may not be dropped, or after it no
   drop is due. *)
LastRound(d, i) == Standing(d.taken + i) => now < Due(d, i)

(* The while loop; a capable packet is marked instead and ends it. *)
Dropping(d, capable) ==
  LET n == CHOOSE i \in 1..Len(packet_queue) :
             LastRound(d, i) /\ \A j \in 1..(i - 1) : ~ LastRound(d, j)
      r == [d EXCEPT !.taken = @ + n, !.count = @ + n]
  IN  CASE ~ d.dropping \/ now < d.next -> d
        [] d.dropping /\ now >= d.next /\ capable ->
             [d EXCEPT !.count = @ + 1, !.mark = TRUE, !.next = ControlLaw(@, d.count + 1)]
        [] d.dropping /\ now >= d.next /\ ~ capable ->
             IF Standing(r.taken)
               THEN [r EXCEPT !.next = Due(d, n)]
               ELSE [r EXCEPT !.next = Due(d, n - 1), !.above = 0, !.ok = FALSE, !.dropping = FALSE]

(* Entering the dropping state. *)
Entering(d, capable) ==
  LET r == IF capable THEN [d EXCEPT !.mark = TRUE] ELSE dodequeue(d)
      c == IF now - d.next < 16 * INTERVAL /\ d.count > 2 THEN d.count - 2 ELSE 1
  IN  [r EXCEPT !.dropping = TRUE, !.count = c, !.next = ControlLaw(now, c)]

(* Mutant: the dropping state is not left when a packet may not be dropped. *)
OutcomeStays ==
  LET d == dodequeue(Fields)
      capable == ecn_mode /\ Capable(Head(packet_queue))
  IN  CASE packet_queue = <<>> -> d
        [] packet_queue # <<>> /\ d.dropping -> Dropping(d, capable)
        [] packet_queue # <<>> /\ ~ d.dropping /\ d.ok -> Entering(d, capable)
        [] OTHER -> d

Outcome ==
  LET d == dodequeue(Fields)
      capable == ecn_mode /\ Capable(Head(packet_queue))
  IN  CASE packet_queue = <<>> -> d
        [] packet_queue # <<>> /\ d.dropping -> Dropping([d EXCEPT !.dropping = d.ok], capable)
        [] packet_queue # <<>> /\ ~ d.dropping /\ d.ok -> Entering(d, capable)
        [] OTHER -> d

Dequeue ==
  LET d == Outcome
      q == packet_queue
      found == d.taken <= Len(q)
  IN  /\ UNCHANGED <<packets, ecn_mode, buffer_size, now, target>>
      /\ packet_queue' = SubSeq(q, d.taken + 1, Len(q))
      /\ arrived' = SubSeq(arrived, d.taken + 1, Len(q))
      /\ delivered' = IF found
                        THEN Append(delivered, IF d.mark THEN setECN(q[d.taken], CE) ELSE q[d.taken])
                        ELSE delivered
      /\ packets_dropped' = packets_dropped + (IF q = <<>> THEN 0 ELSE d.taken - 1)
      /\ packets_marked' = packets_marked + (IF d.mark THEN 1 ELSE 0)
      /\ first_above_time' = d.above /\ drop_next' = d.next
      /\ count' = d.count /\ dropping' = d.dropping
      /\ last_short' = IF ~ found \/ \E k \in 1..d.taken : InTime(k) \/ Short(k)
                         THEN now ELSE last_short

(* A parameter of the module changes. *)
SetParameter ==
  \/ SetParameters /\ UNCHANGED <<now, arrived, codel, last_short>>
  \/ /\ target' \in Targets
     /\ UNCHANGED <<base, now, arrived, first_above_time, drop_next, count, dropping, last_short>>

Tick ==
  /\ now < Start + Horizon /\ now' = now + 1
  /\ UNCHANGED <<base, arrived, codel, last_short>>

Init ==
  /\ QueueInit
  /\ now = Start /\ arrived = <<>> /\ last_short = Start
  /\ target \in Targets
  /\ first_above_time = 0 /\ drop_next = 0 /\ count = 0 /\ dropping = FALSE

Next ==
  \/ \E p \in Arrival : Enqueue(p)
  \/ Dequeue
  \/ SetParameter
  \/ Tick

Spec == Init /\ [][Next]_vars

----------------------------------------------------------------------------
(* A packet is dropped by the algorithm or marked only when for an INTERVAL no
   packet taken was in time, and the queue never short, however the dropping state
   was entered and left before. *)
ActsOnStandingQueue ==
  [][(packets_dropped' # packets_dropped \/ packets_marked' # packets_marked) /\ Dequeue
       => now - last_short >= INTERVAL]_vars

(* A dequeue never drops the queue empty: the limiter that asks gets a packet if
   there was one.  It would wait for a notification otherwise. *)
DequeueDelivers ==
  [][packet_queue # <<>> /\ Dequeue => Len(delivered') = Len(delivered) + 1]_vars
=============================================================================
