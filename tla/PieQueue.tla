------------------------------ MODULE PieQueue ------------------------------
(***************************************************************************)
(* The PIE queue (PieQueueModule.cpp).  Delays are in milliseconds.  A      *)
(* dequeued packet may have waited any of Delays: the clock itself is left  *)
(* out.  Of drop_prob only the range is kept that the code's comparisons    *)
(* tell apart; an update moves it in the direction of the sign of p, which  *)
(* is exact, by any amount.                                                 *)
(***************************************************************************)
EXTENDS EcnQueue

CONSTANTS
  Delays,       \* bound: how long packets wait
  QdelayRefs,   \* values of qdelay_ref
  MaxBursts,    \* values of max_burst
  FirstProbs,   \* what drop_prob, which the constructor does not set, may hold
  MaxUpdates    \* bound: how far updates since the last calm arrival are counted

(* The ranges of drop_prob: below 0, 0, up to mark_ecnth, below 0.2, above, and
   not a number.  Every comparison with NaN is false. *)
Below == 0
Zero == 1
Low == 2
Mid == 3
High == 4
NaN == 5

t_update == 15

ASSUME PieAssumption ==
  /\ Delays \subseteq Nat /\ QdelayRefs \subseteq Nat /\ MaxBursts \subseteq Nat
  /\ FirstProbs \subseteq Below..NaN
  /\ MaxUpdates \in Nat /\ \A m \in MaxBursts : m <= MaxUpdates * t_update

VARIABLES
  drop_prob, qdelay_current, qdelay_old, burst_allowance, qdelay_ref, max_burst,
  granted,   \* history: the burst allowance given at the last calm arrival
  updates,   \* history: updates of the probability since then, up to MaxUpdates
  early,     \* history: the last arrival was dropped or marked early
  foreign    \* history: a packet that came with a mark was dropped at the bound

parameters == <<qdelay_ref, max_burst>>
history == <<granted, updates, early, foreign>>
pie == <<drop_prob, qdelay_current, qdelay_old, burst_allowance, parameters>>
pieVars == <<base, pie, history>>

(* Type invariant. *)
PieTypeOK ==
  /\ QueueTypeOK
  /\ drop_prob \in Below..NaN
  /\ qdelay_current \in Nat /\ qdelay_old \in Nat
  /\ burst_allowance \in Nat
  /\ qdelay_ref \in QdelayRefs /\ max_burst \in MaxBursts

Calm(delay) == delay < qdelay_ref \div 2

(* drop_early: the draw, 0 included, is free. *)
DropsEarly ==
  IF (Calm(qdelay_old) /\ drop_prob < High) \/ Len(packet_queue) <= 2
    THEN {FALSE}
    ELSE IF drop_prob \in Zero..High THEN {TRUE, FALSE} ELSE {FALSE}

(* enqueue. *)
PieEnqueue(p) ==
  LET calm == drop_prob = Zero /\ Calm(qdelay_current) /\ Calm(qdelay_old)
      allowance == IF calm THEN max_burst ELSE burst_allowance
      capable == ecn_mode /\ Capable(p) /\ drop_prob <= Low
      marked == updateIPv4HeaderChecksum(setECN(p, CE))
  IN  /\ Arrive
      /\ burst_allowance' = allowance
      /\ \E drop \in (IF allowance = 0 THEN DropsEarly ELSE {FALSE}) :
           /\ IF drop
                THEN IF capable
                       THEN IF Full THEN Drop ELSE QueueMarked(marked)
                       ELSE Drop
                ELSE IF Full
                       THEN IF getECN(p) = CE THEN DropMarked ELSE Drop
                       ELSE Queue(p)
           /\ early' = drop
           /\ foreign' = (foreign \/ (~ drop /\ Full /\ getECN(p) = CE))
      /\ IF calm THEN granted' = max_burst /\ updates' = 0 ELSE UNCHANGED <<granted, updates>>
      /\ UNCHANGED <<drop_prob, qdelay_current, qdelay_old, parameters>>

(* dequeue; without a packet the delay is taken to be 0. *)
PieDequeue ==
  /\ IF packet_queue # <<>>
       THEN Take /\ qdelay_current' \in Delays
       ELSE UNCHANGED base /\ qdelay_current' = 0
  /\ UNCHANGED <<drop_prob, qdelay_old, burst_allowance, parameters, history>>

(* calculate_drop_prob. *)
Moved ==
  LET p == (qdelay_current - qdelay_ref) + 10 * (qdelay_current - qdelay_old)
      decays == qdelay_current = 0 /\ qdelay_old = 0
      from == IF drop_prob = Below THEN Zero ELSE drop_prob
  IN  CASE drop_prob = NaN -> {NaN}
        [] drop_prob = Below /\ p > 0 -> Zero..High
        [] drop_prob >= Zero /\ drop_prob # NaN /\ p > 0 ->
             (IF from = Zero THEN Low ELSE from)..High
        [] drop_prob # NaN /\ p <= 0 -> (IF p < 0 \/ decays THEN Zero ELSE from)..from

(* Mutant: the rest of the allowance is forgotten one update too early. *)
CalculateDropProbShort ==
  /\ drop_prob' \in Moved
  /\ qdelay_old' = qdelay_current
  /\ burst_allowance' = IF burst_allowance <= 2 * t_update THEN 0 ELSE burst_allowance - t_update
  /\ updates' = IF updates < MaxUpdates THEN updates + 1 ELSE updates
  /\ UNCHANGED <<base, qdelay_current, parameters, granted, early, foreign>>

CalculateDropProb ==
  /\ drop_prob' \in Moved
  /\ qdelay_old' = qdelay_current
  /\ burst_allowance' = IF burst_allowance <= t_update THEN 0 ELSE burst_allowance - t_update
  /\ updates' = IF updates < MaxUpdates THEN updates + 1 ELSE updates
  /\ UNCHANGED <<base, qdelay_current, parameters, granted, early, foreign>>

(* A parameter of the module changes. *)
PieSetParameter ==
  \/ SetParameters /\ UNCHANGED <<pie, history>>
  \/ /\ qdelay_ref' \in QdelayRefs /\ max_burst' \in MaxBursts
     /\ UNCHANGED <<base, drop_prob, qdelay_current, qdelay_old, burst_allowance, history>>

PieInit ==
  /\ QueueInit
  /\ drop_prob \in FirstProbs
  /\ qdelay_current = 0 /\ qdelay_old = 0 /\ burst_allowance = 0
  /\ qdelay_ref \in QdelayRefs /\ max_burst \in MaxBursts
  /\ granted = 0 /\ updates = MaxUpdates /\ early = FALSE /\ foreign = FALSE

PieNext ==
  \/ \E p \in Arrival : PieEnqueue(p)
  \/ PieDequeue
  \/ CalculateDropProb
  \/ PieSetParameter

PieSpec == PieInit /\ [][PieNext]_pieVars

----------------------------------------------------------------------------
(* Once a packet found the queue calm, no packet is dropped or marked early
   before as many updates as the burst allowance of that moment spans: the
   allowance outlives rising delays, a later change of max_burst and arrivals in
   any order with the updates. *)
BurstTolerated == early => updates * t_update >= granted

(* The marked counter is the number of packets marked here and not dropped, as
   long as no packet that came with a mark was dropped at the bound: enqueue takes
   such a packet off the counter too. *)
MarksCountedHere == ~ foreign => MarksCounted

(* "Bound drop probability [0, 1]" (PieQueueModule.cpp:201): what an update
   leaves is a probability. *)
ProbabilityBounded == [][CalculateDropProb => drop_prob' \in Zero..High]_pieVars
=============================================================================
