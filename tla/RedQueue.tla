------------------------------ MODULE RedQueue ------------------------------
(***************************************************************************)
(* Random Early Detection (RedQueueModule.cpp).  avg is the whole part of   *)
(* the average queue length; where the code weights the old average and     *)
(* the current length it may become any value between the two, and where    *)
(* it lets the average decay while the queue is empty any value below it.   *)
(* Between the thresholds the marking decision is free.                     *)
(***************************************************************************)
EXTENDS EcnQueue

CONSTANT ThresholdValues   \* values sent for the thresholds, after clamping

ASSUME RedAssumption == ThresholdValues \subseteq 1..100

VARIABLES avg, min_threshold, max_threshold

red == <<avg, min_threshold, max_threshold>>
redVars == <<base, red>>

(* Type invariant. *)
RedTypeOK ==
  /\ QueueTypeOK
  /\ avg \in Nat /\ min_threshold \in Nat /\ max_threshold \in Nat

Averages ==
  LET n == Len(packet_queue)
  IN  CASE n = 0 -> 0..avg
        [] n > avg -> avg..(n - 1)
        [] OTHER -> n..avg

(* At avg = max_threshold the code's fractional average may be on or above it. *)
Marking(a) ==
  CASE a < min_threshold -> {FALSE}
    [] max_threshold < a -> {TRUE}
    [] OTHER -> {TRUE, FALSE}

(* receivePacket: a packet that is not chosen is dropped if the buffer is full,
   a chosen one is marked if ECN allows it and dropped if not. *)
ReceivePacket(p) ==
  /\ Arrive
  /\ avg' \in Averages
  /\ \E chosen \in Marking(avg') :
       IF ~ chosen
         THEN IF Full THEN Drop ELSE Queue(p)
         ELSE IF ecn_mode /\ Capable(p)
                THEN QueueMarked(setECN(p, CE))
                ELSE Drop
  /\ UNCHANGED <<min_threshold, max_threshold>>

RedDequeue == Take /\ UNCHANGED red

(* The change handlers of the thresholds: one that would meet the other is set
   next to it instead. *)
(* Mutant: the comparison misses equality. *)
SetMinThresholdLoose(v) ==
  /\ min_threshold' = IF v > max_threshold THEN max_threshold - 1 ELSE v
  /\ UNCHANGED <<base, avg, max_threshold>>
SetMinThreshold(v) ==
  /\ min_threshold' = IF v >= max_threshold THEN max_threshold - 1 ELSE v
  /\ UNCHANGED <<base, avg, max_threshold>>

SetMaxThreshold(v) ==
  /\ max_threshold' = IF v <= min_threshold THEN min_threshold + 1 ELSE v
  /\ UNCHANGED <<base, avg, min_threshold>>

(* deserialize sets the values of a saved graph in the order of their names:
   max_threshold before min_threshold. *)
Restore(low, high) ==
  LET max == IF high <= min_threshold THEN min_threshold + 1 ELSE high
  IN  /\ max_threshold' = max
      /\ min_threshold' = IF low >= max THEN max - 1 ELSE low
      /\ UNCHANGED <<base, avg>>

RedInit == QueueInit /\ avg = 0 /\ min_threshold = 15 /\ max_threshold = 45

RedNext ==
  \/ \E p \in Arrival : ReceivePacket(p)
  \/ RedDequeue
  \/ SetParameters /\ UNCHANGED red
  \/ \E v \in ThresholdValues : SetMinThreshold(v) \/ SetMaxThreshold(v)
  \/ \E low, high \in ThresholdValues : low < high /\ Restore(low, high)

RedSpec == RedInit /\ [][RedNext]_redVars

----------------------------------------------------------------------------
(* The thresholds stay apart and in their range, in whatever order they are
   set: receivePacket divides by their difference, and a threshold moved out of
   its range would be clamped back and moved again without end. *)
ThresholdsOrdered == 1 <= min_threshold /\ min_threshold < max_threshold /\ max_threshold <= 100

(* A chosen packet that is marked is queued without a look at the buffer, so the
   queue may grow past it; but what is behind the largest buffer is marked: a
   packet that was not chosen never joins an overlong queue, however the sizes,
   the mode and the thresholds change while it is overlong. *)
UnmarkedWithinBuffer ==
  \A i \in 1..Len(packet_queue) :
    packet_queue[i].ecn = packet_queue[i].was => \E n \in BufferSizes : i <= n

(* "Save to autosave file" (main.cpp:168): thresholds a module had when the graph
   was saved are those it has when the graph is loaded. *)
RestoredAsSaved ==
  [][\A low, high \in ThresholdValues :
       low < high /\ Restore(low, high) => max_threshold' = high /\ min_threshold' = low]_redVars
=============================================================================
