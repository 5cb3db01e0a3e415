-------------------------- MODULE EcnQueue_proofs --------------------------
(***************************************************************************)
(* Proofs about the queue modules.  First what they share: facts about the  *)
(* packets that come, and that arrivals and takings keep the account of the *)
(* packets and of the marks.  Then RedQueue and PieQueue: RedCases and      *)
(* PieCases say what their steps are in terms of what they share.           *)
(***************************************************************************)
EXTENDS RedQueue, PieQueue, FiniteSetTheorems, TLAPS

(* What the counters are about: two sequences of packets and two numbers. *)
Shape ==
  /\ packet_queue \in Seq(Packet) /\ delivered \in Seq(Packet)
  /\ packets \in Nat /\ packets_dropped \in Nat

CountInv == Shape /\ packets = Len(delivered) + Len(packet_queue) + packets_dropped

----------------------------------------------------------------------------
(* A packet that arrives is a packet, marked or not. *)
LEMMA ArrivalIsPacket ==
  ASSUME NEW p \in Arrival
  PROVE  p \in Packet /\ setECN(p, CE) \in Packet
<1>1. PICK v \in Versions, e \in Arriving :
        p = [version |-> v, ecn |-> e, summed |-> TRUE, was |-> e]
  BY DEF Arrival
<1>2. v \in {0, 4, 6} /\ e \in Codepoints /\ CE \in Codepoints
  BY EcnQueueAssumption DEF Codepoints
<1>3. p \in Packet
  BY <1>1, <1>2 DEF Packet
<1>4. CASE v = 0
  BY <1>1, <1>3, <1>4 DEF setECN
<1>5. CASE v = 4
  BY <1>1, <1>2, <1>3, <1>5 DEF setECN, Packet
<1>6. CASE v = 6
  BY <1>1, <1>2, <1>3, <1>6 DEF setECN, Packet
<1> QED BY <1>2, <1>3, <1>4, <1>5, <1>6

(* It carries what it came with, and its sum is right. *)
LEMMA ArrivalAsSent ==
  ASSUME NEW p \in Arrival
  PROVE  p \in Packet /\ p.ecn = p.was /\ p.summed = TRUE /\ p.version \in {0, 4, 6}
<1>1. PICK v \in Versions, e \in Arriving :
        p = [version |-> v, ecn |-> e, summed |-> TRUE, was |-> e]
  BY DEF Arrival
<1> QED BY <1>1, ArrivalIsPacket, EcnQueueAssumption

(* An arrival is queued, or counted as dropped. *)
LEMMA ArrivalCounted ==
  ASSUME NEW p \in Packet, CountInv, Arrive,
         Queue(p) \/ QueueMarked(p) \/ Drop \/ DropMarked
  PROVE  CountInv'
<1>1. packets' = packets + 1 /\ delivered' = delivered
  BY DEF Arrive
<1>2. CASE Queue(p) \/ QueueMarked(p)
  <2>1. packet_queue' = Append(packet_queue, p) /\ packets_dropped' = packets_dropped
    BY <1>2 DEF Queue, QueueMarked
  <2>2. packet_queue' \in Seq(Packet) /\ Len(packet_queue') = Len(packet_queue) + 1
    BY <2>1 DEF CountInv, Shape
  <2> QED BY <1>1, <2>1, <2>2 DEF CountInv, Shape
<1>3. CASE Drop \/ DropMarked
  BY <1>1, <1>3 DEF Drop, DropMarked, CountInv, Shape
<1> QED BY <1>2, <1>3

(* Taking a packet moves it from the queue to what was delivered. *)
LEMMA TakeCounted ==
  ASSUME CountInv, Take
  PROVE  CountInv'
<1>1. /\ packet_queue # <<>> /\ packet_queue' = Tail(packet_queue)
      /\ delivered' = Append(delivered, Head(packet_queue))
      /\ packets' = packets /\ packets_dropped' = packets_dropped
  BY DEF Take, counters
<1>2. Head(packet_queue) \in Packet /\ packet_queue' \in Seq(Packet)
      /\ Len(packet_queue') = Len(packet_queue) - 1
  BY <1>1 DEF CountInv, Shape
<1>3. delivered' \in Seq(Packet) /\ Len(delivered') = Len(delivered) + 1
  BY <1>1, <1>2 DEF CountInv, Shape
<1>4. Len(packet_queue) \in Nat /\ Len(delivered) \in Nat
  BY DEF CountInv, Shape
<1> QED BY <1>1, <1>2, <1>3, <1>4 DEF CountInv, Shape

LEMMA CountedAtFirst == QueueInit => CountInv
BY DEF QueueInit, CountInv, Shape

(* The account is what Conservation says. *)
LEMMA CountedConserves == CountInv => Conservation
BY DEF CountInv, Shape, Conservation, Through

----------------------------------------------------------------------------
(* What holds of every packet in the queue and of every one delivered goes on
   to do so if it holds of the packets that are queued. *)
LEMMA EveryPacketTake ==
  ASSUME NEW Good, packet_queue \in Seq(Good), delivered \in Seq(Good), Take
  PROVE  packet_queue' \in Seq(Good) /\ delivered' \in Seq(Good)
<1>1. /\ packet_queue # <<>> /\ packet_queue' = Tail(packet_queue)
      /\ delivered' = Append(delivered, Head(packet_queue))
  BY DEF Take
<1>2. Head(packet_queue) \in Good /\ packet_queue' \in Seq(Good)
  BY <1>1
<1> QED BY <1>1, <1>2
----------------------------------------------------------------------------
(* The packets of a sequence that have been marked, and the account of them. *)
MarkedIn(s) == {i \in 1..Len(s) : s[i].ecn # s[i].was}

TallyInv ==
  /\ packet_queue \in Seq(Packet) /\ delivered \in Seq(Packet)
  /\ MarksCounted

(* A packet more at the end is one more marked packet if it is marked. *)
LEMMA MarkedAppend ==
  ASSUME NEW s \in Seq(Packet), NEW p \in Packet
  PROVE  Cardinality(MarkedIn(Append(s, p)))
           = Cardinality(MarkedIn(s)) + (IF p.ecn # p.was THEN 1 ELSE 0)
<1>. DEFINE n == Len(s) + 1
            t == Append(s, p)
<1>1. Len(s) \in Nat /\ Len(t) = n /\ t[n] = p /\ \A i \in 1..Len(s) : t[i] = s[i]
  OBVIOUS
<1>2. 1..n = (1..Len(s)) \cup {n} /\ n \notin 1..Len(s)
  BY <1>1
<1>. HIDE DEF n, t
<1>3. MarkedIn(t) = IF p.ecn # p.was THEN MarkedIn(s) \cup {n} ELSE MarkedIn(s)
  BY <1>1, <1>2 DEF MarkedIn
<1>4. IsFiniteSet(MarkedIn(s)) /\ n \notin MarkedIn(s)
  <2>1. IsFiniteSet(1..Len(s))
    BY <1>1, FS_Interval
  <2>2. MarkedIn(s) \in SUBSET (1..Len(s))
    BY DEF MarkedIn
  <2>3. IsFiniteSet(MarkedIn(s))
    BY <2>1, <2>2, FS_Subset
  <2>. QED
    BY <1>2, <2>2, <2>3
<1>5. Cardinality(MarkedIn(s)) \in Nat
  BY <1>4, FS_CardinalityType
<1>6. Cardinality(MarkedIn(s) \cup {n}) = Cardinality(MarkedIn(s)) + 1
  BY <1>4, FS_AddElement
<1>. QED
  BY <1>3, <1>5, <1>6 DEF t

(* Appending to the queue appends to what came through. *)
LEMMA ThroughGrows ==
  ASSUME TallyInv, NEW p \in Packet, packet_queue' = Append(packet_queue, p),
         delivered' = delivered
  PROVE  Through' = Append(Through, p) /\ Through \in Seq(Packet)
BY DEF TallyInv, Through

(* Taking a packet leaves what came through as it is. *)
LEMMA ThroughStays ==
  ASSUME NEW Good, packet_queue \in Seq(Good), delivered \in Seq(Good), Take
  PROVE  Through' = Through
<1>1. /\ packet_queue # <<>> /\ packet_queue' = Tail(packet_queue)
      /\ delivered' = Append(delivered, Head(packet_queue))
  BY DEF Take
<1>2. Append(delivered, Head(packet_queue)) \o Tail(packet_queue) = delivered \o packet_queue
  BY <1>1, SMTT(30)
<1>. QED
  BY <1>1, <1>2 DEF Through

(* An arrival that is queued as it came, or dropped without a mark of its own,
   leaves the account; one that is marked and queued is counted. *)
LEMMA ArrivalTallied ==
  ASSUME TallyInv, NEW p \in Packet, delivered' = delivered,
         \/ Queue(p) /\ p.ecn = p.was
         \/ QueueMarked(p) /\ p.ecn # p.was
         \/ Drop
  PROVE  TallyInv'
<1>1. CASE Drop
  <2>1. UNCHANGED <<packet_queue, packets_marked>>
    BY <1>1 DEF Drop
  <2>. QED
    BY <2>1 DEF TallyInv, MarksCounted, MarkedHere, Through
<1>2. ASSUME packet_queue' = Append(packet_queue, p),
             packets_marked' = packets_marked + (IF p.ecn # p.was THEN 1 ELSE 0)
      PROVE  TallyInv'
  <2>1. Through' = Append(Through, p) /\ Through \in Seq(Packet)
    BY <1>2, ThroughGrows
  <2>2. MarkedHere' = MarkedIn(Append(Through, p)) /\ MarkedHere = MarkedIn(Through)
    BY <2>1 DEF MarkedHere, MarkedIn
  <2>3. MarksCounted'
    BY <1>2, <2>1, <2>2, MarkedAppend DEF TallyInv, MarksCounted
  <2>4. packet_queue' \in Seq(Packet) /\ delivered' \in Seq(Packet)
    BY <1>2 DEF TallyInv
  <2>. QED
    BY <2>3, <2>4 DEF TallyInv
<1>3. CASE Queue(p) /\ p.ecn = p.was
  <2>1. packets_marked \in Nat
    <3>1. IsFiniteSet(1..Len(Through)) /\ MarkedHere \in SUBSET (1..Len(Through))
      BY FS_Interval DEF MarkedHere, TallyInv, Through
    <3>. QED
      BY <3>1, FS_Subset, FS_CardinalityType DEF TallyInv, MarksCounted
  <2>. QED
    BY <1>2, <1>3, <2>1 DEF Queue
<1>4. CASE QueueMarked(p) /\ p.ecn # p.was
  BY <1>2, <1>4 DEF QueueMarked
<1>. QED
  BY <1>1, <1>3, <1>4

----------------------------------------------------------------------------
(* RedQueue *)

(* The steps of RED, in terms of what it shares. *)
RedStep ==
  \/ \E p \in Arrival :
       /\ Arrive
       /\ (~ Full /\ Queue(p)) \/ Drop \/ (Capable(p) /\ QueueMarked(setECN(p, CE)))
  \/ Take
  \/ UNCHANGED <<packet_queue, counters, delivered>>

LEMMA RedCases ==
  ASSUME [RedNext]_redVars
  PROVE  RedStep
<1>1. ASSUME NEW p \in Arrival, ReceivePacket(p) PROVE RedStep
  <2>1. /\ Arrive
        /\ \/ (~ Full /\ Queue(p)) \/ Drop
           \/ Capable(p) /\ QueueMarked(setECN(p, CE))
    BY <1>1 DEF ReceivePacket
  <2> QED BY <2>1 DEF RedStep
<1>2. CASE RedDequeue
  BY <1>2 DEF RedDequeue, RedStep
<1>3. CASE SetParameters
  BY <1>3 DEF SetParameters, RedStep
<1>4. CASE base' = base
  BY <1>4 DEF base, counters, RedStep
<1>5. ASSUME NEW v \in ThresholdValues, SetMinThreshold(v) \/ SetMaxThreshold(v)
      PROVE  base' = base
  BY <1>5 DEF SetMinThreshold, SetMaxThreshold
<1>6. ASSUME NEW low \in ThresholdValues, NEW high \in ThresholdValues, Restore(low, high)
      PROVE  base' = base
  BY <1>6 DEF Restore
<1>7. CASE UNCHANGED redVars
  BY <1>4, <1>7 DEF redVars
<1> QED BY <1>1, <1>2, <1>3, <1>4, <1>5, <1>6, <1>7 DEF RedNext

LEMMA RedCountStep ==
  ASSUME CountInv, [RedNext]_redVars
  PROVE  CountInv'
<1>1. ASSUME NEW p \in Arrival, Arrive, Queue(p) \/ Drop \/ QueueMarked(setECN(p, CE))
      PROVE  CountInv'
  <2>1. p \in Packet /\ setECN(p, CE) \in Packet
    BY ArrivalIsPacket
  <2> QED BY <1>1, <2>1, ArrivalCounted
<1>2. CASE UNCHANGED <<packet_queue, counters, delivered>>
  BY <1>2 DEF counters, CountInv, Shape
<1> QED BY <1>1, <1>2, TakeCounted, RedCases DEF RedStep

(* Every packet the RED queue was handed is queued, was handed on, or is counted
   as dropped (receivePacket, dequeue). *)
THEOREM RedPacketsAccountedFor == RedSpec => []Conservation
<1>1. RedInit => CountInv
  BY CountedAtFirst DEF RedInit
<1>2. CountInv /\ [RedNext]_redVars => CountInv'
  BY RedCountStep
<1> QED BY <1>1, <1>2, CountedConserves, PTL DEF RedSpec

(* Every packet of the queue that has not been marked is within a buffer. *)
FitInv == packet_queue \in Seq(Packet) /\ UnmarkedWithinBuffer

(* A packet that is queued joins a queue that is not full; one that is marked has
   another codepoint than it came with. *)
LEMMA RedFitStep ==
  ASSUME FitInv, [RedNext]_redVars, buffer_size \in BufferSizes, BufferSizes \subseteq Nat
  PROVE  FitInv'
<1>. DEFINE Fits(q, i) == q[i].ecn = q[i].was => \E n \in BufferSizes : i <= n
<1>1. Len(packet_queue) \in Nat /\ \A i \in 1..Len(packet_queue) : Fits(packet_queue, i)
  BY DEF FitInv, UnmarkedWithinBuffer
<1>2. ASSUME NEW q \in Packet, packet_queue' = Append(packet_queue, q),
             Fits(packet_queue', Len(packet_queue) + 1)
      PROVE  FitInv'
  <2>1. /\ packet_queue' \in Seq(Packet) /\ Len(packet_queue') = Len(packet_queue) + 1
        /\ \A i \in 1..Len(packet_queue) : packet_queue'[i] = packet_queue[i]
    BY <1>2 DEF FitInv
  <2>2. ASSUME NEW i \in 1..Len(packet_queue') PROVE Fits(packet_queue', i)
    <3>1. CASE i \in 1..Len(packet_queue)
      BY <1>1, <2>1, <3>1
    <3>2. CASE i = Len(packet_queue) + 1
      BY <1>2, <3>2
    <3>. QED
      BY <1>1, <2>1, <3>1, <3>2
  <2>. QED
    BY <2>1, <2>2 DEF FitInv, UnmarkedWithinBuffer
<1>3. ASSUME NEW p \in Arrival,
             (~ Full /\ Queue(p)) \/ Drop \/ (Capable(p) /\ QueueMarked(setECN(p, CE)))
      PROVE  FitInv'
  <2>1. p \in Packet /\ setECN(p, CE) \in Packet /\ p.ecn = p.was /\ p.version \in {0, 4, 6}
    BY ArrivalIsPacket, ArrivalAsSent
  <2>2. CASE ~ Full /\ Queue(p)
    <3>1. packet_queue' = Append(packet_queue, p) /\ Len(packet_queue) + 1 <= buffer_size
      BY <1>1, <2>2 DEF Full, Queue
    <3>. QED
      BY <1>2, <2>1, <3>1
  <2>3. CASE Capable(p) /\ QueueMarked(setECN(p, CE))
    <3>1. setECN(p, CE).ecn # setECN(p, CE).was
      <4>1. p.version # 0 /\ p.was # CE
        BY <2>1, <2>3 DEF Capable, getECN, NotECT, ECT0, ECT1, CE
      <4>. QED
        BY <2>1, <4>1 DEF setECN, Packet
    <3>2. packet_queue' = Append(packet_queue, setECN(p, CE))
      BY <2>3 DEF QueueMarked
    <3>3. packet_queue'[Len(packet_queue) + 1] = setECN(p, CE)
      BY <2>1, <3>2 DEF FitInv
    <3>. QED
      BY <1>2, <2>1, <3>1, <3>2, <3>3
  <2>4. CASE Drop
    BY <2>4 DEF Drop, FitInv, UnmarkedWithinBuffer
  <2>. QED
    BY <1>3, <2>2, <2>3, <2>4
<1>4. CASE Take
  <2>1. packet_queue # <<>> /\ packet_queue' = Tail(packet_queue)
    BY <1>4 DEF Take
  <2>2. /\ packet_queue' \in Seq(Packet) /\ Len(packet_queue') = Len(packet_queue) - 1
        /\ \A i \in 1..Len(packet_queue') : packet_queue'[i] = packet_queue[i + 1]
    BY <2>1 DEF FitInv
  <2>3. ASSUME NEW i \in 1..Len(packet_queue') PROVE Fits(packet_queue', i)
    <3>1. Fits(packet_queue, i + 1) /\ packet_queue'[i] = packet_queue[i + 1]
      BY <1>1, <2>2
    <3>2. SUFFICES ASSUME packet_queue'[i].ecn = packet_queue'[i].was
                   PROVE  \E n \in BufferSizes : i <= n
      OBVIOUS
    <3>3. PICK n \in BufferSizes : i + 1 <= n
      BY <3>1, <3>2
    <3>. QED
      BY <1>1, <2>2, <3>3
  <2>. QED
    BY <2>2, <2>3 DEF FitInv, UnmarkedWithinBuffer
<1>5. CASE UNCHANGED <<packet_queue, counters, delivered>>
  BY <1>5 DEF FitInv, UnmarkedWithinBuffer
<1>. QED BY <1>3, <1>4, <1>5, RedCases DEF RedStep

(* The buffer is one of those it may be given. *)
LEMMA RedBuffer ==
  ASSUME buffer_size \in BufferSizes, [RedNext]_redVars
  PROVE  buffer_size' \in BufferSizes
BY DEF RedNext, redVars, base, ReceivePacket, Arrive, RedDequeue, Take, SetParameters,
       SetMinThreshold, SetMaxThreshold, Restore

(* A marked packet is queued without a look at the buffer (receivePacket), but for any
   sizes the buffer is given, one after the other, only marked packets are ever
   behind the largest of them. *)
THEOREM RedUnmarkedWithinBuffer == RedSpec => []UnmarkedWithinBuffer
<1>. DEFINE Inv == FitInv /\ buffer_size \in BufferSizes
<1>1. RedInit => Inv
  BY DEF RedInit, QueueInit, FitInv, UnmarkedWithinBuffer
<1>2. Inv /\ [RedNext]_redVars => Inv'
  BY RedFitStep, RedBuffer, EcnQueueAssumption
<1>3. Inv => UnmarkedWithinBuffer
  BY DEF FitInv
<1>. QED
  BY <1>1, <1>2, <1>3, PTL DEF RedSpec

(* Every step keeps the thresholds apart and in range. *)
RangeInv == min_threshold \in Nat /\ max_threshold \in Nat /\ ThresholdsOrdered

LEMMA RangeStep ==
  ASSUME RangeInv, [RedNext]_redVars
  PROVE  RangeInv'
<1> USE DEF RangeInv, ThresholdsOrdered
<1>1. CASE UNCHANGED <<min_threshold, max_threshold>>
  BY <1>1
<1>2. ASSUME NEW v \in ThresholdValues, SetMinThreshold(v) \/ SetMaxThreshold(v)
      PROVE  RangeInv'
  <2>1. v \in 1..100
    BY RedAssumption
  <2> QED BY <1>2, <2>1 DEF SetMinThreshold, SetMaxThreshold
<1>3. ASSUME NEW low \in ThresholdValues, NEW high \in ThresholdValues,
             low < high, Restore(low, high)
      PROVE  RangeInv'
  <2>1. low \in 1..100 /\ high \in 1..100
    BY RedAssumption
  <2> QED BY <1>3, <2>1 DEF Restore
<1>4. ASSUME NEW p \in Arrival, ReceivePacket(p) PROVE RangeInv'
  BY <1>1, <1>4 DEF ReceivePacket
<1>5. CASE RedDequeue \/ (SetParameters /\ UNCHANGED red) \/ UNCHANGED redVars
  BY <1>1, <1>5 DEF RedDequeue, red, redVars
<1> QED BY <1>2, <1>3, <1>4, <1>5 DEF RedNext

(* In whatever order the thresholds are set, one by one or from a saved graph,
   max_threshold - min_threshold, which receivePacket divides by, is positive. *)
THEOREM ThresholdsStayOrdered == RedSpec => []ThresholdsOrdered
<1>1. RedInit => RangeInv
  BY DEF RedInit, RangeInv, ThresholdsOrdered
<1>2. RangeInv /\ [RedNext]_redVars => RangeInv'
  BY RangeStep
<1>3. RangeInv => ThresholdsOrdered
  BY DEF RangeInv
<1> QED BY <1>1, <1>2, <1>3, PTL DEF RedSpec

----------------------------------------------------------------------------
(* PieQueue *)

(* What enqueue marks a packet to. *)
Marked(p) == updateIPv4HeaderChecksum(setECN(p, CE))

(* The steps of PIE, in terms of what it shares.  DropMarked is for packets that came
   with a mark. *)
Enqueues(p) ==
  /\ Arrive
  /\ \/ ~ Full /\ Queue(p)
     \/ ~ Full /\ Capable(p) /\ QueueMarked(Marked(p))
     \/ Drop
     \/ DropMarked /\ foreign'
  /\ foreign => foreign'

PieStep ==
  \/ \E p \in Arrival : Enqueues(p)
  \/ Take /\ foreign' = foreign
  \/ /\ UNCHANGED <<packet_queue, counters, delivered, foreign>>
     /\ buffer_size' \in BufferSizes \cup {buffer_size}

LEMMA PieCases ==
  ASSUME [PieNext]_pieVars
  PROVE  PieStep
<1>1. ASSUME NEW p \in Arrival, PieEnqueue(p) PROVE PieStep
  <2>1. Enqueues(p)
    BY <1>1 DEF PieEnqueue, Enqueues, Marked
  <2> QED BY <2>1 DEF PieStep
<1>2. CASE base' = base /\ foreign' = foreign
  BY <1>2 DEF base, counters, PieStep
<1>3. CASE PieDequeue
  BY <1>2, <1>3 DEF PieDequeue, history, PieStep
<1>4. CASE CalculateDropProb \/ UNCHANGED pieVars
  BY <1>2, <1>4 DEF CalculateDropProb, pieVars, history
<1>5. CASE PieSetParameter
  <2>1. CASE SetParameters /\ UNCHANGED history
    BY <2>1 DEF history, SetParameters, PieStep
  <2>2. CASE base' = base /\ UNCHANGED history
    BY <1>2, <2>2 DEF history
  <2> QED BY <1>5, <2>1, <2>2 DEF PieSetParameter
<1> QED BY <1>1, <1>3, <1>4, <1>5 DEF PieNext

LEMMA MarkedPacket ==
  ASSUME NEW p \in Arrival
  PROVE  /\ p \in Packet /\ p.summed /\ p.ecn = p.was
         /\ Marked(p) \in Packet /\ Marked(p).summed
         /\ Capable(p) => Marked(p).ecn # Marked(p).was
<1> DEFINE r == setECN(p, CE)
<1>1. p \in Packet /\ r \in Packet /\ Marked(p) = updateIPv4HeaderChecksum(r)
  BY ArrivalIsPacket DEF Marked
<1>2. p.ecn = p.was /\ p.summed = TRUE /\ p.version \in {0, 4, 6}
  BY ArrivalAsSent
<1>3. r.version = p.version /\ r.was = p.was /\ (p.version # 4 => r.summed = p.summed)
  BY <1>1, <1>2 DEF setECN, Packet
<1>4. ASSUME Capable(p) PROVE r.ecn # r.was
  <2>1. p.version # 0 /\ p.ecn # CE
    BY <1>4 DEF Capable, getECN, NotECT, ECT0, ECT1, CE
  <2>2. r.ecn = CE
    BY <1>1, <1>2, <2>1 DEF setECN, Packet
  <2> QED BY <1>2, <1>3, <2>1, <2>2
<1> HIDE DEF r
<1>5. /\ Marked(p) \in Packet /\ Marked(p).ecn = r.ecn /\ Marked(p).was = r.was
      /\ Marked(p).summed
  <2>1. CASE r.version = 4
    <3>1. Marked(p) = [r EXCEPT !.summed = TRUE]
      BY <1>1, <2>1 DEF updateIPv4HeaderChecksum
    <3> QED BY <1>1, <3>1 DEF Packet
  <2>2. CASE r.version # 4
    <3>1. Marked(p) = r
      BY <1>1, <2>2 DEF updateIPv4HeaderChecksum
    <3> QED BY <1>1, <1>2, <1>3, <2>2, <3>1
  <2> QED BY <2>1, <2>2
<1> QED BY <1>1, <1>2, <1>4, <1>5

LEMMA PieCountStep ==
  ASSUME CountInv, [PieNext]_pieVars
  PROVE  CountInv'
<1>1. ASSUME NEW p \in Arrival, Enqueues(p) PROVE CountInv'
  <2>1. Arrive /\ (Queue(p) \/ QueueMarked(Marked(p)) \/ Drop \/ DropMarked)
    BY <1>1 DEF Enqueues
  <2>2. p \in Packet /\ Marked(p) \in Packet
    BY MarkedPacket
  <2> QED BY <2>1, <2>2, ArrivalCounted
<1>2. CASE UNCHANGED <<packet_queue, counters, delivered>>
  BY <1>2 DEF counters, CountInv, Shape
<1> QED BY <1>1, <1>2, TakeCounted, PieCases DEF PieStep

(* Every packet the PIE queue was handed is queued, was handed on, or is counted
   as dropped, in whichever of its branches enqueue dropped it. *)
THEOREM PiePacketsAccountedFor == PieSpec => []Conservation
<1>1. PieInit => CountInv
  BY CountedAtFirst DEF PieInit
<1>2. CountInv /\ [PieNext]_pieVars => CountInv'
  BY PieCountStep
<1> QED BY <1>1, <1>2, CountedConserves, PTL DEF PieSpec

----------------------------------------------------------------------------
(* enqueue adds a packet only if there is room for it below the bound of now. *)
BoundInv == packet_queue \in Seq(Packet) /\ buffer_size \in BufferSizes /\ BufferBound

LEMMA BoundStep ==
  ASSUME BoundInv, [PieNext]_pieVars
  PROVE  BoundInv'
<1>0. buffer_size \in Nat /\ Len(packet_queue) \in Nat
  BY EcnQueueAssumption DEF BoundInv
<1>1. ASSUME NEW p \in Arrival, Enqueues(p) PROVE BoundInv'
  <2>1. buffer_size' = buffer_size
    BY <1>1 DEF Enqueues, Arrive
  <2>2. CASE packet_queue' = packet_queue
    BY <2>1, <2>2 DEF BoundInv, BufferBound
  <2>3. ASSUME NEW q \in Packet, ~ Full, packet_queue' = Append(packet_queue, q) PROVE BoundInv'
    <3>1. packet_queue' \in Seq(Packet) /\ Len(packet_queue') = Len(packet_queue) + 1
      BY <2>3 DEF BoundInv
    <3>2. Len(packet_queue') <= buffer_size
      BY <1>0, <2>3, <3>1 DEF Full
    <3> QED BY <2>1, <3>1, <3>2 DEF BoundInv, BufferBound
  <2>4. CASE ~ Full /\ Queue(p)
    BY <2>3, <2>4, MarkedPacket DEF Queue
  <2>5. CASE ~ Full /\ QueueMarked(Marked(p))
    BY <2>3, <2>5, MarkedPacket DEF QueueMarked
  <2>6. CASE Drop \/ DropMarked
    BY <2>2, <2>6 DEF Drop, DropMarked
  <2> QED BY <1>1, <2>4, <2>5, <2>6 DEF Enqueues
<1>2. CASE Take
  <2>1. packet_queue # <<>> /\ packet_queue' = Tail(packet_queue) /\ buffer_size' = buffer_size
    BY <1>2 DEF Take
  <2>2. packet_queue' \in Seq(Packet) /\ Len(packet_queue') = Len(packet_queue) - 1
    BY <2>1 DEF BoundInv
  <2>3. PICK n \in BufferSizes : Len(packet_queue) <= n
    BY DEF BoundInv, BufferBound
  <2>4. Len(packet_queue') <= n
    BY <1>0, <2>2, <2>3, EcnQueueAssumption
  <2> QED BY <2>1, <2>2, <2>4 DEF BoundInv, BufferBound
<1>3. CASE packet_queue' = packet_queue /\ buffer_size' \in BufferSizes \cup {buffer_size}
  BY <1>3 DEF BoundInv, BufferBound
<1> QED BY <1>1, <1>2, <1>3, PieCases DEF PieStep

(* The queue is never longer than the largest bound it was given, although the
   marking branch of enqueue looks at the bound in a place of its own. *)
THEOREM BoundKept == PieSpec => []BufferBound
<1>1. PieInit => BoundInv
  <2> SUFFICES ASSUME PieInit PROVE BoundInv
    OBVIOUS
  <2>1. QueueInit
    BY DEF PieInit
  <2>2. packet_queue = <<>> /\ buffer_size \in BufferSizes /\ Len(packet_queue) = 0
    BY <2>1 DEF QueueInit
  <2>3. buffer_size \in Nat
    BY <2>2, EcnQueueAssumption
  <2> QED BY <2>2, <2>3 DEF BoundInv, BufferBound
<1>2. BoundInv /\ [PieNext]_pieVars => BoundInv'
  BY BoundStep
<1>3. BoundInv => BufferBound
  BY DEF BoundInv
<1> QED BY <1>1, <1>2, <1>3, PTL DEF PieSpec

----------------------------------------------------------------------------
Summed == {p \in Packet : p.summed}
SumInv == packet_queue \in Seq(Summed) /\ delivered \in Seq(Summed)

LEMMA SumStep ==
  ASSUME SumInv, [PieNext]_pieVars
  PROVE  SumInv'
<1>1. ASSUME NEW p \in Arrival, Enqueues(p) PROVE SumInv'
  <2>1. delivered' = delivered
    BY <1>1 DEF Enqueues, Arrive
  <2>2. p \in Summed /\ Marked(p) \in Summed
    BY MarkedPacket DEF Summed
  <2>3. packet_queue' = packet_queue \/ \E q \in Summed : packet_queue' = Append(packet_queue, q)
    BY <1>1, <2>2 DEF Enqueues, Queue, QueueMarked, Drop, DropMarked
  <2> QED BY <2>1, <2>3 DEF SumInv
<1>2. CASE UNCHANGED <<packet_queue, counters, delivered>>
  BY <1>2 DEF SumInv
<1>3. CASE Take
  BY <1>3, EveryPacketTake DEF SumInv
<1> QED BY <1>1, <1>2, <1>3, PieCases DEF PieStep

(* No packet is queued or handed on with a wrong header checksum: where enqueue
   changes the codepoint it makes the sum right again. *)
THEOREM ChecksumsRight == PieSpec => []ChecksumsValid
<1>1. PieInit => SumInv
  BY DEF PieInit, QueueInit, SumInv
<1>2. SumInv /\ [PieNext]_pieVars => SumInv'
  BY SumStep
<1>3. SumInv => ChecksumsValid
  <2> SUFFICES ASSUME SumInv, NEW i \in 1..Len(Through) PROVE Through[i].summed
    BY DEF ChecksumsValid
  <2>1. Through \in Seq(Summed)
    BY DEF SumInv, Through
  <2> QED BY <2>1 DEF Summed
<1> QED BY <1>1, <1>2, <1>3, PTL DEF PieSpec

----------------------------------------------------------------------------
(* The queues hold packets, and their marks are accounted for. *)
ForeignInv ==
  /\ packet_queue \in Seq(Packet) /\ delivered \in Seq(Packet)
  /\ ~ foreign => MarksCounted

LEMMA ForeignStep ==
  ASSUME ForeignInv, [PieNext]_pieVars
  PROVE  ForeignInv'
<1>0. ~ foreign => TallyInv
  BY DEF ForeignInv, TallyInv
<1>1. ASSUME NEW p \in Arrival, Enqueues(p) PROVE ForeignInv'
  <2> DEFINE m == Marked(p)
  <2>1. delivered' = delivered /\ p \in Packet /\ m \in Packet /\ p.ecn = p.was
    BY <1>1, MarkedPacket DEF Enqueues, Arrive
  <2>2. packet_queue' = packet_queue \/ \E q \in Packet : packet_queue' = Append(packet_queue, q)
    BY <1>1, <2>1 DEF Enqueues, Queue, QueueMarked, Drop, DropMarked
  <2>3. packet_queue' \in Seq(Packet) /\ delivered' \in Seq(Packet)
    BY <2>1, <2>2 DEF ForeignInv
  <2>4. ASSUME ~ foreign' PROVE MarksCounted'
    <3>1. TallyInv /\ (Queue(p) \/ Drop \/ (Capable(p) /\ QueueMarked(m)))
      BY <1>0, <1>1, <2>4 DEF Enqueues
    <3>2. CASE Queue(p) \/ Drop
      BY <2>1, <3>1, <3>2, ArrivalTallied DEF TallyInv
    <3>3. CASE Capable(p) /\ QueueMarked(m)
      <4>1. m.ecn # m.was
        BY <3>3, MarkedPacket
      <4> HIDE DEF m
      <4> QED BY <2>1, <3>1, <3>3, <4>1, ArrivalTallied DEF TallyInv
    <3> QED BY <3>1, <3>2, <3>3
  <2> QED BY <2>3, <2>4 DEF ForeignInv
<1>2. CASE UNCHANGED <<packet_queue, counters, delivered, foreign>>
  BY <1>2 DEF counters, ForeignInv, MarksCounted, MarkedHere, Through
<1>3. CASE Take /\ foreign' = foreign
  <2>1. packets_marked' = packets_marked /\ foreign' = foreign
    BY <1>3 DEF Take, counters
  <2>2. Through' = Through
    BY <1>3, ThroughStays DEF ForeignInv
  <2>3. (~ foreign => MarksCounted)'
    BY <2>1, <2>2 DEF ForeignInv, MarksCounted, MarkedHere
  <2> QED BY <1>3, <2>3, EveryPacketTake DEF ForeignInv
<1> QED BY <1>1, <1>2, <1>3, PieCases DEF PieStep

(* The marked counter of the PIE queue is the number of packets it marked and did
   not drop, however marks, drops at the bound and takings follow each other, as
   long as no packet that came with a mark is dropped at the bound. *)
THEOREM PieMarksAccountedFor == PieSpec => []MarksCountedHere
<1>1. PieInit => ForeignInv
  <2> SUFFICES ASSUME PieInit PROVE ForeignInv
    OBVIOUS
  <2>1. packet_queue = <<>> /\ delivered = <<>> /\ packets_marked = 0
    BY DEF PieInit, QueueInit
  <2>2. MarkedHere = {}
    BY <2>1 DEF MarkedHere, Through
  <2> QED BY <2>1, <2>2, FS_EmptySet DEF ForeignInv, MarksCounted
<1>2. ForeignInv /\ [PieNext]_pieVars => ForeignInv'
  BY ForeignStep
<1>3. ForeignInv => MarksCountedHere
  BY DEF ForeignInv, MarksCountedHere
<1> QED BY <1>1, <1>2, <1>3, PTL DEF PieSpec

----------------------------------------------------------------------------
(* What is left of the allowance and what the updates have used up of it are at
   least what was granted.  The count of the updates stops at MaxUpdates, which
   is enough for any allowance. *)
BurstInv ==
  /\ updates \in Nat /\ updates <= MaxUpdates
  /\ burst_allowance \in Nat /\ granted \in Nat
  /\ granted <= MaxUpdates * t_update
  /\ max_burst \in MaxBursts
  /\ burst_allowance + updates * t_update >= granted
  /\ BurstTolerated

LEMMA BurstStep ==
  ASSUME BurstInv, [PieNext]_pieVars
  PROVE  BurstInv'
<1> USE DEF BurstInv, BurstTolerated, t_update
<1>0. MaxUpdates \in Nat /\ max_burst \in Nat /\ max_burst <= MaxUpdates * t_update
  BY PieAssumption
<1>1. ASSUME NEW p \in Arrival, PieEnqueue(p) PROVE BurstInv'
  <2> DEFINE calm == drop_prob = Zero /\ Calm(qdelay_current) /\ Calm(qdelay_old)
  <2>1. max_burst' = max_burst
    BY <1>1 DEF PieEnqueue, parameters
  <2>2. burst_allowance' = IF calm THEN max_burst ELSE burst_allowance
    BY <1>1 DEF PieEnqueue
  <2>3. IF calm THEN granted' = max_burst /\ updates' = 0
                ELSE granted' = granted /\ updates' = updates
    BY <1>1 DEF PieEnqueue
  <2>4. early' \in BOOLEAN /\ (early' => burst_allowance' = 0)
    BY <1>1 DEF PieEnqueue, DropsEarly
  <2> HIDE DEF calm
  <2>5. CASE calm
    BY <1>0, <2>1, <2>2, <2>3, <2>4, <2>5
  <2>6. CASE ~ calm
    BY <1>0, <2>1, <2>2, <2>3, <2>4, <2>6
  <2> QED BY <2>5, <2>6
<1>2. CASE PieDequeue
  BY <1>2 DEF PieDequeue, parameters, history
<1>3. CASE CalculateDropProb
  <2>1. /\ burst_allowance' = IF burst_allowance <= 15 THEN 0 ELSE burst_allowance - 15
        /\ updates' = IF updates < MaxUpdates THEN updates + 1 ELSE updates
        /\ granted' = granted /\ early' = early /\ max_burst' = max_burst
    BY <1>3 DEF CalculateDropProb, parameters
  <2> QED BY <1>0, <2>1
<1>4. CASE PieSetParameter
  BY <1>4 DEF PieSetParameter, pie, parameters, history
<1>5. CASE UNCHANGED pieVars
  BY <1>5 DEF pieVars, pie, parameters, history
<1> QED BY <1>1, <1>2, <1>3, <1>4, <1>5 DEF PieNext

(* Once a packet found the queue calm, drop_early is not asked before as many
   updates as the burst allowance of that moment spans (enqueue,
   calculate_drop_prob), in whatever order updates, arrivals and settings come. *)
THEOREM BurstsTolerated == PieSpec => []BurstTolerated
<1>1. PieInit => BurstInv
  BY PieAssumption DEF PieInit, BurstInv, BurstTolerated, t_update
<1>2. BurstInv /\ [PieNext]_pieVars => BurstInv'
  BY BurstStep
<1>3. BurstInv => BurstTolerated
  BY DEF BurstInv
<1> QED BY <1>1, <1>2, <1>3, PTL DEF PieSpec
=============================================================================
