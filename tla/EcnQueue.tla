------------------------------ MODULE EcnQueue ------------------------------
(***************************************************************************)
(* What the active queue management modules share: packets with an ECN      *)
(* codepoint (Packet.cpp), a FIFO of them, the ECN mode and buffer size     *)
(* parameters, and the counters published as statistics.  RedQueue,         *)
(* PieQueue, Pi2Queue and CodelQueue extend it with their drop decisions.   *)
(*                                                                         *)
(* Of a packet only what these modules look at or change is kept: the IP    *)
(* version (0 if it is not an IP packet), the codepoint, whether the IPv4   *)
(* header checksum is the one of the header, and the codepoint it came with.*)
(***************************************************************************)
EXTENDS Integers, Sequences, FiniteSets

CONSTANTS
  MaxPackets,    \* bound: packets that arrive
  BufferSizes,   \* values of the buffer_size parameter
  Versions,      \* IP versions that arrive, out of 0, 4 and 6
  CounterSize,   \* counters wrap here; 2^64 in the code
  Arriving       \* ECN codepoints packets arrive with

NotECT == "Not-ECT"
ECT0 == "ECT(0)"
ECT1 == "ECT(1)"
CE == "CE"
Codepoints == {NotECT, ECT0, ECT1, CE}

ASSUME EcnQueueAssumption ==
  /\ MaxPackets \in Nat /\ CounterSize \in Nat /\ CounterSize > MaxPackets
  /\ BufferSizes \subseteq Nat \ {0} /\ BufferSizes # {}
  /\ Versions \subseteq {0, 4, 6} /\ Arriving \subseteq Codepoints

VARIABLES
  packet_queue,
  ecn_mode,
  buffer_size,
  packets, packets_dropped, packets_marked,  \* the statistics
  delivered      \* packets handed to the port that requested them

counters == <<packets, packets_dropped, packets_marked>>
base == <<packet_queue, ecn_mode, buffer_size, counters, delivered>>

Packet == [version : {0, 4, 6}, ecn : Codepoints, summed : BOOLEAN, was : Codepoints]

(* A packet that is not an IP packet has no codepoint. *)
Arrival ==
  {p \in {[version |-> v, ecn |-> e, summed |-> TRUE, was |-> e] : v \in Versions, e \in Arriving} :
     p.version = 0 => p.ecn = NotECT}

QueueTypeOK ==
  /\ packet_queue \in Seq(Packet)
  /\ ecn_mode \in BOOLEAN /\ buffer_size \in BufferSizes
  /\ packets \in 0..MaxPackets /\ packets_dropped \in 0..MaxPackets /\ packets_marked \in 0..(CounterSize - 1)
  /\ delivered \in Seq(Packet)

----------------------------------------------------------------------------
(* Packet.cpp *)

getECN(p) == IF p.version = 0 THEN NotECT ELSE p.ecn

(* Mutant: only one of the two IP versions is looked after. *)
setECNOfIPv6(p, e) == IF p.version = 6 THEN [p EXCEPT !.ecn = e] ELSE p
setECN(p, e) ==
  CASE p.version = 0 -> p
    [] p.version = 4 -> [p EXCEPT !.ecn = e, !.summed = @ /\ p.ecn = e]
    [] p.version = 6 -> [p EXCEPT !.ecn = e]

(* Mutant: the sum is left as it is. *)
keepIPv4HeaderChecksum(p) == p
updateIPv4HeaderChecksum(p) == IF p.version = 4 THEN [p EXCEPT !.summed = TRUE] ELSE p

----------------------------------------------------------------------------
(* Mutant: one packet more than the buffer holds. *)
FullLoose == Len(packet_queue) > buffer_size
Full == Len(packet_queue) >= buffer_size
Capable(p) == getECN(p) \in {ECT0, ECT1}

(* The outcomes of an arrival. *)
Queue(p) ==
  /\ packet_queue' = Append(packet_queue, p)
  /\ UNCHANGED <<packets_dropped, packets_marked>>

(* Mutant: the mark is not counted. *)
QueueMarkedUncounted(p) == Queue(p)
QueueMarked(p) ==
  /\ packet_queue' = Append(packet_queue, p)
  /\ packets_marked' = packets_marked + 1
  /\ UNCHANGED packets_dropped

(* Mutant: the drop is not counted. *)
DropUncounted == UNCHANGED <<packet_queue, packets_dropped, packets_marked>>
Drop ==
  /\ packets_dropped' = packets_dropped + 1
  /\ UNCHANGED <<packet_queue, packets_marked>>

(* A packet that carries a mark finds the buffer full: taken to be marked here. *)
DropMarked ==
  /\ packets_dropped' = packets_dropped + 1
  /\ packets_marked' = (packets_marked - 1) % CounterSize
  /\ UNCHANGED packet_queue

Arrive ==
  /\ packets < MaxPackets
  /\ packets' = packets + 1
  /\ UNCHANGED <<ecn_mode, buffer_size, delivered>>

(* Taking the packet at the front. *)
Take ==
  /\ packet_queue # <<>>
  /\ packet_queue' = Tail(packet_queue)
  /\ delivered' = Append(delivered, Head(packet_queue))
  /\ UNCHANGED <<ecn_mode, buffer_size, counters>>

SetParameters ==
  /\ ecn_mode' \in BOOLEAN /\ buffer_size' \in BufferSizes
  /\ UNCHANGED <<packet_queue, counters, delivered>>

QueueInit ==
  /\ packet_queue = <<>> /\ delivered = <<>>
  /\ ecn_mode = FALSE /\ buffer_size \in BufferSizes
  /\ packets = 0 /\ packets_dropped = 0 /\ packets_marked = 0

----------------------------------------------------------------------------
(* Properties *)

Through == delivered \o packet_queue
MarkedHere == {i \in 1..Len(Through) : Through[i].ecn # Through[i].was}

(* The counters add up: every packet received is queued, was handed on, or is
   counted as dropped. *)
Conservation == packets = Len(Through) + packets_dropped

(* The marked counter is the number of packets marked here and not dropped. *)
MarksCounted == packets_marked = Cardinality(MarkedHere)

(* A marked packet leaves with a correct IPv4 header checksum, so that the next
   hop does not discard it. *)
ChecksumsValid == \A i \in 1..Len(Through) : Through[i].summed

(* The queue is no longer than the largest buffer it was given. *)
BufferBound == \E n \in BufferSizes : Len(packet_queue) <= n
=============================================================================
