------------------------- MODULE PullPipeline_proofs -------------------------
(***************************************************************************)
(* Proofs about PullPipeline, for any number of packets, sizes, bitrates    *)
(* and buffers, and whether or not the path is taken down: what is queued   *)
(* and transmitted is the content of a PacketChannel that sends a packet    *)
(* again only when the two threads crossed and the bitrate was found 0, a   *)
(* process handler comes for every packet that has left the queue, and, as  *)
(* long as the threads do not cross, it comes when the transmission ends.   *)
(***************************************************************************)
EXTENDS MCPullPipeline, SequenceTheorems, TLAPS

(* Whole division, as used for the time a packet takes. *)
LEMMA TxTimeInt ==
  ASSUME NEW p \in Packets, NEW b \in Bitrates, b # 0
  PROVE  TxTime(p, b) \in Int
<1>1. Size[p] \in Nat /\ b \in Nat \ {0}
  BY PullPipelineAssumption DEF Packets
<1>. QED
  BY <1>1 DEF TxTime

(* The packet sent last. *)
LEMMA LastKept == UNCHANGED sent => UNCHANGED last
BY DEF last

LEMMA LastType ==
  ASSUME TypeOK
  PROVE  last \in Packets \cup {None}
<1>1. CASE sent = <<>>
  BY <1>1 DEF last
<1>2. CASE sent # <<>>
  <2>1. Len(sent) \in 1..Len(sent)
    BY <1>2, EmptySeq, LenProperties DEF TypeOK
  <2>. QED
    BY <1>2, <2>1, ElementOfSeq DEF last, TypeOK
<1>. QED
  BY <1>1, <1>2

LEMMA LastSent ==
  ASSUME TypeOK, NEW p \in Packets, sent' = Append(sent, p)
  PROVE  last' = p /\ sent' \in Seq(Packets)
<1>1. /\ sent' \in Seq(Packets) /\ Len(sent') = Len(sent) + 1
      /\ sent'[Len(sent) + 1] = p /\ sent' # <<>>
  BY AppendProperties DEF TypeOK
<1>. QED
  BY <1>1 DEF last

(* What the operators of AsioTimer make of a timer. *)
LEMMA TimerFields ==
  ASSUME NEW t \in Timer
  PROVE  t.waiting \in Nat /\ t.ready \in Nat /\ t.expiry \in Int
BY DEF Timer

LEMMA CloserInt ==
  ASSUME NEW e \in Int
  PROVE  Closer(e) \in Int /\ (Closer(e) = e \/ Closer(e) = e - 1)
BY MaxLateAssumption DEF Closer, Far

LEMMA WaitTimer ==
  ASSUME NEW t \in Timer
  PROVE  /\ AsyncWait(t) \in Timer
         /\ AsyncWait(t).waiting = t.waiting + 1 /\ AsyncWait(t).ready = t.ready
         /\ AsyncWait(t).expiry = t.expiry
BY DEF Timer, AsyncWait

LEMMA ExpiresTimer ==
  ASSUME NEW t \in Timer, NEW e \in Int
  PROVE  /\ ExpiresAt(t, e) \in Timer
         /\ ExpiresAt(t, e).waiting = 0 /\ ExpiresAt(t, e).ready = t.ready
         /\ ExpiresAt(t, e).expiry = e
BY DEF Timer, ExpiresAt

LEMMA StartTimer ==
  ASSUME NEW t \in Timer, NEW e \in Int
  PROVE  /\ Start(t, e) \in Timer
         /\ Start(t, e).waiting = 1 /\ Start(t, e).ready = t.ready /\ Start(t, e).expiry = e
<1>. DEFINE u == ExpiresAt(t, e)
<1>1. u \in Timer /\ u.waiting = 0 /\ u.ready = t.ready /\ u.expiry = e
  BY ExpiresTimer
<1>. HIDE DEF u
<1>2. /\ AsyncWait(u) \in Timer /\ AsyncWait(u).waiting = u.waiting + 1
      /\ AsyncWait(u).ready = u.ready /\ AsyncWait(u).expiry = u.expiry
  BY <1>1, WaitTimer
<1>. QED
  BY <1>1, <1>2 DEF Start, u

LEMMA CollectTimer ==
  ASSUME NEW t \in Timer
  PROVE  /\ Collect(t) \in Timer
         /\ Collect(t).waiting = 0 /\ Collect(t).ready = t.ready + t.waiting
         /\ Collect(t).expiry = t.expiry
<1>. DEFINE n == t.ready + t.waiting
            u == [t EXCEPT !.ready = n]
<1>1. n \in Nat
  BY DEF Timer
<1>. HIDE DEF n
<1>2. u \in Timer /\ u.ready = n /\ u.expiry = t.expiry
  BY <1>1 DEF Timer
<1>3. Collect(t) = [u EXCEPT !.waiting = 0]
  BY DEF Collect, n, Timer
<1>. HIDE DEF u
<1>4. [u EXCEPT !.waiting = 0] \in Timer /\ [u EXCEPT !.waiting = 0].waiting = 0
      /\ [u EXCEPT !.waiting = 0].ready = u.ready /\ [u EXCEPT !.waiting = 0].expiry = u.expiry
  BY <1>2 DEF Timer
<1>. QED
  BY <1>2, <1>3, <1>4 DEF n

LEMMA ReturnTimer ==
  ASSUME NEW t \in Timer
  PROVE  /\ t.ready > 0 => Return(t) \in Timer
         /\ Return(t).waiting = t.waiting /\ Return(t).ready = t.ready - 1
         /\ Return(t).expiry = t.expiry
BY DEF Timer, Return

LEMMA TockTimer ==
  ASSUME NEW t \in Timer
  PROVE  /\ Tock(t) \in Timer
         /\ Tock(t).waiting = t.waiting /\ Tock(t).ready = t.ready
         /\ Tock(t).expiry = Closer(t.expiry)
<1>1. Closer(t.expiry) \in Int
  BY TimerFields, CloserInt
<1>. QED
  BY <1>1 DEF Timer, Tock

(* The disjuncts of Next, by name. *)
LEMMA Cases ==
  ASSUME [Next]_vars
  PROVE  \/ Enqueue \/ Fire \/ Process \/ Tick
         \/ ConnectQueue \/ ConnectRate \/ NotifyCheck \/ NotifyExpire \/ NotifyWait
         \/ Disconnect
         \/ (\E b \in Bitrates : SetBitrate(b)) \/ (\E n \in BufferSizes : SetBufferSize(n))
         \/ UNCHANGED vars
BY DEF Next, Packet, Mqtt, Parameter

----------------------------------------------------------------------------
LEMMA TypeInit == Init => TypeOK
BY PullPipelineAssumption DEF Init, TypeOK, Timer, Unarmed, Packets, None

LEMMA TypeStep ==
  ASSUME TypeOK, [Next]_vars
  PROVE  TypeOK'
<1>. USE DEF TypeOK
<1>1. CASE Enqueue
  <2>1. offered' \in Packets /\ offered' \in 0..MaxPackets
    BY <1>1, PullPipelineAssumption DEF Enqueue, Packets
  <2>2. packet_queue' \in Seq(Packets)
    BY <1>1, <2>1, AppendProperties DEF Enqueue
  <2>3. timer' \in Timer
    <3>1. timer \in Timer /\ Start(timer, 0) \in Timer
      BY StartTimer
    <3>2. timer' = timer \/ timer' = Start(timer, 0)
      BY <1>1 DEF Enqueue, Notify
    <3>. QED
      BY <3>1, <3>2
  <2>. QED
    BY <1>1, <2>1, <2>2, <2>3 DEF Enqueue, sending, links
<1>2. CASE Fire
  <2>1. timer' \in Timer
    BY <1>2, CollectTimer DEF Fire
  <2>. QED
    BY <1>2, <2>1 DEF Fire, queue, sending, links
<1>3. CASE Process
  <2>1. Return(timer) \in Timer
    BY <1>3, ReturnTimer DEF Process
  <2>4. sent' \in Seq(Packets)
    BY <1>3, LastSent DEF Process
  <2>2. CASE bitrate # 0 /\ Dequeued # None
    <3>1. packet_queue # <<>> /\ Dequeued = Head(packet_queue)
      BY <2>2 DEF Dequeued
    <3>2. current' \in Packets /\ packet_queue' \in Seq(Packets)
      BY <1>3, <2>2, <3>1, HeadTailProperties DEF Process
    <3>3. end' \in Int
      <4>1. end' = timer.expiry + TxTime(current', bitrate) /\ timer.expiry \in Int
        BY <1>3, <2>2 DEF Process, Timer
      <4>2. TxTime(current', bitrate) \in Int
        BY <2>2, <3>2, TxTimeInt
      <4>. QED
        BY <4>1, <4>2
    <3>4. timer' \in Timer
      <4>1. timer' = Start(Return(timer), end')
        BY <1>3, <2>2 DEF Process
      <4>. QED
        BY <2>1, <3>3, <4>1, StartTimer
    <3>. QED
      BY <1>3, <2>4, <3>2, <3>3, <3>4 DEF Process, links
  <2>3. CASE ~ (bitrate # 0 /\ Dequeued # None)
    <3>1. /\ current' \in {current, None} /\ timer' = Return(timer)
          /\ UNCHANGED <<packet_queue, end>>
      BY <1>3, <2>3 DEF Process
    <3>. QED
      BY <1>3, <2>1, <2>4, <3>1 DEF Process, links
  <2>. QED
    BY <2>2, <2>3
<1>4. CASE Tick
  <2>1. timer' \in Timer /\ end' \in Int
    <3>1. timer.expiry \in Int /\ timer \in Timer
      BY DEF Timer
    <3>2. timer' \in Timer
      BY <1>4, <3>1, TockTimer DEF Tick
    <3>. QED
      BY <1>4, <3>2, CloserInt DEF Tick
  <2>. QED
    BY <1>4, <2>1 DEF Tick, queue, links
<1>5. CASE NotifyExpire \/ NotifyWait
  <2>1. timer' \in Timer
    <3>1. timer \in Timer /\ 0 \in Int
      OBVIOUS
    <3>2. ExpiresAt(timer, 0) \in Timer /\ AsyncWait(timer) \in Timer
      BY <3>1, ExpiresTimer, WaitTimer, Zenon
    <3>. QED
      BY <1>5, <3>2 DEF NotifyExpire, NotifyWait
  <2>. QED
    BY <1>5, <2>1 DEF NotifyExpire, NotifyWait, Connected, queue, sending, links
<1>6. CASE ConnectQueue \/ ConnectRate \/ NotifyCheck \/ Disconnect
  BY <1>6 DEF ConnectQueue, ConnectRate, NotifyCheck, Disconnect, Connected, queue, sending, links
<1>7. CASE (\E b \in Bitrates : SetBitrate(b)) \/ (\E n \in BufferSizes : SetBufferSize(n))
  BY <1>7 DEF SetBitrate, SetBufferSize, queue, sending, links
<1>8. CASE UNCHANGED vars
  BY <1>8 DEF vars, queue, sending, links
<1>. QED
  BY <1>1, <1>2, <1>3, <1>4, <1>5, <1>6, <1>7, <1>8, Cases

(* The type invariant. *)
THEOREM TypeCorrect == Spec => []TypeOK
<1>1. TypeOK /\ [Next]_vars => TypeOK'
  BY TypeStep
<1>. QED
  BY TypeInit, <1>1, PTL DEF Spec

----------------------------------------------------------------------------
LEMMA ProcessSends ==
  ASSUME TypeOK, Process
  PROVE  /\ current # None => sent' = Append(sent, current) /\ last' = current
         /\ current = None => sent' = sent /\ last' = last
<1>1. sent' = IF current # None THEN Append(sent, current) ELSE sent
  BY DEF Process
<1>2. current \in Packets \cup {None}
  BY DEF TypeOK
<1>. QED
  BY <1>1, <1>2, LastSent, LastKept

(* Process is at the limiter: what it does to a packet and to the timer. *)
LEMMA ProcessTakes ==
  ASSUME TypeOK, Process, bitrate # 0, Dequeued # None
  PROVE  /\ packet_queue # <<>> /\ current' = Head(packet_queue)
         /\ packet_queue' = Tail(packet_queue)
         /\ last' = IF current # None THEN current ELSE last
         /\ timer'.waiting = 1 /\ timer'.ready = timer.ready - 1
         /\ timer'.expiry = end' /\ end' \in Int
<1>1. packet_queue # <<>> /\ current' = Head(packet_queue) /\ packet_queue' = Tail(packet_queue)
  BY DEF Process, Dequeued
<1>2. Return(timer) \in Timer /\ Return(timer).ready = timer.ready - 1
  BY ReturnTimer DEF TypeOK, Process
<1>3. end' \in Int
  <2>1. current' \in Packets
    BY <1>1, HeadTailProperties DEF TypeOK
  <2>2. end' = timer.expiry + TxTime(current', bitrate)
    BY DEF Process
  <2>. QED
    BY <2>1, <2>2, TxTimeInt, TimerFields DEF TypeOK
<1>4. timer' = Start(Return(timer), end')
  BY DEF Process
<1>5. timer'.waiting = 1 /\ timer'.ready = Return(timer).ready /\ timer'.expiry = end'
  BY <1>2, <1>3, <1>4, StartTimer
<1>. QED
  BY <1>1, <1>2, <1>3, <1>5, ProcessSends

LEMMA ProcessStops ==
  ASSUME TypeOK, Process, ~ (bitrate # 0 /\ Dequeued # None)
  PROVE  /\ current' \in {current, None} /\ UNCHANGED <<packet_queue, end>>
         /\ last' = IF current # None THEN current ELSE last
         /\ timer'.waiting = timer.waiting /\ timer'.ready = timer.ready - 1
         /\ timer'.expiry = timer.expiry
<1>1. timer' = Return(timer)
  BY DEF Process
<1>. QED
  BY <1>1, ReturnTimer, ProcessSends DEF TypeOK, Process

LEMMA EnqueueTimer ==
  ASSUME TypeOK, Enqueue
  PROVE  \/ timer' = timer
         \/ current = None /\ timer'.waiting = 1 /\ timer'.ready = timer.ready
<1>1. timer' = timer \/ (current = None /\ timer' = Start(timer, 0))
  BY DEF Enqueue, Notify
<1>2. Start(timer, 0).waiting = 1 /\ Start(timer, 0).ready = timer.ready
  <2>1. timer \in Timer /\ 0 \in Int
    BY DEF TypeOK
  <2>. QED
    BY <2>1, StartTimer, Zenon
<1>. QED
  BY <1>1, <1>2

(* A packet that has left the queue is on its way: process will run for it
   (BitrateRateModule.cpp:35, 64), whatever the MQTT thread does to the timer. *)
LEMMA TimedStep ==
  ASSUME TypeOK, TransmissionTimed, [Next]_vars
  PROVE  TransmissionTimed'
<1>. USE DEF TransmissionTimed, InFlight, Pending
<1>0. timer \in Timer /\ timer.waiting \in Nat /\ timer.ready \in Nat
  BY TimerFields DEF TypeOK
<1>1. CASE Enqueue
  BY <1>0, <1>1, EnqueueTimer, LastKept DEF Enqueue, sending
<1>2. CASE Fire
  <2>1. Collect(timer).waiting = 0 /\ Collect(timer).ready = timer.ready + timer.waiting
    BY <1>0, CollectTimer
  <2>. QED
    BY <1>0, <1>2, <2>1, LastKept DEF Fire, sending
<1>3. CASE Process
  <2>0. mqtt' = mqtt /\ timer.ready > 0
    BY <1>3 DEF Process
  <2>1. CASE bitrate # 0 /\ Dequeued # None
    BY <1>0, <1>3, <2>0, <2>1, ProcessTakes
  <2>2. CASE ~ (bitrate # 0 /\ Dequeued # None)
    BY <1>3, <2>2, ProcessStops
  <2>. QED
    BY <2>1, <2>2
<1>4. CASE Tick
  <2>1. Tock(timer).waiting = timer.waiting /\ Tock(timer).ready = timer.ready
    BY <1>0, TockTimer
  <2>. QED
    BY <1>4, <2>1, LastKept DEF Tick
<1>5. CASE NotifyExpire
  BY <1>5 DEF NotifyExpire
<1>6. CASE NotifyWait
  <2>1. AsyncWait(timer).waiting = timer.waiting + 1 /\ AsyncWait(timer).ready = timer.ready
    BY <1>0, WaitTimer
  <2>. QED
    BY <1>0, <1>6, <2>1, LastKept DEF NotifyWait, sending
<1>7. CASE ConnectQueue \/ ConnectRate \/ NotifyCheck \/ Disconnect
  BY <1>7, LastKept DEF ConnectQueue, ConnectRate, NotifyCheck, Disconnect, sending
<1>8. CASE (\E b \in Bitrates : SetBitrate(b)) \/ (\E n \in BufferSizes : SetBufferSize(n))
  BY <1>8, LastKept DEF SetBitrate, SetBufferSize, sending
<1>9. CASE UNCHANGED vars
  BY <1>9, LastKept DEF vars, sending
<1>. QED
  BY <1>1, <1>2, <1>3, <1>4, <1>5, <1>6, <1>7, <1>8, <1>9, Cases

THEOREM PullTransmissionTimed == Spec => []TransmissionTimed
<1>1. Init => TransmissionTimed
  BY DEF Init, TransmissionTimed, InFlight
<1>2. TypeOK /\ TransmissionTimed /\ [Next]_vars => TransmissionTimed'
  BY TimedStep
<1>. QED
  BY <1>1, <1>2, TypeCorrect, PTL DEF Spec

----------------------------------------------------------------------------
(* Packets keep their order: what is queued is younger than what is being
   transmitted, which is not older than what was sent last.  It is what tells a
   packet in transmission from one that has been sent. *)
Ordered ==
  /\ \A i \in 1..Len(packet_queue) :
       last < packet_queue[i] /\ current < packet_queue[i] /\ packet_queue[i] <= offered
  /\ \A i, j \in 1..Len(packet_queue) : i < j => packet_queue[i] < packet_queue[j]
  /\ last <= offered /\ current <= offered
  /\ current # None => last <= current

LEMMA Numbers ==
  ASSUME TypeOK
  PROVE  /\ last \in Nat /\ current \in Nat /\ offered \in Nat
         /\ packet_queue \in Seq(Nat) /\ Len(packet_queue) \in Nat
         /\ \A i \in 1..Len(packet_queue) : packet_queue[i] \in Nat
<1>1. Packets \subseteq Nat
  BY DEF Packets
<1>2. packet_queue \in Seq(Packets)
  BY DEF TypeOK
<1>3. packet_queue \in Seq(Nat)
  BY <1>1, <1>2, SeqMonotonic
<1>4. \A i \in 1..Len(packet_queue) : packet_queue[i] \in Nat
  BY <1>3, ElementOfSeq
<1>5. last \in Packets \cup {None} /\ current \in Packets \cup {None}
  BY LastType DEF TypeOK
<1>6. last \in Nat /\ current \in Nat
  BY <1>1, <1>5 DEF None
<1>. QED
  BY <1>3, <1>4, <1>6, LenProperties, PullPipelineAssumption DEF TypeOK

LEMMA OrderedStep ==
  ASSUME TypeOK, Ordered, [Next]_vars
  PROVE  Ordered'
<1>. USE DEF Ordered
<1>0. /\ last \in Nat /\ current \in Nat /\ offered \in Nat
      /\ packet_queue \in Seq(Nat) /\ Len(packet_queue) \in Nat
      /\ \A i \in 1..Len(packet_queue) : packet_queue[i] \in Nat
  BY Numbers
<1>1. CASE Enqueue
  <2>1. offered' = offered + 1 /\ last' = last /\ current' = current
    BY <1>1, LastKept DEF Enqueue, sending
  <2>2. CASE packet_queue' = packet_queue
    BY <1>0, <2>1, <2>2
  <2>3. CASE packet_queue' = Append(packet_queue, offered')
    <3>1. /\ Len(packet_queue') = Len(packet_queue) + 1
          /\ \A i \in 1..Len(packet_queue) : packet_queue'[i] = packet_queue[i]
          /\ packet_queue'[Len(packet_queue) + 1] = offered + 1
      BY <1>0, <2>1, <2>3, AppendProperties
    <3>2. \A i \in 1..Len(packet_queue') :
            i \in 1..Len(packet_queue) \/ i = Len(packet_queue) + 1
      BY <1>0, <3>1
    <3>3. ASSUME NEW i \in 1..Len(packet_queue')
          PROVE  last < packet_queue'[i] /\ current < packet_queue'[i]
                 /\ packet_queue'[i] <= offered + 1
      BY <1>0, <3>1, <3>2
    <3>4. ASSUME NEW i \in 1..Len(packet_queue'), NEW j \in 1..Len(packet_queue'), i < j
          PROVE  packet_queue'[i] < packet_queue'[j]
      <4>1. i \in 1..Len(packet_queue)
        BY <1>0, <3>1, <3>4
      <4>2. CASE j \in 1..Len(packet_queue)
        BY <3>1, <3>4, <4>1, <4>2
      <4>3. CASE j = Len(packet_queue) + 1
        <5>1. packet_queue'[i] = packet_queue[i] /\ packet_queue'[j] = offered + 1
          BY <3>1, <4>1, <4>3
        <5>2. packet_queue[i] <= offered /\ packet_queue[i] \in Nat
          BY <1>0, <4>1
        <5>. QED
          BY <1>0, <5>1, <5>2
      <4>. QED
        BY <3>2, <4>2, <4>3
    <3>. QED
      BY <1>0, <2>1, <3>3, <3>4
  <2>. QED
    BY <1>1, <2>2, <2>3 DEF Enqueue
<1>2. CASE Process
  <2>1. offered' = offered
    BY <1>2 DEF Process
  <2>2. CASE bitrate # 0 /\ Dequeued # None
    <3>1. /\ packet_queue # <<>> /\ current' = Head(packet_queue)
          /\ packet_queue' = Tail(packet_queue)
          /\ last' = IF current # None THEN current ELSE last
      BY <1>2, <2>2, ProcessTakes
    <3>2. /\ Len(packet_queue') = Len(packet_queue) - 1
          /\ \A i \in 1..Len(packet_queue') : packet_queue'[i] = packet_queue[i + 1]
      BY <1>0, <3>1, HeadTailProperties
    <3>3. Len(packet_queue) > 0 /\ current' = packet_queue[1]
      BY <1>0, <3>1, EmptySeq
    <3>4. \A i \in 1..Len(packet_queue') : i + 1 \in 1..Len(packet_queue) /\ 1 < i + 1
      BY <1>0, <3>2
    <3>5. last' < current' /\ current' <= offered /\ last' \in Nat /\ current' \in Nat
      BY <1>0, <3>1, <3>3
    <3>6. ASSUME NEW i \in 1..Len(packet_queue')
          PROVE  last' < packet_queue'[i] /\ current' < packet_queue'[i]
                 /\ packet_queue'[i] <= offered
      <4>1. packet_queue'[i] = packet_queue[i + 1] /\ i + 1 \in 1..Len(packet_queue)
            /\ 1 < i + 1 /\ 1 \in 1..Len(packet_queue)
        BY <1>0, <3>2, <3>3, <3>4
      <4>2. packet_queue[1] < packet_queue[i + 1] /\ packet_queue[i + 1] <= offered
            /\ packet_queue[i + 1] \in Nat
        BY <1>0, <4>1
      <4>. QED
        BY <3>3, <3>5, <4>1, <4>2
    <3>7. ASSUME NEW i \in 1..Len(packet_queue'), NEW j \in 1..Len(packet_queue'), i < j
          PROVE  packet_queue'[i] < packet_queue'[j]
      BY <3>2, <3>4, <3>7
    <3>. QED
      BY <1>0, <2>1, <3>5, <3>6, <3>7
  <2>3. CASE ~ (bitrate # 0 /\ Dequeued # None)
    <3>1. /\ current' \in {current, None} /\ packet_queue' = packet_queue
          /\ last' = IF current # None THEN current ELSE last
      BY <1>2, <2>3, ProcessStops
    <3>2. \A i \in 1..Len(packet_queue) : None < packet_queue[i]
      BY <1>0 DEF None
    <3>. QED
      BY <1>0, <2>1, <3>1, <3>2 DEF None
  <2>. QED
    BY <2>2, <2>3
<1>3. CASE Fire \/ Tick
  BY <1>3, LastKept DEF Fire, Tick, queue, sending
<1>4. CASE ConnectQueue \/ ConnectRate \/ NotifyCheck \/ NotifyExpire \/ NotifyWait \/ Disconnect
  BY <1>4, LastKept DEF ConnectQueue, ConnectRate, NotifyCheck, NotifyExpire, NotifyWait, Disconnect,
              queue, sending
<1>5. CASE (\E b \in Bitrates : SetBitrate(b)) \/ (\E n \in BufferSizes : SetBufferSize(n))
  BY <1>5, LastKept DEF SetBitrate, SetBufferSize, queue, sending
<1>6. CASE UNCHANGED vars
  BY <1>6, LastKept DEF vars, queue, sending
<1>. QED
  BY <1>1, <1>2, <1>3, <1>4, <1>5, <1>6, Cases

LEMMA OrderedCorrect == Spec => []Ordered
<1>1. Init => Ordered
  BY DEF Init, Ordered, None, last
<1>2. TypeOK /\ Ordered /\ [Next]_vars => Ordered'
  BY OrderedStep
<1>. QED
  BY <1>1, <1>2, TypeCorrect, PTL DEF Spec

----------------------------------------------------------------------------
(* What the two modules hold: the packet in transmission, then the queue. *)
LEMMA HeldFacts ==
  ASSUME TypeOK
  PROVE  /\ Held \in Seq(Nat)
         /\ InFlight => /\ Len(Held) = Len(packet_queue) + 1 /\ Held # <<>>
                        /\ Head(Held) = current /\ Tail(Held) = packet_queue
         /\ ~ InFlight => Held = packet_queue
<1>1. packet_queue \in Seq(Nat) /\ current \in Nat
  BY Numbers
<1>2. CASE InFlight
  <2>1. Held = <<current>> \o packet_queue /\ <<current>> \in Seq(Nat) /\ Len(<<current>>) = 1
        /\ <<current>>[1] = current
    BY <1>1, <1>2 DEF Held
  <2>2. /\ Held \in Seq(Nat) /\ Len(Held) = 1 + Len(packet_queue)
        /\ \A i \in 1..1 + Len(packet_queue) :
             Held[i] = IF i <= 1 THEN <<current>>[i] ELSE packet_queue[i - 1]
    BY <1>1, <2>1, ConcatProperties
  <2>3. Held # <<>> /\ Head(Held) = current
    BY <1>1, <2>1, <2>2
  <2>4. Tail(Held) = packet_queue
    <3>1. Tail(Held) \in Seq(Nat) /\ Len(Tail(Held)) = Len(packet_queue)
      BY <1>1, <2>2, <2>3, HeadTailProperties, LenProperties
    <3>2. \A i \in 1..Len(Tail(Held)) : Tail(Held)[i] = Held[i + 1]
      BY <2>2, <2>3, HeadTailProperties
    <3>3. ASSUME NEW i \in 1..Len(Tail(Held))
          PROVE  Tail(Held)[i] = packet_queue[i]
      <4>1. i + 1 \in 1..1 + Len(packet_queue) /\ ~ (i + 1 <= 1) /\ (i + 1) - 1 = i
        BY <1>1, <3>1, LenProperties
      <4>2. Held[i + 1] = packet_queue[(i + 1) - 1]
        BY <2>2, <4>1
      <4>. QED
        BY <3>2, <4>1, <4>2
    <3>. QED
      BY <1>1, <3>1, <3>3, SeqEqual
  <2>. QED
    BY <1>2, <2>2, <2>3, <2>4, <1>1, LenProperties
<1>. QED
  BY <1>1, <1>2 DEF Held

LEMMA HeldAppend ==
  ASSUME TypeOK, NEW p \in Nat
  PROVE  InFlight => <<current>> \o Append(packet_queue, p) = Append(<<current>> \o packet_queue, p)
<1>1. packet_queue \in Seq(Nat) /\ <<current>> \in Seq(Nat) /\ <<p>> \in Seq(Nat)
  BY Numbers
<1>2. Append(packet_queue, p) = packet_queue \o <<p>>
  BY <1>1, AppendIsConcat
<1>3. Append(<<current>> \o packet_queue, p) = (<<current>> \o packet_queue) \o <<p>>
  BY <1>1, ConcatProperties, AppendIsConcat
<1>. QED
  BY <1>1, <1>2, <1>3, ConcatAssociative

----------------------------------------------------------------------------
(* With the histories of the race and of the bitrate 0. *)
LEMMA MCCases ==
  ASSUME [MCNext]_mcvars
  PROVE  /\ [Next]_vars
         /\ crossed => crossed'
         /\ halted => halted'
         /\ \/ /\ (Enqueue \/ Process) /\ crossed' = (crossed \/ mqtt \in {"expire", "wait"})
               /\ Process => halted' = (halted \/ bitrate = 0)
            \/ (Fire \/ Tick \/ Disconnect \/ Parameter) /\ crossed' = crossed
            \/ Mqtt /\ crossed' = crossed
            \/ UNCHANGED vars /\ crossed' = crossed
<1>1. CASE /\ Enqueue \/ Process
           /\ crossed' = (crossed \/ mqtt \in {"expire", "wait"})
           /\ halted' = (halted \/ (Process /\ bitrate = 0))
  <2>1. [Next]_vars
    BY <1>1 DEF Next, Packet
  <2>2. (crossed => crossed') /\ (halted => halted')
    BY <1>1
  <2>3. Process => halted' = (halted \/ bitrate = 0)
    BY <1>1
  <2>. QED
    BY <1>1, <2>1, <2>2, <2>3
<1>2. CASE (Fire \/ Tick \/ Mqtt \/ Disconnect \/ Parameter) /\ UNCHANGED <<crossed, halted>>
  <2>1. [Next]_vars
    BY <1>2 DEF Next, Packet
  <2>. QED
    BY <1>2, <2>1
<1>3. CASE UNCHANGED mcvars
  BY <1>3 DEF mcvars
<1>. QED
  BY <1>1, <1>2, <1>3 DEF MCNext

LEMMA MCImplementsSpec == MCSpec => Spec
<1>1. MCInit => Init
  BY DEF MCInit
<1>2. [MCNext]_mcvars => [Next]_vars
  BY MCCases
<1>. QED
  BY <1>1, <1>2, PTL DEF MCSpec, Spec

(* As long as the two threads have not crossed there is at most one wait and one
   handler, a wait for the packet in transmission is one for its end, a handler
   that comes while there is one comes after its end, and nothing is being
   transmitted when the MQTT thread is about to arm the timer. *)
Calm ==
  ~ crossed =>
    /\ timer.waiting <= 1 /\ timer.ready <= 1
    /\ mqtt \in {"expire", "wait"} => current = None
    /\ mqtt = "wait" => timer.waiting = 0
    /\ current # None =>
         /\ timer.ready > 0 => end <= 0
         /\ timer.waiting > 0 => timer.expiry = end

LEMMA CalmStep ==
  ASSUME TypeOK, Calm, [MCNext]_mcvars
  PROVE  Calm'
<1>. SUFFICES ASSUME ~ crossed'
              PROVE  /\ timer'.waiting <= 1 /\ timer'.ready <= 1
                     /\ mqtt' \in {"expire", "wait"} => current' = None
                     /\ mqtt' = "wait" => timer'.waiting = 0
                     /\ current' # None =>
                          /\ timer'.ready > 0 => end' <= 0
                          /\ timer'.waiting > 0 => timer'.expiry = end'
  BY DEF Calm
<1>0. /\ timer \in Timer /\ timer.waiting \in Nat /\ timer.ready \in Nat /\ timer.expiry \in Int
      /\ end \in Int
  BY TimerFields DEF TypeOK
<1>c. ~ crossed
  BY MCCases
<1>. USE <1>c DEF Calm
<1>1. CASE (Enqueue \/ Process) /\ crossed' = (crossed \/ mqtt \in {"expire", "wait"})
  <2>0. mqtt \notin {"expire", "wait"} /\ mqtt' = mqtt
    BY <1>1 DEF Enqueue, Process
  <2>1. CASE Enqueue
    BY <1>0, <2>0, <2>1, EnqueueTimer DEF Enqueue, sending
  <2>2. CASE Process
    <3>1. timer.ready = 1
      BY <1>0, <2>2 DEF Process
    <3>2. CASE bitrate # 0 /\ Dequeued # None
      BY <2>0, <2>2, <3>1, <3>2, ProcessTakes
    <3>3. CASE ~ (bitrate # 0 /\ Dequeued # None)
      BY <1>0, <2>0, <2>2, <3>1, <3>3, ProcessStops
    <3>. QED
      BY <3>2, <3>3
  <2>. QED
    BY <1>1, <2>1, <2>2
<1>2. CASE Fire
  <2>1. /\ Collect(timer).waiting = 0 /\ Collect(timer).ready = timer.ready + timer.waiting
        /\ timer.ready = 0 /\ timer.expiry <= 0 /\ timer.waiting > 0
    BY <1>0, <1>2, CollectTimer DEF Fire, Due
  <2>. QED
    BY <1>0, <1>2, <2>1 DEF Fire, sending
<1>3. CASE Tick
  <2>1. /\ timer'.waiting = timer.waiting /\ timer'.ready = timer.ready
        /\ timer'.expiry = Closer(timer.expiry) /\ end' = Closer(end)
        /\ mqtt' = mqtt /\ current' = current
    BY <1>0, <1>3, TockTimer DEF Tick
  <2>2. Closer(end) <= end /\ Closer(end) \in Int
    BY <1>0, CloserInt
  <2>. QED
    BY <1>0, <2>1, <2>2
<1>4. CASE Disconnect \/ Parameter
  BY <1>4 DEF Disconnect, Parameter, SetBitrate, SetBufferSize, sending
<1>5. CASE Mqtt
  <2>1. CASE ConnectQueue \/ ConnectRate \/ NotifyCheck
    BY <2>1 DEF ConnectQueue, ConnectRate, NotifyCheck, Connected, sending
  <2>2. CASE NotifyExpire
    <3>1. ExpiresAt(timer, 0).waiting = 0 /\ ExpiresAt(timer, 0).ready = timer.ready
      BY <1>0, ExpiresTimer
    <3>. QED
      BY <2>2, <3>1 DEF NotifyExpire, sending
  <2>3. CASE NotifyWait
    <3>1. timer'.waiting = 1 /\ timer'.ready = timer.ready
      BY <1>0, <2>3, WaitTimer DEF NotifyWait
    <3>. QED
      BY <2>3, <3>1 DEF NotifyWait, Connected, sending
  <2>. QED
    BY <1>5, <2>1, <2>2, <2>3 DEF Mqtt
<1>6. CASE UNCHANGED vars
  BY <1>6 DEF vars, sending
<1>. QED
  BY <1>1, <1>2, <1>3, <1>4, <1>5, <1>6, MCCases

(* A packet is sent when its transmission has ended and not before, unless the
   packet thread has run a handler of the limiter while the MQTT thread was in
   its notify handler (BitrateRateModule.cpp:35, 64). *)
THEOREM PullPaced == MCSpec => Paced
<1>1. MCInit => Calm
  BY DEF MCInit, Init, Calm, Unarmed, None
<1>2. TypeOK /\ Calm /\ [MCNext]_mcvars => Calm'
  BY CalmStep
<1>3. ASSUME TypeOK, Calm, [MCNext]_mcvars
      PROVE  [sent' # sent /\ ~crossed => end <= 0]_vars
  <2>. SUFFICES ASSUME sent' # sent, ~ crossed
                PROVE  end <= 0
    OBVIOUS
  <2>1. CASE Process
    <3>1. current # None /\ timer.ready > 0
      BY <2>1 DEF Process
    <3>. QED
      BY <1>3, <3>1 DEF Calm
  <2>2. CASE Enqueue \/ Fire \/ Tick \/ Disconnect
    BY <2>2 DEF Enqueue, Fire, Tick, Disconnect, sending
  <2>3. CASE Mqtt \/ Parameter \/ UNCHANGED vars
    BY <2>3 DEF Mqtt, ConnectQueue, ConnectRate, NotifyCheck, NotifyExpire, NotifyWait, Parameter,
                SetBitrate, SetBufferSize, vars, sending
  <2>. QED
    BY <1>3, <2>1, <2>2, <2>3, MCCases
<1>4. MCSpec => []TypeOK
  BY MCImplementsSpec, TypeCorrect, PTL
<1>. QED
  BY <1>1, <1>2, <1>3, <1>4, PTL DEF MCSpec, Paced

----------------------------------------------------------------------------
(* Between the two threads' histories lies what keeps a packet from being sent
   again: without the race at most one handler or wait is there for a packet in
   transmission, and none for one that has been sent; without a bitrate of 0 no
   packet stays in current_transmission once it has been sent. *)
Once ==
  /\ ~ crossed /\ current # None =>
       /\ timer.waiting = 0 \/ timer.ready = 0
       /\ current = last => timer.waiting = 0 /\ timer.ready = 0
  /\ ~ halted /\ current # None => current # last

(* The packet taken is none of those sent before. *)
LEMMA TakenIsNew ==
  ASSUME TypeOK, Ordered, Process, bitrate # 0, Dequeued # None
  PROVE  current' # None /\ current' # last' /\ last < current' /\ current < current'
<1>0. /\ packet_queue \in Seq(Nat) /\ Len(packet_queue) \in Nat /\ last \in Nat /\ current \in Nat
  BY Numbers
<1>1. packet_queue # <<>> /\ current' = Head(packet_queue)
      /\ last' = IF current # None THEN current ELSE last
  BY ProcessTakes
<1>2. Len(packet_queue) > 0 /\ current' = packet_queue[1]
  BY <1>0, <1>1, EmptySeq
<1>3. last < current' /\ current < current' /\ current' \in Nat
  BY <1>0, <1>2, Numbers DEF Ordered
<1>. QED
  BY <1>0, <1>1, <1>3 DEF None

LEMMA OnceStep ==
  ASSUME TypeOK, Ordered, Calm, Once, [MCNext]_mcvars
  PROVE  Once'
<1>0. /\ timer \in Timer /\ timer.waiting \in Nat /\ timer.ready \in Nat
  BY TimerFields DEF TypeOK
<1>h. (halted => halted') /\ (crossed => crossed')
  BY MCCases
<1>. USE DEF Once
<1>1. CASE Enqueue
  <2>1. current' = current /\ last' = last
    BY <1>1, LastKept DEF Enqueue, sending
  <2>2. timer' = timer \/ current = None
    BY <1>1, EnqueueTimer
  <2>. QED
    BY <1>h, <2>1, <2>2
<1>2. CASE Process /\ (Process => halted' = (halted \/ bitrate = 0))
  <2>1. CASE bitrate # 0 /\ Dequeued # None
    <3>1. current' # None /\ current' # last'
      BY <1>2, <2>1, TakenIsNew
    <3>2. timer'.waiting = 1 /\ timer'.ready = timer.ready - 1
      BY <1>2, <2>1, ProcessTakes
    <3>3. ~ crossed' => timer'.ready = 0
      BY <1>0, <1>2, <1>h, <3>2 DEF Calm, Process
    <3>. QED
      BY <3>1, <3>3
  <2>2. CASE ~ (bitrate # 0 /\ Dequeued # None)
    <3>1. current' \in {current, None} /\ timer'.waiting = timer.waiting /\ timer'.ready = timer.ready - 1
      BY <1>2, <2>2, ProcessStops
    <3>2. timer.ready > 0
      BY <1>2 DEF Process
    <3>3. ASSUME ~ crossed', current' # None
          PROVE  timer'.waiting = 0 /\ timer'.ready = 0
      <4>1. ~ crossed /\ current # None
        BY <1>h, <3>1, <3>3
      <4>2. timer.waiting = 0 /\ timer.ready <= 1
        BY <1>0, <3>2, <4>1 DEF Calm
      <4>. QED
        BY <1>0, <3>1, <3>2, <4>2
    <3>4. ASSUME ~ halted', current' # None
          PROVE  FALSE
      <4>1. bitrate # 0
        BY <1>2, <3>4
      <4>2. current' = None
        BY <1>2, <2>2, <4>1 DEF Process
      <4>. QED
        BY <3>4, <4>2
    <3>. QED
      BY <3>3, <3>4
  <2>. QED
    BY <2>1, <2>2
<1>3. CASE Fire
  <2>1. /\ timer'.waiting = 0 /\ timer'.ready = timer.ready + timer.waiting
        /\ timer.ready = 0 /\ timer.waiting > 0
    BY <1>0, <1>3, CollectTimer DEF Fire, Due
  <2>2. current' = current /\ last' = last
    BY <1>3, LastKept DEF Fire, sending
  <2>. QED
    BY <1>0, <1>h, <2>1, <2>2
<1>4. CASE Tick
  <2>1. timer'.waiting = timer.waiting /\ timer'.ready = timer.ready
    BY <1>0, <1>4, TockTimer DEF Tick
  <2>2. current' = current /\ last' = last
    BY <1>4, LastKept DEF Tick
  <2>. QED
    BY <1>h, <2>1, <2>2
<1>5. CASE NotifyExpire \/ NotifyWait
  <2>1. current' = current /\ last' = last
    BY <1>5, LastKept DEF NotifyExpire, NotifyWait, sending
  <2>2. ~ crossed => current = None
    BY <1>5 DEF Calm, NotifyExpire, NotifyWait
  <2>. QED
    BY <1>h, <2>1, <2>2
<1>6. CASE UNCHANGED <<sending, timer>>
  <2>1. current' = current /\ last' = last
    BY <1>6, LastKept DEF sending
  <2>. QED
    BY <1>6, <1>h, <2>1
<1>7. CASE ConnectQueue \/ ConnectRate \/ NotifyCheck \/ Disconnect \/ Parameter \/ UNCHANGED vars
  BY <1>6, <1>7 DEF ConnectQueue, ConnectRate, NotifyCheck, Disconnect, Parameter, SetBitrate,
                    SetBufferSize, vars
<1>. QED
  BY <1>1, <1>2, <1>3, <1>4, <1>5, <1>7, MCCases DEF Mqtt

LEMMA OnceCorrect == MCSpec => [](TypeOK /\ Ordered /\ Once)
<1>1. MCInit => Calm /\ Once
  BY DEF MCInit, Init, Calm, Once, Unarmed, None
<1>2. TypeOK /\ Calm /\ [MCNext]_mcvars => Calm'
  BY CalmStep
<1>3. TypeOK /\ Ordered /\ Calm /\ Once /\ [MCNext]_mcvars => Once'
  BY OnceStep
<1>. QED
  BY <1>1, <1>2, <1>3, MCImplementsSpec, TypeCorrect, OrderedCorrect, PTL DEF MCSpec

(* Each step of the two modules is one of the channel's or none. *)
LEMMA ChannelStep ==
  ASSUME TypeOK, TypeOK', Ordered, Once, [Next]_vars
  PROVE  [Channel!Next]_(Channel!chan)
<1>. USE DEF Channel!chan, Channel!Next
<1>0. /\ packet_queue \in Seq(Nat) /\ Len(packet_queue) \in Nat /\ offered \in Nat
      /\ last \in Nat /\ current \in Nat
      /\ buffer_size \in Nat \ {0} /\ buffer_size' \in Nat \ {0}
  BY Numbers, PullPipelineAssumption DEF TypeOK
<1>1. CASE Enqueue
  <2>1. offered' = offered + 1 /\ UNCHANGED <<buffer_size, sending>>
    BY <1>1 DEF Enqueue
  <2>2. CASE Len(packet_queue) >= buffer_size
    <3>1. packet_queue' = packet_queue
      BY <1>1, <2>2 DEF Enqueue
    <3>2. Held' = Held
      BY <2>1, <3>1, LastKept DEF Held, InFlight, sending
    <3>3. Len(Held) >= buffer_size
      BY <1>0, <2>2, HeldFacts
    <3>4. Channel!Refuse
      BY <2>1, <3>2, <3>3 DEF Channel!Refuse, sending
    <3>. QED
      BY <3>4
  <2>3. CASE ~ (Len(packet_queue) >= buffer_size)
    <3>1. packet_queue' = Append(packet_queue, offered')
      BY <1>1, <2>3 DEF Enqueue
    <3>2. Held' = Append(Held, offered')
      <4>1. offered' \in Nat
        BY <1>0, <2>1
      <4>. QED
        BY <2>1, <3>1, <4>1, HeldAppend, LastKept DEF Held, InFlight, sending
    <3>3. Len(Held) <= buffer_size
      BY <1>0, <2>3, HeldFacts
    <3>4. Channel!Accept
      BY <2>1, <3>2, <3>3 DEF Channel!Accept, sending
    <3>. QED
      BY <3>4
  <2>. QED
    BY <2>2, <2>3
<1>2. CASE Process
  <2>1. /\ UNCHANGED <<offered, buffer_size>> /\ last' = IF current # None THEN current ELSE last
        /\ sent' = IF current # None THEN Append(sent, current) ELSE sent
    BY <1>2, ProcessSends DEF Process
  <2>2. Held' = packet_queue
    <3>1. CASE bitrate # 0 /\ Dequeued # None
      <4>1. packet_queue # <<>> /\ current' = Head(packet_queue) /\ packet_queue' = Tail(packet_queue)
        BY <1>2, <3>1, ProcessTakes
      <4>2. Len(packet_queue) > 0 /\ current' = packet_queue[1]
        BY <1>0, <4>1, EmptySeq
      <4>4. InFlight'
        BY <1>2, <3>1, TakenIsNew DEF InFlight
      <4>5. Held' = <<Head(packet_queue)>> \o Tail(packet_queue)
        BY <4>1, <4>4 DEF Held
      <4>. QED
        <5>1. SubSeq(packet_queue, 1, Len(packet_queue))
                = <<packet_queue[1]>> \o SubSeq(packet_queue, 2, Len(packet_queue))
          <6>1. 1 \in 1..Len(packet_queue) /\ Len(packet_queue) \in 1..Len(packet_queue)
            BY <1>0, <4>2
          <6>. QED
            BY <1>0, <6>1, SubSeqRecursiveFirst
        <5>2. Tail(packet_queue) = SubSeq(packet_queue, 2, Len(packet_queue))
          BY <1>0, <4>1, TailIsSubSeq
        <5>. QED
          BY <1>0, <4>1, <4>2, <4>5, <5>1, <5>2, SubSeqFull
    <3>2. CASE ~ (bitrate # 0 /\ Dequeued # None)
      <4>1. current' \in {current, None} /\ packet_queue' = packet_queue
        BY <1>2, <3>2, ProcessStops
      <4>2. ~ InFlight'
        BY <2>1, <4>1 DEF InFlight
      <4>. QED
        BY <4>1, <4>2 DEF Held
    <3>. QED
      BY <3>1, <3>2
  <2>3. CASE InFlight
    <3>1. Held # <<>> /\ sent' = Append(sent, Head(Held)) /\ Held' = Tail(Held)
      BY <2>1, <2>2, <2>3, HeldFacts DEF InFlight
    <3>2. Channel!Deliver
      BY <2>1, <3>1 DEF Channel!Deliver
    <3>. QED
      BY <3>2
  <2>4. CASE current = None
    <3>1. Held' = Held /\ sent' = sent
      BY <2>1, <2>2, <2>4, HeldFacts DEF InFlight
    <3>. QED
      BY <2>1, <3>1
  <2>5. CASE current # None /\ ~ InFlight
    <3>1. Held' = Held /\ sent' = Append(sent, last)
      BY <2>1, <2>2, <2>5, HeldFacts DEF InFlight
    <3>2. sent # <<>> /\ last = sent[Len(sent)]
      BY <2>5 DEF InFlight, last
    <3>3. crossed /\ halted
      <4>1. timer.ready > 0 /\ current = last
        BY <1>2, <2>5 DEF Process, InFlight
      <4>. QED
        BY <2>5, <4>1 DEF Once
    <3>4. Channel!Repeat
      BY <2>1, <3>1, <3>2, <3>3 DEF Channel!Repeat
    <3>. QED
      BY <3>4
  <2>. QED
    BY <2>3, <2>4, <2>5
<1>3. CASE \E n \in BufferSizes : SetBufferSize(n)
  <2>1. UNCHANGED <<offered, packet_queue, current, sent, last>>
    BY <1>3, LastKept DEF SetBufferSize, sending
  <2>2. Channel!Resize
    BY <1>0, <2>1 DEF Channel!Resize, Held, InFlight
  <2>. QED
    BY <2>2
<1>4. CASE UNCHANGED <<queue, current, sent>>
  <2>1. UNCHANGED <<Held, offered, sent, buffer_size>>
    BY <1>4, LastKept DEF queue, Held, InFlight
  <2>. QED
    BY <2>1
<1>5. CASE Fire \/ Tick \/ UNCHANGED vars
  BY <1>4, <1>5 DEF Fire, Tick, sending, vars
<1>6. CASE ConnectQueue \/ ConnectRate \/ NotifyCheck \/ NotifyExpire \/ NotifyWait \/ Disconnect
  BY <1>4, <1>6 DEF ConnectQueue, ConnectRate, NotifyCheck, NotifyExpire, NotifyWait, Disconnect,
                    sending
<1>7. CASE \E b \in Bitrates : SetBitrate(b)
  BY <1>4, <1>7 DEF SetBitrate, sending
<1>. QED
  BY <1>1, <1>2, <1>3, <1>5, <1>6, <1>7, Cases

(* Queue and limiter together are a first-in first-out channel: no packet is
   lost or overtaken between enqueue and output_port.send, one is refused only
   when as many are held as the buffer takes, and none is sent twice unless the
   limiter's threads have crossed and process has found the bitrate 0
   (FifoQueueModule.cpp:32-67, BitrateRateModule.cpp:35-68). *)
THEOREM PullImplementsChannel == MCSpec => ImplementsChannel
<1>1. MCInit => Channel!Init
  BY PullPipelineAssumption DEF MCInit, Init, Channel!Init, Held, InFlight, None
<1>2. TypeOK /\ TypeOK' /\ Ordered /\ Once /\ [MCNext]_mcvars => [Channel!Next]_(Channel!chan)
  BY ChannelStep, MCCases
<1>. QED
  BY <1>1, <1>2, OnceCorrect, PTL DEF MCSpec, ImplementsChannel, Channel!Spec
=============================================================================
