---------------------------- MODULE PullPipeline ----------------------------
(***************************************************************************)
(* A FIFO queue (FifoQueueModule.cpp) and the bitrate limiter that pulls    *)
(* packets from it (BitrateRateModule.cpp) over a requesting/responding     *)
(* path (Port.hpp).                                                         *)
(*                                                                         *)
(* The queue notifies, the limiter requests.  The limiter's handlers run on *)
(* the packet thread, one after the other; the path is made and taken down  *)
(* by the MQTT thread, whose connect() runs the limiter's notify handler    *)
(* there and then.  An action of the packet thread is one handler; the MQTT *)
(* thread's connect is cut at each access to what the two threads share.    *)
(*                                                                         *)
(* Times are relative to now (AsioTimer).                                   *)
(***************************************************************************)
EXTENDS AsioTimer, Sequences

CONSTANTS
  MaxPackets,   \* bound: packets offered in a behaviour
  Bitrates,     \* values the bitrate parameter takes
  BufferSizes,  \* values the buffer_size parameter takes
  Size,         \* Size[p]: the size of packet p
  Relink,       \* whether the path is taken down and made again
  RateFirst     \* whether the path is listed from the limiter's port

ASSUME PullPipelineAssumption ==
  /\ MaxPackets \in Nat \ {0}
  /\ Bitrates \subseteq Nat /\ Bitrates # {}
  /\ BufferSizes \subseteq Nat \ {0} /\ BufferSizes # {}
  /\ Size \in [1..MaxPackets -> Nat]
  /\ Relink \in BOOLEAN /\ RateFirst \in BOOLEAN

None == 0

VARIABLES
  offered,       \* packets that have reached the queue
  packet_queue,  \* FifoQueueModule::packet_queue
  buffer_size,   \* FifoQueueModule::parameter_buffer_size
  bitrate,       \* BitrateRateModule::parameter_bitrate
  current,       \* BitrateRateModule::current_transmission
  sent,          \* the packets sent through output_port, in the order of sending
  timer,         \* BitrateRateModule::timer
  end,           \* when the transmission of current ends
  queue_linked,  \* the queue's port knows the limiter's
  rate_linked,   \* the limiter's port knows the queue's
  mqtt           \* where the MQTT thread is in connect()

queue == <<offered, packet_queue, buffer_size>>
sending == <<current, sent, end>>
links == <<queue_linked, rate_linked>>
vars == <<queue, bitrate, sending, timer, links, mqtt>>

Packets == 1..MaxPackets

(* The packet sent last. *)
last == IF sent = <<>> THEN None ELSE sent[Len(sent)]

(* Type invariant. *)
TypeOK ==
  /\ offered \in 0..MaxPackets
  /\ packet_queue \in Seq(Packets)
  /\ buffer_size \in BufferSizes /\ bitrate \in Bitrates
  /\ current \in Packets \cup {None} /\ sent \in Seq(Packets)
  /\ timer \in Timer /\ end \in Int
  /\ queue_linked \in BOOLEAN /\ rate_linked \in BOOLEAN
  /\ mqtt \in {"idle", "connect", "connect_second", "check", "expire", "wait"}

Linked == queue_linked /\ rate_linked

(* Transmission time of packet p at rate b (integer division, as in process). *)
TxTime(p, b) == Size[p] \div b

----------------------------------------------------------------------------
(* The packet thread *)

(* RequestingPort::notify and the notify handler, when called on this thread. *)
(* Mutant: the handler does not look at current_transmission. *)
NotifyAlways == timer' = Start(timer, 0)
Notify == timer' = IF current # None THEN timer ELSE Start(timer, 0)

(* enqueue: a packet that finds the buffer full is dropped and notifies nobody. *)
(* Mutant: the bound is compared with > instead of >=. *)
EnqueueOverfull ==
  /\ offered < MaxPackets
  /\ offered' = offered + 1
  /\ IF Len(packet_queue) > buffer_size
       THEN UNCHANGED <<packet_queue, timer>>
       ELSE /\ packet_queue' = Append(packet_queue, offered')
            /\ IF queue_linked THEN Notify ELSE UNCHANGED timer
  /\ UNCHANGED <<buffer_size, bitrate, sending, links, mqtt>>


Enqueue ==
  /\ offered < MaxPackets
  /\ offered' = offered + 1
  /\ IF Len(packet_queue) >= buffer_size
       THEN UNCHANGED <<packet_queue, timer>>
       ELSE /\ packet_queue' = Append(packet_queue, offered')
            /\ IF queue_linked THEN Notify ELSE UNCHANGED timer
  /\ UNCHANGED <<buffer_size, bitrate, sending, links, mqtt>>

(* The reactor: a due timer's waits become handlers. *)
Fire ==
  /\ timer.ready = 0 /\ Due(timer)
  /\ timer' = Collect(timer)
  /\ UNCHANGED <<queue, bitrate, sending, links, mqtt>>

(* The answer to a request: the queue's front, if the port is connected and the
   queue is not empty. *)
Dequeued == IF rate_linked /\ packet_queue # <<>> THEN Head(packet_queue) ELSE None

(* Mutant: the timer is not started for the packet taken. *)
ProcessUnarmed ==
  /\ timer.ready > 0
  /\ timer' = Return(timer)
  /\ sent' = IF current # None THEN Append(sent, current) ELSE sent
  /\ IF bitrate # 0 /\ Dequeued # None
       THEN /\ current' = Dequeued
            /\ packet_queue' = Tail(packet_queue)
            /\ end' = timer.expiry + TxTime(current', bitrate)
       ELSE current' = None /\ UNCHANGED <<packet_queue, end>>
  /\ UNCHANGED <<offered, buffer_size, bitrate, links, mqtt>>

(* process: send what was being transmitted, then, unless the bitrate is 0,
   request the next packet and wait for as long as it takes to transmit. *)
Process ==
  /\ timer.ready > 0
  /\ sent' = IF current # None THEN Append(sent, current) ELSE sent
  /\ IF bitrate # 0 /\ Dequeued # None
       THEN /\ current' = Dequeued
            /\ packet_queue' = Tail(packet_queue)
            /\ end' = timer.expiry + TxTime(current', bitrate)
            /\ timer' = Start(Return(timer), end')
       ELSE /\ current' = IF bitrate = 0 THEN current ELSE None
            /\ timer' = Return(timer)
            /\ UNCHANGED <<packet_queue, end>>
  /\ UNCHANGED <<offered, buffer_size, bitrate, links, mqtt>>

Tick ==
  /\ timer' = Tock(timer) /\ end' = Closer(end)
  /\ UNCHANGED <<queue, bitrate, current, sent, links, mqtt>>

----------------------------------------------------------------------------
(* The MQTT thread *)

SetBitrate(b) ==
  /\ mqtt = "idle"
  /\ bitrate' = b
  /\ UNCHANGED <<queue, sending, timer, links, mqtt>>

SetBufferSize(n) ==
  /\ mqtt = "idle"
  /\ buffer_size' = n
  /\ UNCHANGED <<offered, packet_queue, bitrate, sending, timer, links, mqtt>>

(* removePath *)
Disconnect ==
  /\ Relink
  /\ mqtt = "idle" /\ Linked
  /\ queue_linked' = FALSE /\ rate_linked' = FALSE
  /\ mqtt' = "connect"
  /\ UNCHANGED <<queue, bitrate, sending, timer>>

(* addPath: the port the path is listed from is connected first. *)
ConnectQueue ==
  /\ ~ queue_linked
  /\ mqtt = IF RateFirst THEN "connect_second" ELSE "connect"
  /\ queue_linked' = TRUE
  /\ mqtt' = IF RateFirst THEN "idle" ELSE "connect_second"
  /\ UNCHANGED <<queue, bitrate, sending, timer, rate_linked>>

ConnectRate ==
  /\ ~ rate_linked
  /\ mqtt = IF RateFirst THEN "connect" ELSE "connect_second"
  /\ rate_linked' = TRUE
  /\ mqtt' = "check"
  /\ UNCHANGED <<queue, bitrate, sending, timer, queue_linked>>

Connected == IF RateFirst THEN "connect_second" ELSE "idle"

(* RequestingPort::connect runs the notify handler on this thread. *)
NotifyCheck ==
  /\ mqtt = "check"
  /\ mqtt' = IF current # None THEN Connected ELSE "expire"
  /\ UNCHANGED <<queue, bitrate, sending, timer, links>>

NotifyExpire ==
  /\ mqtt = "expire"
  /\ timer' = ExpiresAt(timer, 0)
  /\ mqtt' = "wait"
  /\ UNCHANGED <<queue, bitrate, sending, links>>

NotifyWait ==
  /\ mqtt = "wait"
  /\ timer' = AsyncWait(timer)
  /\ mqtt' = Connected
  /\ UNCHANGED <<queue, bitrate, sending, links>>

----------------------------------------------------------------------------
Init ==
  /\ offered = 0 /\ packet_queue = <<>>
  /\ buffer_size \in BufferSizes /\ bitrate \in Bitrates
  /\ current = None /\ sent = <<>>
  /\ timer = Unarmed /\ end = 0
  /\ queue_linked = ~ Relink /\ rate_linked = ~ Relink
  /\ mqtt = IF Relink THEN "connect" ELSE "idle"

Packet == Enqueue \/ Fire \/ Process
Mqtt == ConnectQueue \/ ConnectRate \/ NotifyCheck \/ NotifyExpire \/ NotifyWait
Parameter == (\E b \in Bitrates : SetBitrate(b)) \/ (\E n \in BufferSizes : SetBufferSize(n))

Next == Packet \/ Tick \/ Mqtt \/ Disconnect \/ Parameter

Spec == Init /\ [][Next]_vars

(* The packet thread serves its timers and handlers, the MQTT thread finishes
   the message it is at, and time passes.  Nobody has to send packets or
   messages. *)
Fairness == WF_vars(Fire) /\ WF_vars(Process) /\ WF_vars(Tick) /\ WF_vars(Mqtt)
FairSpec == Spec /\ Fairness

----------------------------------------------------------------------------
(* Properties *)

(* current_transmission outlives its packet when the bitrate is found to be 0. *)
InFlight == current # None /\ current # last
Held == IF InFlight THEN <<current>> \o packet_queue ELSE packet_queue
HeldPackets == {Held[i] : i \in 1..Len(Held)}

(* A packet that has left the queue is on its way: process will run for it. *)
TransmissionTimed == InFlight => Pending(timer) \/ mqtt = "wait"
=============================================================================
