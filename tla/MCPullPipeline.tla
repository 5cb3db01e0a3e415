--------------------------- MODULE MCPullPipeline ---------------------------
(* PullPipeline with packets of one and two size units, alternating, and the  *)
(* histories of two things that go wrong in the limiter: its two threads race *)
(* (BitrateRateModule.cpp:35, 64), and a handler finds the bitrate 0          *)
(* (BitrateRateModule.cpp:55-58).                                             *)
EXTENDS PullPipeline

MCSize == [p \in 1..MaxPackets |-> 1 + (p % 2)]

VARIABLES
  crossed,  \* history: the packet thread ran a handler of the limiter while the MQTT
            \* thread was in the notify handler, past its look at current_transmission
  halted    \* history: a process handler has run while the bitrate was 0

MCInit == Init /\ crossed = FALSE /\ halted = FALSE

MCNext ==
  \/ (Enqueue \/ Process) /\ crossed' = (crossed \/ mqtt \in {"expire", "wait"})
                          /\ halted' = (halted \/ (Process /\ bitrate = 0))
  \/ (Fire \/ Tick \/ Mqtt \/ Disconnect \/ Parameter) /\ UNCHANGED <<crossed, halted>>

mcvars == <<vars, crossed, halted>>

MCSpec == MCInit /\ [][MCNext]_mcvars /\ Fairness

----------------------------------------------------------------------------
(* Properties *)

(* A packet is sent when its transmission has ended and not before, through the
   making of the path too, which notifies the limiter from the other thread: no
   process handler is left over from a notification, unless the two threads
   crossed in it (BitrateRateModule.cpp:35, 64). *)
Paced == [][sent' # sent /\ ~crossed => end <= 0]_vars

(* The two modules together are a first-in first-out channel: no packet is
   lost, sent twice or overtaken between enqueue and output_port.send, whatever
   the MQTT thread does to the path and the parameters meanwhile.  Only after
   both faults may the packet in transmission be sent again: process keeps
   current_transmission when the bitrate is 0 (BitrateRateModule.cpp:51-58), and
   only the race leaves a second handler behind that finds it there. *)
Channel == INSTANCE PacketChannel WITH
             held <- Held, room <- buffer_size, faulty <- crossed /\ halted
ImplementsChannel == Channel!Spec

=============================================================================
