--------------------------- MODULE PacketChannel ---------------------------
(* What a queue and the rate module behind it promise: a first-in first-out   *)
(* channel that delivers each packet it accepts once, holds one more than the *)
(* buffer takes (the packet being transmitted), and refuses a packet only     *)
(* when it holds as many as the buffer takes.  While it is faulty it may also *)
(* deliver the packet it delivered last once more, and nothing else.          *)
EXTENDS Naturals, Sequences

VARIABLES
  held,    \* packets accepted and not yet delivered, oldest first
  offered, \* number of packets offered so far; a packet is its number
  sent,    \* what was delivered, every delivery of it
  room,    \* the buffer size
  faulty   \* whether a packet may be repeated

chan == <<held, offered, sent, room>>

Init == held = <<>> /\ offered = 0 /\ sent = <<>> /\ room \in Nat \ {0}

Accept ==
  /\ Len(held) <= room
  /\ offered' = offered + 1
  /\ held' = Append(held, offered')
  /\ UNCHANGED <<sent, room>>

Refuse ==
  /\ Len(held) >= room
  /\ offered' = offered + 1
  /\ UNCHANGED <<held, sent, room>>

Deliver ==
  /\ held # <<>>
  /\ sent' = Append(sent, Head(held))
  /\ held' = Tail(held)
  /\ UNCHANGED <<offered, room>>

Repeat ==
  /\ faulty /\ sent # <<>>
  /\ sent' = Append(sent, sent[Len(sent)])
  /\ UNCHANGED <<held, offered, room>>

Resize ==
  /\ room' \in Nat \ {0}
  /\ UNCHANGED <<held, offered, sent>>

Next == Accept \/ Refuse \/ Deliver \/ Repeat \/ Resize

Spec == Init /\ [][Next]_chan
=============================================================================
