----------------------------- MODULE MqttClient -----------------------------
(***************************************************************************)
(* The MQTT client (Mqtt.cpp), its connection and the broker.  Every        *)
(* message FlowEmu publishes is retained.  The MQTT thread runs on_connect, *)
(* on_disconnect and the message handlers; the packet thread publishes the  *)
(* statistics, through the same maps and the same flag and without a lock.  *)
(* With Threads, publish is cut where it has tested the flag or a map and   *)
(* not yet done the rest; without, the two threads take turns.              *)
(*                                                                         *)
(* The value published to a topic is a number: the n-th new value of it.    *)
(* The connection and the broker are as libmosquitto and MQTT have them for *)
(* a clean session and QoS 0: what is sent arrives in order, or is lost     *)
(* with the connection; the broker keeps the last value of each topic, and  *)
(* forgets the subscriptions when the connection goes.                      *)
(***************************************************************************)
EXTENDS Naturals, Sequences

CONSTANTS
  Topics,      \* topics that are published on
  Statistics,  \* those the packet thread publishes on
  Filters,     \* topics that are subscribed to
  MaxValue,    \* bound: new values of a topic
  MaxLosses,   \* bound: lost connections
  MaxSent,     \* bound: messages on their way when another is published
  Threads      \* whether the packet thread may publish inside on_connect

ASSUME MqttClientAssumption ==
  /\ Statistics \subseteq Topics
  /\ MaxValue \in Nat /\ MaxLosses \in Nat /\ MaxSent \in Nat /\ Threads \in BOOLEAN

None == 0
Values == 1..MaxValue
NoTopic == "none"
ASSUME NoTopicAssumption == NoTopic \notin Topics

VARIABLES
  connected,          \* the flag
  once_messages, retained_messages,
  subscriptions,
  value,              \* the newest value of each topic
  publishing,         \* where the packet thread is in publish, and for what
  replay,             \* the topics on_connect has yet to publish
  link,               \* "down", "handshake" or "up"
  sent,               \* messages on their way to the broker
  broker,             \* its retained messages
  subscribed,         \* its subscriptions of this client
  losses              \* how often the connection was lost

client == <<connected, once_messages, retained_messages, subscriptions>>
network == <<link, sent, broker, subscribed, losses>>
vars == <<client, value, publishing, replay, network>>

Idle == [at |-> "idle", topic |-> NoTopic, value |-> None]

(* Type invariant. *)
TypeOK ==
  /\ connected \in BOOLEAN
  /\ {once_messages, retained_messages, broker, value} \subseteq [Topics -> Values \cup {None}]
  /\ subscriptions \subseteq Filters /\ subscribed \subseteq Filters
  /\ publishing = Idle \/ publishing \in [at : {"send", "once", "retain"},
                                           topic : Statistics, value : Values]
  /\ replay \subseteq Topics
  /\ link \in {"down", "handshake", "up"}
  /\ sent \in Seq([topic : Topics, value : Values])
  /\ losses \in 0..MaxLosses

(* Whose turn it is. *)
MqttThread == replay = {} /\ (Threads \/ publishing = Idle)
PacketThread == Threads \/ replay = {}

(* mosquitto_publish: without a connection it returns an error nobody looks at. *)
Sending(t, v) == IF link = "up" THEN Append(sent, [topic |-> t, value |-> v]) ELSE sent

(* The newest value again, or a new one. *)
NextValues(t) == {v \in {value[t], value[t] + 1} : v \in Values}

Suppressed(t, v) == once_messages[t] = v

----------------------------------------------------------------------------
(* publish on the MQTT thread, by a message handler. *)
Publish(t, v, once) ==
  /\ MqttThread
  /\ Len(sent) <= MaxSent
  /\ value' = [value EXCEPT ![t] = v]
  /\ IF once /\ Suppressed(t, v)
       THEN UNCHANGED <<once_messages, retained_messages, sent>>
       ELSE /\ sent' = IF connected THEN Sending(t, v) ELSE sent
            /\ once_messages' = [once_messages EXCEPT ![t] = v]
            /\ retained_messages' = [retained_messages EXCEPT ![t] = v]
  /\ UNCHANGED <<connected, subscriptions, publishing, replay, link, broker, subscribed, losses>>

(* publish on the packet thread, by a statistic: the test for a repetition, ... *)
PublishTest(t, v) ==
  /\ PacketThread
  /\ publishing = Idle
  /\ Len(sent) <= MaxSent
  /\ value' = [value EXCEPT ![t] = v]
  /\ publishing' = IF Suppressed(t, v) THEN Idle ELSE [at |-> "send", topic |-> t, value |-> v]
  /\ UNCHANGED <<client, replay, network>>

(* ... the test of the flag, and the message, ... *)
PublishSend ==
  /\ PacketThread
  /\ publishing.at = "send"
  /\ sent' = IF connected THEN Sending(publishing.topic, publishing.value) ELSE sent
  /\ publishing' = [publishing EXCEPT !.at = "once"]
  /\ UNCHANGED <<client, value, replay, link, broker, subscribed, losses>>

(* ... the two maps. *)
PublishOnce ==
  /\ PacketThread
  /\ publishing.at = "once"
  /\ once_messages' = [once_messages EXCEPT ![publishing.topic] = publishing.value]
  /\ publishing' = [publishing EXCEPT !.at = "retain"]
  /\ UNCHANGED <<connected, retained_messages, subscriptions, value, replay, network>>

(* Mutant: the message is not kept. *)
PublishRetainForgets ==
  /\ PacketThread
  /\ publishing.at = "retain"
  /\ publishing' = Idle
  /\ UNCHANGED <<client, value, replay, network>>

(* Mutant: a message is kept only if there is none for the topic (map::insert). *)
PublishRetainFirst ==
  LET t == publishing.topic
  IN  /\ PacketThread
      /\ publishing.at = "retain"
      /\ retained_messages' = [retained_messages EXCEPT ![t] = IF @ = None THEN publishing.value ELSE @]
      /\ publishing' = Idle
      /\ UNCHANGED <<connected, once_messages, subscriptions, value, replay, network>>

(* A topic new to the map is met by on_connect's loop if it sorts behind. *)
PublishRetain ==
  LET t == publishing.topic
  IN  /\ PacketThread
      /\ publishing.at = "retain"
      /\ retained_messages' = [retained_messages EXCEPT ![t] = publishing.value]
      /\ publishing' = Idle
      /\ replay' \in IF replay # {} /\ retained_messages[t] = None
                       THEN {replay, replay \cup {t}} ELSE {replay}
      /\ UNCHANGED <<connected, once_messages, subscriptions, value, network>>

----------------------------------------------------------------------------
(* The MQTT thread *)

Subscribe(f) ==
  /\ MqttThread
  /\ subscriptions' = subscriptions \cup {f}
  /\ subscribed' = IF connected /\ link = "up" THEN subscribed \cup {f} ELSE subscribed
  /\ UNCHANGED <<connected, once_messages, retained_messages, value, publishing, replay,
                 link, sent, broker, losses>>

Unsubscribe(f) ==
  /\ MqttThread
  /\ subscriptions' = subscriptions \ {f}
  /\ subscribed' = IF connected /\ link = "up" THEN subscribed \ {f} ELSE subscribed
  /\ UNCHANGED <<connected, once_messages, retained_messages, value, publishing, replay,
                 link, sent, broker, losses>>

(* Mutant: the subscriptions are left to the broker. *)
OnConnectUnsubscribed(accepted) ==
  /\ MqttThread
  /\ link = "handshake"
  /\ link' = IF accepted THEN "up" ELSE "down"
  /\ connected' = TRUE
  /\ replay' = {t \in Topics : retained_messages[t] # None}
  /\ UNCHANGED <<once_messages, retained_messages, subscriptions, value, publishing, sent,
                 broker, subscribed, losses>>

(* on_connect: the flag, the subscriptions; rc, the broker's answer, is not
   looked at ... *)
OnConnect(accepted) ==
  /\ MqttThread
  /\ link = "handshake"
  /\ link' = IF accepted THEN "up" ELSE "down"
  /\ connected' = TRUE
  /\ subscribed' = IF accepted THEN subscriptions ELSE subscribed
  /\ replay' = {t \in Topics : retained_messages[t] # None}
  /\ UNCHANGED <<once_messages, retained_messages, subscriptions, value, publishing, sent,
                 broker, losses>>

(* ... and the retained messages. *)
Replay(t) ==
  /\ t \in replay
  /\ Threads \/ publishing = Idle
  /\ sent' = Sending(t, retained_messages[t])
  /\ replay' = replay \ {t}
  /\ UNCHANGED <<client, value, publishing, link, broker, subscribed, losses>>

(* on_disconnect, then loop connects again. *)
OnDisconnect ==
  /\ MqttThread
  /\ link = "down" /\ connected
  /\ connected' = FALSE
  /\ UNCHANGED <<once_messages, retained_messages, subscriptions, value, publishing, replay, network>>

Reconnect ==
  /\ MqttThread
  /\ link = "down" /\ ~ connected
  /\ link' = "handshake"
  /\ UNCHANGED <<client, value, publishing, replay, sent, broker, subscribed, losses>>

----------------------------------------------------------------------------
(* The network *)

Deliver ==
  /\ sent # <<>>
  /\ broker' = [broker EXCEPT ![Head(sent).topic] = Head(sent).value]
  /\ sent' = Tail(sent)
  /\ UNCHANGED <<client, value, publishing, replay, link, subscribed, losses>>

Lose ==
  /\ link # "down" /\ losses < MaxLosses
  /\ losses' = losses + 1
  /\ link' = "down" /\ sent' = <<>> /\ subscribed' = {}
  /\ UNCHANGED <<client, value, publishing, replay, broker>>

Init ==
  /\ connected = FALSE /\ link = "handshake"
  /\ once_messages = [t \in Topics |-> None]
  /\ retained_messages = once_messages /\ broker = once_messages /\ value = once_messages
  /\ subscriptions = {} /\ subscribed = {}
  /\ publishing = Idle /\ replay = {}
  /\ sent = <<>> /\ losses = 0

PublishStep == PublishSend \/ PublishOnce \/ PublishRetain
Loop == OnConnect(TRUE) \/ (\E t \in Topics : Replay(t)) \/ OnDisconnect \/ Reconnect

Next ==
  \/ \E t \in Topics \ Statistics, once \in BOOLEAN : \E v \in NextValues(t) : Publish(t, v, once)
  \/ \E t \in Statistics : \E v \in NextValues(t) : PublishTest(t, v)
  \/ \E f \in Filters : Subscribe(f) \/ Unsubscribe(f)
  \/ PublishStep \/ Loop \/ OnConnect(FALSE)
  \/ Deliver \/ Lose

Spec == Init /\ [][Next]_vars

(* The MQTT thread loops, a publish that was begun is finished, and what was
   sent arrives.  Nobody has to publish. *)
FairSpec == Spec /\ WF_vars(Loop) /\ WF_vars(PublishStep) /\ WF_vars(Deliver)

----------------------------------------------------------------------------
(* Properties *)

(* README.md promises real-time statistics: once the connection holds, the broker
   comes to show the value published last on each topic, however often the
   connection was lost before, and whatever was published then. *)
BrokerCatchesUp ==
  (<>[](link = "up")) =>
    \A t \in Topics :
      [](value[t] # None => <>(broker[t] = value[t]))

(* A broker never goes back from a newer value to an older one. *)
NoValueReturns == [][\A t \in Topics : broker[t] <= broker'[t]]_vars

(* While a connection holds, and on_connect has seen to it, the broker sends this
   client the topics it has subscribed to, and those only. *)
SubscriptionsKept == connected /\ link = "up" => subscribed = subscriptions
=============================================================================
