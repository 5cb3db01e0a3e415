--------------------------- MODULE MqttClient_proofs ---------------------------
(***************************************************************************)
(* Proofs about MqttClient, for any topics, values, filters and numbers of  *)
(* lost connections: the subscriptions outlive the connections, wherever    *)
(* the packet thread publishes; and, when the two threads take turns, what  *)
(* a broker holds of a topic never goes back.                               *)
(***************************************************************************)
EXTENDS MqttClient, SequenceTheorems, TLAPS

Message == [topic : Topics, value : Values]
Publishing == [at : {"send", "once", "retain"}, topic : Statistics, value : Values]

(* The disjuncts of Next, by name. *)
LEMMA Cases ==
  ASSUME [Next]_vars
  PROVE  \/ \E t \in Topics \ Statistics, once \in BOOLEAN : \E v \in NextValues(t) : Publish(t, v, once)
         \/ \E t \in Statistics : \E v \in NextValues(t) : PublishTest(t, v)
         \/ (\E f \in Filters : Subscribe(f)) \/ (\E f \in Filters : Unsubscribe(f))
         \/ PublishSend \/ PublishOnce \/ PublishRetain
         \/ (\E a \in BOOLEAN : OnConnect(a)) \/ (\E t \in Topics : Replay(t))
         \/ OnDisconnect \/ Reconnect \/ Deliver \/ Lose
         \/ UNCHANGED vars
BY DEF Next, PublishStep, Loop

LEMMA Types ==
  ASSUME TypeOK
  PROVE  /\ once_messages \in [Topics -> Values \cup {None}]
         /\ retained_messages \in [Topics -> Values \cup {None}]
         /\ broker \in [Topics -> Values \cup {None}] /\ value \in [Topics -> Values \cup {None}]
         /\ sent \in Seq(Message) /\ Len(sent) \in Nat
         /\ \A i \in 1..Len(sent) : sent[i] \in Message
         /\ publishing = Idle \/ publishing \in Publishing
<1>1. sent \in Seq(Message)
  BY DEF TypeOK, Message
<1>2. Len(sent) \in Nat /\ \A i \in 1..Len(sent) : sent[i] \in Message
  BY <1>1, LenProperties, ElementOfSeq
<1>. QED
  BY <1>1, <1>2 DEF TypeOK, Publishing

(* Only publish has a topic and a value. *)
LEMMA IdleAt ==
  /\ Idle.at = "idle" /\ Idle.topic = NoTopic
  /\ \A p \in Publishing : p # Idle /\ p.topic \in Statistics /\ p.topic \in Topics /\ p.value \in Values
                          /\ p.at \in {"send", "once", "retain"}
BY MqttClientAssumption DEF Idle, Publishing

LEMMA Busy ==
  ASSUME TypeOK, publishing.at \in {"send", "once", "retain"}
  PROVE  publishing \in Publishing
BY Types DEF Idle

(* What is sent is a message at the end of what is on its way, or nothing. *)
LEMMA Sends ==
  ASSUME TypeOK, NEW t \in Topics, NEW v \in Values
  PROVE  /\ [topic |-> t, value |-> v] \in Message
         /\ Sending(t, v) = sent \/ Sending(t, v) = Append(sent, [topic |-> t, value |-> v])
         /\ Sending(t, v) \in Seq(Message)
<1>1. [topic |-> t, value |-> v] \in Message
  BY DEF Message
<1>2. Append(sent, [topic |-> t, value |-> v]) \in Seq(Message)
  BY <1>1, Types, AppendProperties
<1>. QED
  BY <1>1, <1>2, Types DEF Sending

----------------------------------------------------------------------------
(* on_connect replays only topics it has a message for. *)
Replayable == \A t \in replay : retained_messages[t] # None

LEMMA ReplayableStep ==
  ASSUME TypeOK, Replayable, [Next]_vars
  PROVE  Replayable'
<1>. USE DEF Replayable
<1>0. None \notin Values
  BY DEF None, Values
<1>1. ASSUME NEW t \in Topics \ Statistics, NEW once \in BOOLEAN, NEW v \in NextValues(t),
             Publish(t, v, once)
      PROVE  Replayable'
  BY <1>1 DEF Publish, MqttThread
<1>2. CASE PublishRetain
  <2>1. publishing \in Publishing
    BY <1>2, Busy DEF PublishRetain
  <2>2. publishing.topic \in Topics /\ publishing.value # None
    BY <1>0, <2>1, IdleAt
  <2>3. /\ retained_messages' = [retained_messages EXCEPT ![publishing.topic] = publishing.value]
        /\ replay' \subseteq replay \cup {publishing.topic}
    BY <1>2 DEF PublishRetain
  <2>4. retained_messages \in [Topics -> Values \cup {None}] /\ replay \subseteq Topics
    BY DEF TypeOK
  <2>. QED
    BY <2>2, <2>3, <2>4
<1>3. ASSUME NEW a \in BOOLEAN, OnConnect(a) PROVE Replayable'
  BY <1>3 DEF OnConnect
<1>4. ASSUME NEW t \in Topics, Replay(t) PROVE Replayable'
  BY <1>4 DEF Replay, client
<1>5. CASE replay' = replay /\ retained_messages' = retained_messages
  BY <1>5
<1>6. ASSUME \/ \E t \in Statistics : \E v \in NextValues(t) : PublishTest(t, v)
             \/ PublishSend \/ PublishOnce
             \/ \E f \in Filters : Subscribe(f) \/ Unsubscribe(f)
             \/ OnDisconnect \/ Reconnect \/ Deliver \/ Lose \/ UNCHANGED vars
      PROVE  replay' = replay /\ retained_messages' = retained_messages
  BY <1>6 DEF PublishTest, PublishSend, PublishOnce, Subscribe, Unsubscribe, OnDisconnect, Reconnect,
              Deliver, Lose, vars, client
<1>. QED
  BY <1>1, <1>2, <1>3, <1>4, <1>5, <1>6, Cases

LEMMA TypeStep ==
  ASSUME TypeOK, Replayable, [Next]_vars
  PROVE  TypeOK'
<1>. USE DEF TypeOK
<1>m. Message = [topic : Topics, value : Values]
  BY DEF Message
<1>1. ASSUME NEW t \in Topics \ Statistics, NEW once \in BOOLEAN, NEW v \in NextValues(t),
             Publish(t, v, once)
      PROVE  TypeOK'
  <2>1. v \in Values
    BY DEF NextValues
  <2>2. sent' \in Seq(Message)
    <3>1. Sending(t, v) \in Seq(Message) /\ sent \in Seq(Message)
      BY <2>1, Sends, Types
    <3>2. sent' \in {sent, Sending(t, v)}
      BY <1>1 DEF Publish
    <3>. QED
      BY <3>1, <3>2
  <2>3. value' \in [Topics -> Values \cup {None}]
    BY <1>1, <2>1 DEF Publish
  <2>4. once_messages' \in [Topics -> Values \cup {None}]
    BY <1>1, <2>1 DEF Publish
  <2>5. retained_messages' \in [Topics -> Values \cup {None}]
    BY <1>1, <2>1 DEF Publish
  <2>. QED
    BY <1>m, <1>1, <2>2, <2>3, <2>4, <2>5 DEF Publish
<1>2. ASSUME NEW t \in Statistics, NEW v \in NextValues(t), PublishTest(t, v)
      PROVE  TypeOK'
  <2>1. v \in Values /\ t \in Topics
    BY MqttClientAssumption DEF NextValues
  <2>2. value' \in [Topics -> Values \cup {None}]
    BY <1>2, <2>1 DEF PublishTest
  <2>3. publishing' = Idle \/ publishing' \in [at : {"send", "once", "retain"},
                                               topic : Statistics, value : Values]
    BY <1>2, <2>1 DEF PublishTest
  <2>. QED
    BY <1>2, <2>2, <2>3 DEF PublishTest, client, network
<1>3. CASE PublishSend
  <2>1. publishing \in Publishing
    BY <1>3, Busy DEF PublishSend
  <2>2. sent' \in Seq(Message)
    BY <1>3, <2>1, IdleAt, Sends, Types DEF PublishSend
  <2>3. publishing' \in [at : {"send", "once", "retain"}, topic : Statistics, value : Values]
    BY <1>3, <2>1 DEF PublishSend, Publishing
  <2>. QED
    BY <1>m, <1>3, <2>2, <2>3 DEF PublishSend, client
<1>4. CASE PublishOnce
  <2>1. publishing \in Publishing
    BY <1>4, Busy DEF PublishOnce
  <2>2. once_messages' \in [Topics -> Values \cup {None}]
    BY <1>4, <2>1, IdleAt DEF PublishOnce
  <2>3. publishing' \in [at : {"send", "once", "retain"}, topic : Statistics, value : Values]
    BY <1>4, <2>1 DEF PublishOnce, Publishing
  <2>. QED
    BY <1>4, <2>2, <2>3 DEF PublishOnce, network
<1>5. CASE PublishRetain
  <2>1. publishing \in Publishing
    BY <1>5, Busy DEF PublishRetain
  <2>2. retained_messages' \in [Topics -> Values \cup {None}]
    BY <1>5, <2>1, IdleAt DEF PublishRetain
  <2>3. replay' \subseteq Topics
    BY <1>5, <2>1, IdleAt DEF PublishRetain
  <2>. QED
    BY <1>5, <2>2, <2>3 DEF PublishRetain, network
<1>6. ASSUME NEW f \in Filters, Subscribe(f) \/ Unsubscribe(f)
      PROVE  TypeOK'
  BY <1>6 DEF Subscribe, Unsubscribe
<1>7. ASSUME NEW a \in BOOLEAN, OnConnect(a)
      PROVE  TypeOK'
  BY <1>7 DEF OnConnect
<1>8. ASSUME NEW t \in Topics, Replay(t)
      PROVE  TypeOK'
  <2>1. sent' \in Seq(Message)
    <3>1. retained_messages[t] \in Values
      BY <1>8 DEF Replay, Replayable
    <3>. QED
      BY <1>8, <3>1, Sends DEF Replay
  <2>. QED
    BY <1>m, <1>8, <2>1 DEF Replay, client
<1>9. CASE OnDisconnect \/ Reconnect
  BY <1>9 DEF OnDisconnect, Reconnect, client, network
<1>10. CASE Deliver
  <2>1. Head(sent) \in Message /\ Tail(sent) \in Seq(Message)
    BY <1>10, Types, HeadTailProperties DEF Deliver
  <2>2. broker' \in [Topics -> Values \cup {None}]
    BY <1>10, <2>1 DEF Deliver, Message
  <2>. QED
    BY <1>m, <1>10, <2>1, <2>2 DEF Deliver, client
<1>11. CASE Lose
  BY <1>11, MqttClientAssumption DEF Lose, client
<1>12. CASE UNCHANGED vars
  BY <1>12 DEF vars, client, network
<1>. QED
  BY <1>1, <1>2, <1>3, <1>4, <1>5, <1>6, <1>7, <1>8, <1>9, <1>10, <1>11, <1>12, Cases

LEMMA InitTypes == Init => TypeOK /\ Replayable
<1>1. Init => TypeOK /\ Replayable
  <2>. SUFFICES ASSUME Init PROVE TypeOK /\ Replayable
    OBVIOUS
  <2>1. <<>> \in Seq([topic : Topics, value : Values])
    BY EmptySeq
  <2>. DEFINE nothing == [t \in Topics |-> None]
  <2>2. nothing \in [Topics -> Values \cup {None}]
    OBVIOUS
  <2>3. /\ once_messages = nothing /\ retained_messages = nothing
        /\ broker = nothing /\ value = nothing
    BY DEF Init
  <2>. HIDE DEF nothing
  <2>4. {once_messages, retained_messages, broker, value} \subseteq [Topics -> Values \cup {None}]
    BY <2>2, <2>3
  <2>5. /\ connected \in BOOLEAN /\ subscriptions \subseteq Filters /\ subscribed \subseteq Filters
        /\ publishing = Idle /\ replay = {} /\ link \in {"down", "handshake", "up"}
        /\ losses \in 0..MaxLosses
    <3>1. connected \in BOOLEAN /\ link \in {"down", "handshake", "up"}
      BY DEF Init
    <3>2. 0 \in 0..MaxLosses
      BY MqttClientAssumption
    <3>. QED
      BY <3>1, <3>2 DEF Init
  <2>6. sent \in Seq([topic : Topics, value : Values])
    BY <2>1 DEF Init
  <2>. QED
    BY <2>4, <2>5, <2>6 DEF TypeOK, Replayable
<1>. QED
  BY <1>1

(* The type invariant. *)
THEOREM TypeCorrect == Spec => []TypeOK
<1>1. Init => TypeOK /\ Replayable
  BY InitTypes
<1>2. TypeOK /\ Replayable /\ [Next]_vars => TypeOK' /\ Replayable'
  BY TypeStep, ReplayableStep
<1>. QED
  BY <1>1, <1>2, PTL DEF Spec

(* While a connection holds, and on_connect has seen to it, the broker sends this
   client the topics it has subscribed to, and those only: subscriptions made
   before the connection, between two and during one, wherever the packet thread
   is in publish (Mqtt.cpp:98-131). *)
THEOREM MqttSubscriptionsKept == Spec => []SubscriptionsKept
<1>. USE DEF SubscriptionsKept
<1>1. Init => SubscriptionsKept
  BY DEF Init
<1>2. ASSUME SubscriptionsKept, [Next]_vars
      PROVE  SubscriptionsKept'
  <2>1. ASSUME NEW f \in Filters, Subscribe(f) \/ Unsubscribe(f) PROVE SubscriptionsKept'
    BY <1>2, <2>1 DEF Subscribe, Unsubscribe
  <2>2. ASSUME NEW a \in BOOLEAN, OnConnect(a) PROVE SubscriptionsKept'
    BY <2>2 DEF OnConnect
  <2>3. CASE OnDisconnect \/ Reconnect \/ Lose
    BY <2>3 DEF OnDisconnect, Reconnect, Lose
  <2>4. ASSUME NEW t \in Topics \ Statistics, NEW once \in BOOLEAN, NEW v \in NextValues(t),
               Publish(t, v, once)
        PROVE  SubscriptionsKept'
    BY <1>2, <2>4 DEF Publish
  <2>5. ASSUME NEW t \in Statistics, NEW v \in NextValues(t), PublishTest(t, v)
        PROVE  SubscriptionsKept'
    BY <1>2, <2>5 DEF PublishTest, client, network
  <2>6. CASE PublishSend \/ PublishOnce \/ PublishRetain
    BY <1>2, <2>6 DEF PublishSend, PublishOnce, PublishRetain, client, network
  <2>7. CASE (\E t \in Topics : Replay(t)) \/ Deliver \/ UNCHANGED vars
    BY <1>2, <2>7 DEF Replay, Deliver, vars, client, network
  <2>. QED
    BY <1>2, <2>1, <2>2, <2>3, <2>4, <2>5, <2>6, <2>7, Cases
<1>. QED
  BY <1>1, <1>2, PTL DEF Spec

----------------------------------------------------------------------------
(* What the newest value on its way, and at the broker, may be: the one that
   on_connect would replay, or the one the packet thread has sent and is about
   to keep. *)
Bound(t) ==
  IF publishing.topic = t /\ publishing.at \in {"once", "retain"}
    THEN value[t] ELSE retained_messages[t]

(* Of a topic, the broker holds the oldest value, and the values on their way to
   it are in order; on_connect has none older to replay. *)
Ascending ==
  /\ publishing # Idle => publishing.value = value[publishing.topic]
  /\ \A t \in Topics :
       /\ retained_messages[t] <= value[t] /\ broker[t] <= Bound(t)
       /\ \A i \in 1..Len(sent) : sent[i].topic = t => /\ broker[t] <= sent[i].value
                                                     /\ sent[i].value <= Bound(t)
  /\ \A i, j \in 1..Len(sent) :
       i <= j /\ sent[i].topic = sent[j].topic => sent[i].value <= sent[j].value

LEMMA Numbers ==
  ASSUME TypeOK
  PROVE  /\ \A t \in Topics : /\ retained_messages[t] \in Nat /\ broker[t] \in Nat
                              /\ value[t] \in Nat /\ once_messages[t] \in Nat
                              /\ Bound(t) \in Nat
         /\ \A i \in 1..Len(sent) : sent[i].topic \in Topics /\ sent[i].value \in Nat
         /\ \A v \in Values : v \in Nat
<1>1. \A v \in Values \cup {None} : v \in Nat
  BY MqttClientAssumption DEF Values, None
<1>2. \A i \in 1..Len(sent) : sent[i] \in Message
  BY Types
<1>3. \A i \in 1..Len(sent) : sent[i].topic \in Topics /\ sent[i].value \in Values
  BY <1>2 DEF Message
<1>. QED
  BY <1>1, <1>3, Types DEF Bound

LEMMA NumbersNext ==
  ASSUME TypeOK'
  PROVE  \A t \in Topics : /\ retained_messages'[t] \in Nat /\ value'[t] \in Nat
                           /\ Bound(t)' \in Nat
<1>1. \A v \in Values \cup {None} : v \in Nat
  BY MqttClientAssumption DEF Values, None
<1>2. /\ retained_messages' \in [Topics -> Values \cup {None}]
      /\ value' \in [Topics -> Values \cup {None}]
  BY DEF TypeOK
<1>. QED
  BY <1>1, <1>2 DEF Bound

(* The argument for a message that is put behind those on their way: it is not
   older than any of its topic, nor is what may be replayed then. *)
LEMMA AscendingAppend ==
  ASSUME TypeOK, TypeOK', Ascending, NEW u \in Topics, NEW v \in Values,
         sent' = sent \/ sent' = Append(sent, [topic |-> u, value |-> v]),
         broker' = broker,
         publishing' # Idle => publishing'.value = value'[publishing'.topic],
         \A t \in Topics : retained_messages'[t] <= value'[t] /\ Bound(t) <= Bound(t)',
         Bound(u) <= v, v <= Bound(u)'
  PROVE  Ascending'
<1>. DEFINE m == [topic |-> u, value |-> v]
<1>0. \A t \in Topics : /\ broker[t] \in Nat /\ Bound(t) \in Nat /\ Bound(t)' \in Nat
                        /\ broker[t] <= Bound(t)
  BY Numbers, NumbersNext DEF Ascending
<1>m. v \in Nat /\ m \in Message /\ m.topic = u /\ m.value = v
  BY Numbers DEF Message
<1>s. /\ sent \in Seq(Message) /\ Len(sent) \in Nat
      /\ \A i \in 1..Len(sent) : sent[i].topic \in Topics /\ sent[i].value \in Nat
      /\ \A i, j \in 1..Len(sent) :
           i <= j /\ sent[i].topic = sent[j].topic => sent[i].value <= sent[j].value
  BY Numbers, Types DEF Ascending
<1>k. ASSUME NEW t \in Topics, NEW i \in 1..Len(sent), sent[i].topic = t
      PROVE  /\ broker[t] <= sent[i].value /\ sent[i].value <= Bound(t)
             /\ sent[i].value <= Bound(t)'
  <2>1. broker[t] <= sent[i].value /\ sent[i].value <= Bound(t)
    BY <1>k DEF Ascending
  <2>2. Bound(t) <= Bound(t)'
    OBVIOUS
  <2>. QED
    BY <1>0, <1>s, <2>1, <2>2
<1>1. ASSUME NEW t \in Topics
      PROVE  retained_messages'[t] <= value'[t] /\ broker'[t] <= Bound(t)'
  <2>1. Bound(t) <= Bound(t)' /\ retained_messages'[t] <= value'[t]
    OBVIOUS
  <2>. QED
    BY <1>0, <2>1
<1>2. CASE sent' = sent
  <2>1. ASSUME NEW t \in Topics, NEW i \in 1..Len(sent'), sent'[i].topic = t
        PROVE  broker'[t] <= sent'[i].value /\ sent'[i].value <= Bound(t)'
    BY <1>2, <1>k, <2>1
  <2>2. \A i, j \in 1..Len(sent') :
          i <= j /\ sent'[i].topic = sent'[j].topic => sent'[i].value <= sent'[j].value
    BY <1>2, <1>s
  <2>. QED
    BY <1>1, <2>1, <2>2 DEF Ascending
<1>3. CASE sent' = Append(sent, m)
  <2>1. /\ Len(sent') = Len(sent) + 1
        /\ \A i \in 1..Len(sent) : sent'[i] = sent[i]
        /\ sent'[Len(sent) + 1] = m
    BY <1>m, <1>s, <1>3, AppendProperties
  <2>2. \A i \in 1..Len(sent') : i \in 1..Len(sent) \/ i = Len(sent) + 1
    BY <1>s, <2>1
  <2>. HIDE DEF m
  <2>3. ASSUME NEW t \in Topics, NEW i \in 1..Len(sent'), sent'[i].topic = t
        PROVE  broker'[t] <= sent'[i].value /\ sent'[i].value <= Bound(t)'
    <3>1. CASE i \in 1..Len(sent)
      BY <1>k, <2>1, <2>3, <3>1
    <3>2. CASE i = Len(sent) + 1
      <4>1. t = u /\ sent'[i].value = v
        BY <1>m, <2>1, <2>3, <3>2
      <4>. QED
        BY <1>0, <1>m, <4>1
    <3>. QED
      BY <2>2, <3>1, <3>2
  <2>4. ASSUME NEW i \in 1..Len(sent'), NEW j \in 1..Len(sent'), i <= j,
               sent'[i].topic = sent'[j].topic
        PROVE  sent'[i].value <= sent'[j].value
    <3>1. CASE j \in 1..Len(sent)
      <4>1. i \in 1..Len(sent)
        BY <1>s, <2>1, <2>4, <3>1
      <4>2. sent'[i] = sent[i] /\ sent'[j] = sent[j]
        BY <2>1, <3>1, <4>1
      <4>. QED
        BY <1>s, <2>4, <3>1, <4>1, <4>2
    <3>2. CASE j = Len(sent) + 1 /\ i \in 1..Len(sent)
      <4>1. sent'[j].value = v /\ sent'[i] = sent[i] /\ sent[i].topic = u
        BY <1>m, <2>1, <2>4, <3>2
      <4>2. sent[i].value <= Bound(u) /\ sent[i].value \in Nat
        BY <1>k, <1>s, <3>2, <4>1
      <4>. QED
        BY <1>0, <1>m, <4>1, <4>2
    <3>3. CASE j = Len(sent) + 1 /\ i = Len(sent) + 1
      BY <1>m, <2>1, <3>3
    <3>. QED
      BY <2>2, <2>4, <1>s, <2>1, <3>1, <3>2, <3>3
  <2>. QED
    BY <1>1, <2>3, <2>4 DEF Ascending
<1>. QED
  BY <1>2, <1>3

LEMMA AscendingStep ==
  ASSUME Threads = FALSE, TypeOK, Replayable, TypeOK', Ascending, [Next]_vars
  PROVE  Ascending'
<1>n. /\ \A t \in Topics : /\ retained_messages[t] \in Nat /\ broker[t] \in Nat
                           /\ value[t] \in Nat /\ Bound(t) \in Nat
                           /\ retained_messages[t] <= value[t]
      /\ \A v \in Values : v \in Nat
  BY Numbers DEF Ascending
<1>i. ASSUME publishing = Idle
      PROVE  \A t \in Topics : Bound(t) = retained_messages[t]
  BY <1>i, IdleAt DEF Bound
<1>1. ASSUME NEW u \in Topics \ Statistics, NEW once \in BOOLEAN, NEW v \in NextValues(u),
             Publish(u, v, once)
      PROVE  Ascending'
  <2>1. publishing = Idle /\ publishing' = Idle /\ v \in Values /\ value[u] <= v
        /\ broker' = broker
    <3>1. publishing = Idle /\ publishing' = publishing /\ broker' = broker
      BY <1>1 DEF Publish, MqttThread
    <3>2. v \in Values /\ v \in {value[u], value[u] + 1}
      BY DEF NextValues
    <3>. QED
      BY <1>n, <3>1, <3>2
  <2>2. value' = [value EXCEPT ![u] = v] /\ value \in [Topics -> Values \cup {None}]
    BY <1>1, Types DEF Publish
  <2>3. \A t \in Topics : Bound(t) = retained_messages[t] /\ Bound(t)' = retained_messages'[t]
    BY <2>1, IdleAt DEF Bound
  <2>4. CASE once /\ Suppressed(u, v)
    <3>1. sent' = sent /\ retained_messages' = retained_messages
      BY <1>1, <2>4 DEF Publish
    <3>2. \A t \in Topics : retained_messages'[t] <= value'[t]
      BY <1>n, <2>1, <2>2, <3>1
    <3>. QED
      BY <2>1, <2>3, <3>1, <3>2 DEF Ascending
  <2>5. CASE ~ (once /\ Suppressed(u, v))
    <3>1. /\ sent' = sent \/ sent' = Append(sent, [topic |-> u, value |-> v])
          /\ retained_messages' = [retained_messages EXCEPT ![u] = v]
          /\ retained_messages \in [Topics -> Values \cup {None}]
      BY <1>1, <2>5, Types DEF Publish, Sending
    <3>2. ASSUME NEW t \in Topics
          PROVE  /\ retained_messages'[t] <= value'[t] /\ Bound(t) <= Bound(t)'
                 /\ t = u => Bound(t) <= v /\ v <= Bound(t)'
      <4>1. CASE t = u
        <5>1. retained_messages'[t] = v /\ value'[t] = v /\ retained_messages[t] <= v
          BY <1>n, <2>1, <2>2, <3>1, <4>1
        <5>. QED
          BY <1>n, <2>1, <2>3, <5>1
      <4>2. CASE t # u
        <5>1. retained_messages'[t] = retained_messages[t] /\ value'[t] = value[t]
          BY <2>2, <3>1, <4>2
        <5>. QED
          BY <1>n, <2>3, <4>2, <5>1
      <4>. QED
        BY <4>1, <4>2
    <3>. QED
      BY <2>1, <3>1, <3>2, AscendingAppend
  <2>. QED
    BY <2>4, <2>5
<1>2. ASSUME NEW u \in Statistics, NEW v \in NextValues(u), PublishTest(u, v)
      PROVE  Ascending'
  <2>1. /\ publishing = Idle /\ value' = [value EXCEPT ![u] = v] /\ u \in Topics
        /\ value \in [Topics -> Values \cup {None}]
        /\ UNCHANGED <<retained_messages, broker, sent>>
        /\ publishing' = Idle \/ publishing' = [at |-> "send", topic |-> u, value |-> v]
    BY <1>2, Types, MqttClientAssumption DEF PublishTest, client, network
  <2>2. v \in Nat /\ value[u] <= v
    <3>1. v \in Values /\ v \in {value[u], value[u] + 1}
      BY DEF NextValues
    <3>. QED
      BY <1>n, <2>1, <3>1
  <2>3. \A t \in Topics : Bound(t)' = retained_messages[t] /\ Bound(t) = retained_messages[t]
    <3>1. publishing'.at \notin {"once", "retain"}
      BY <2>1, IdleAt
    <3>. QED
      BY <1>i, <2>1, <3>1 DEF Bound
  <2>4. publishing' # Idle => publishing'.value = value'[publishing'.topic]
    BY <2>1
  <2>5. \A t \in Topics : retained_messages'[t] <= value'[t]
    BY <1>n, <2>1, <2>2
  <2>. QED
    BY <2>1, <2>3, <2>4, <2>5 DEF Ascending
<1>3. CASE PublishSend
  <2>1. publishing \in Publishing /\ publishing.at = "send"
    BY <1>3, Busy DEF PublishSend
  <2>2. PICK u \in Topics, v \in Values :
          /\ publishing.topic = u /\ publishing.value = v
          /\ v = value[u] /\ publishing # Idle
    BY <2>1, IdleAt DEF Ascending, Publishing
  <2>3. /\ sent' = sent \/ sent' = Append(sent, [topic |-> u, value |-> v])
        /\ UNCHANGED <<broker, value, retained_messages>>
        /\ publishing' = [publishing EXCEPT !.at = "once"]
    BY <1>3, <2>2 DEF PublishSend, Sending, client
  <2>4. publishing'.topic = u /\ publishing'.value = v /\ publishing'.at = "once"
    BY <2>1, <2>2, <2>3 DEF Publishing
  <2>5. ASSUME NEW t \in Topics
        PROVE  /\ retained_messages'[t] <= value'[t] /\ Bound(t) <= Bound(t)'
               /\ Bound(t) = retained_messages[t]
               /\ t = u => Bound(t)' = value[t]
    <3>1. Bound(t) = retained_messages[t]
      BY <2>1 DEF Bound
    <3>2. Bound(t)' = IF t = u THEN value[t] ELSE retained_messages[t]
      BY <2>3, <2>4 DEF Bound
    <3>. QED
      BY <1>n, <2>3, <3>1, <3>2
  <2>6. Bound(u) <= v /\ v <= Bound(u)'
    <3>1. Bound(u) = retained_messages[u] /\ Bound(u)' = v
      BY <2>2, <2>5
    <3>2. retained_messages[u] <= v
      BY <2>2, <2>3, <2>5
    <3>3. v \in Nat
      BY <2>2, Numbers
    <3>. QED
      BY <3>1, <3>2, <3>3
  <2>7. publishing'.value = value'[publishing'.topic]
    BY <2>2, <2>3, <2>4
  <2>. QED
    BY <2>2, <2>3, <2>5, <2>6, <2>7, AscendingAppend
<1>4. CASE PublishOnce
  <2>1. publishing \in Publishing /\ publishing.at = "once"
    BY <1>4, Busy DEF PublishOnce
  <2>2. /\ publishing' = [publishing EXCEPT !.at = "retain"]
        /\ UNCHANGED <<broker, value, retained_messages, sent>>
    BY <1>4 DEF PublishOnce, network
  <2>3. publishing'.topic = publishing.topic /\ publishing'.value = publishing.value
        /\ publishing'.at = "retain" /\ publishing # Idle
    BY <2>1, <2>2, IdleAt DEF Publishing
  <2>4. \A t \in Topics : Bound(t)' = Bound(t)
    BY <2>1, <2>2, <2>3 DEF Bound
  <2>. QED
    BY <2>2, <2>3, <2>4 DEF Ascending
<1>5. CASE PublishRetain
  <2>1. publishing \in Publishing /\ publishing.at = "retain"
    BY <1>5, Busy DEF PublishRetain
  <2>. DEFINE u == publishing.topic
  <2>2. u \in Topics /\ publishing.value = value[u]
    BY <2>1, IdleAt DEF Ascending
  <2>3. /\ publishing' = Idle /\ UNCHANGED <<broker, value, sent>>
        /\ retained_messages' = [retained_messages EXCEPT ![u] = publishing.value]
        /\ retained_messages \in [Topics -> Values \cup {None}]
    BY <1>5, Types DEF PublishRetain, network
  <2>4. ASSUME NEW t \in Topics
        PROVE  Bound(t)' = Bound(t) /\ retained_messages'[t] <= value'[t]
    <3>1. Bound(t)' = retained_messages'[t]
      BY <2>3, IdleAt DEF Bound
    <3>2. Bound(t) = IF t = u THEN value[t] ELSE retained_messages[t]
      BY <2>1 DEF Bound
    <3>3. retained_messages'[t] = IF t = u THEN value[t] ELSE retained_messages[t]
      BY <2>2, <2>3
    <3>. QED
      BY <1>n, <2>3, <3>1, <3>2, <3>3
  <2>. QED
    BY <2>3, <2>4 DEF Ascending
<1>6. ASSUME NEW u \in Topics, Replay(u)
      PROVE  Ascending'
  <2>1. publishing = Idle /\ UNCHANGED <<publishing, broker, value, retained_messages>>
    BY <1>6 DEF Replay, client
  <2>2. retained_messages[u] \in Values
    BY <1>6, Types DEF Replay, Replayable
  <2>3. sent' = sent \/ sent' = Append(sent, [topic |-> u, value |-> retained_messages[u]])
    BY <1>6 DEF Replay, Sending
  <2>4. \A t \in Topics : Bound(t) = retained_messages[t] /\ Bound(t)' = retained_messages[t]
    BY <2>1, IdleAt DEF Bound
  <2>5. \A t \in Topics : retained_messages'[t] <= value'[t] /\ Bound(t) <= Bound(t)'
    BY <1>n, <2>1, <2>4
  <2>6. Bound(u) <= retained_messages[u] /\ retained_messages[u] <= Bound(u)'
    BY <1>n, <2>4
  <2>. QED
    BY <2>1, <2>2, <2>3, <2>5, <2>6, AscendingAppend
<1>7. CASE Deliver
  <2>1. /\ sent # <<>> /\ broker' = [broker EXCEPT ![Head(sent).topic] = Head(sent).value]
        /\ sent' = Tail(sent) /\ UNCHANGED <<publishing, value, retained_messages>>
        /\ broker \in [Topics -> Values \cup {None}]
    BY <1>7, Types DEF Deliver, client
  <2>2. /\ Len(sent') = Len(sent) - 1 /\ 1 \in 1..Len(sent) /\ Head(sent) = sent[1]
        /\ \A i \in 1..Len(sent') : sent'[i] = sent[i + 1] /\ i + 1 \in 1..Len(sent) /\ 1 <= i + 1
    <3>1. sent \in Seq(Message) /\ Len(sent) \in Nat \ {0}
      BY <2>1, Types, EmptySeq
    <3>2. /\ Len(sent') = Len(sent) - 1
          /\ \A i \in 1..Len(sent') : sent'[i] = sent[i + 1]
      BY <2>1, <3>1, HeadTailProperties
    <3>3. \A i \in 1..Len(sent') : i + 1 \in 1..Len(sent) /\ 1 <= i + 1
      BY <3>1, <3>2
    <3>. QED
      BY <3>1, <3>2, <3>3
  <2>3. \A t \in Topics : Bound(t)' = Bound(t)
    BY <2>1 DEF Bound
  <2>4. ASSUME NEW t \in Topics
        PROVE  /\ broker'[t] <= Bound(t)
               /\ broker'[t] = IF t = sent[1].topic THEN sent[1].value ELSE broker[t]
    <3>1. broker'[t] = IF t = sent[1].topic THEN sent[1].value ELSE broker[t]
      BY <2>1, <2>2
    <3>. QED
      BY <2>2, <3>1 DEF Ascending
  <2>5. ASSUME NEW t \in Topics, NEW i \in 1..Len(sent'), sent'[i].topic = t
        PROVE  broker'[t] <= sent'[i].value /\ sent'[i].value <= Bound(t)
    <3>1. sent'[i] = sent[i + 1] /\ i + 1 \in 1..Len(sent) /\ 1 <= i + 1
      BY <2>2
    <3>2. CASE t = sent[1].topic
      <4>1. sent[1].value <= sent[i + 1].value /\ sent[i + 1].value <= Bound(t)
        BY <2>2, <2>5, <3>1, <3>2 DEF Ascending
      <4>. QED
        BY <2>4, <3>1, <3>2, <4>1
    <3>3. CASE t # sent[1].topic
      BY <2>4, <2>5, <3>1, <3>3 DEF Ascending
    <3>. QED
      BY <3>2, <3>3
  <2>6. ASSUME NEW i \in 1..Len(sent'), NEW j \in 1..Len(sent'), i <= j,
               sent'[i].topic = sent'[j].topic
        PROVE  sent'[i].value <= sent'[j].value
    <3>1. /\ sent'[i] = sent[i + 1] /\ sent'[j] = sent[j + 1] /\ i + 1 <= j + 1
          /\ i + 1 \in 1..Len(sent) /\ j + 1 \in 1..Len(sent)
      BY <2>2, <2>6
    <3>. QED
      BY <2>6, <3>1 DEF Ascending
  <2>. QED
    BY <2>1, <2>3, <2>4, <2>5, <2>6 DEF Ascending
<1>8. CASE Lose
  <2>1. sent' = <<>> /\ UNCHANGED <<publishing, broker, value, retained_messages>>
    BY <1>8 DEF Lose, client
  <2>2. \A t \in Topics : Bound(t)' = Bound(t)
    BY <2>1 DEF Bound
  <2>. QED
    BY <2>1, <2>2 DEF Ascending
<1>9. CASE UNCHANGED <<publishing, broker, value, retained_messages, sent>>
  <2>1. \A t \in Topics : Bound(t)' = Bound(t)
    BY <1>9 DEF Bound
  <2>. QED
    BY <1>9, <2>1 DEF Ascending
<1>10. ASSUME \/ \E f \in Filters : Subscribe(f) \/ Unsubscribe(f)
              \/ \E a \in BOOLEAN : OnConnect(a)
              \/ OnDisconnect \/ Reconnect \/ UNCHANGED vars
       PROVE  UNCHANGED <<publishing, broker, value, retained_messages, sent>>
  BY <1>10 DEF Subscribe, Unsubscribe, OnConnect, OnDisconnect, Reconnect, vars, client, network
<1>. QED
  BY <1>1, <1>2, <1>3, <1>4, <1>5, <1>6, <1>7, <1>8, <1>9, <1>10, Cases

(* A broker never goes back from a newer value to an older one, if the packet
   thread does not publish inside on_connect: what is replayed then is not older
   than what is on its way (Mqtt.cpp:98-131). *)
THEOREM MqttNoValueReturns ==
  ASSUME Threads = FALSE
  PROVE  Spec => NoValueReturns
<1>1. Init => TypeOK /\ Replayable /\ Ascending
  <2>1. Init => Ascending
    BY DEF Init, Ascending, Bound, None
  <2>. QED
    BY <2>1, InitTypes
<1>2. TypeOK /\ Replayable /\ Ascending /\ [Next]_vars => TypeOK' /\ Replayable' /\ Ascending'
  BY TypeStep, ReplayableStep, AscendingStep
<1>3. TypeOK /\ Ascending /\ [Next]_vars => [\A t \in Topics : broker[t] <= broker'[t]]_vars
  <2>. SUFFICES ASSUME TypeOK, Ascending, [Next]_vars, NEW t \in Topics
                PROVE  broker[t] <= broker'[t]
    OBVIOUS
  <2>1. broker[t] \in Nat
    BY Numbers
  <2>2. CASE Deliver
    <3>1. 1 \in 1..Len(sent) /\ Head(sent) = sent[1]
      BY <2>2, Types, EmptySeq DEF Deliver
    <3>2. broker'[t] = IF t = sent[1].topic THEN sent[1].value ELSE broker[t]
      BY <2>2, <3>1, Types DEF Deliver
    <3>3. t = sent[1].topic => broker[t] <= sent[1].value
      BY <3>1 DEF Ascending
    <3>. QED
      BY <2>1, <3>2, <3>3
  <2>3. CASE broker' = broker
    BY <2>1, <2>3
  <2>4. CASE UNCHANGED vars
    BY <2>3, <2>4 DEF vars, network
  <2>5. ASSUME NEW u \in Topics \ Statistics, NEW once \in BOOLEAN, NEW v \in NextValues(u),
               Publish(u, v, once)
        PROVE  broker' = broker
    BY <2>5 DEF Publish
  <2>6. ASSUME \/ \E u \in Statistics : \E v \in NextValues(u) : PublishTest(u, v)
               \/ PublishSend \/ PublishOnce \/ PublishRetain
        PROVE  broker' = broker
    BY <2>6 DEF PublishTest, PublishSend, PublishOnce, PublishRetain, network
  <2>7. ASSUME \/ \E f \in Filters : Subscribe(f) \/ Unsubscribe(f)
               \/ \E a \in BOOLEAN : OnConnect(a)
               \/ \E u \in Topics : Replay(u)
               \/ OnDisconnect \/ Reconnect \/ Lose
        PROVE  broker' = broker
    BY <2>7 DEF Subscribe, Unsubscribe, OnConnect, Replay, OnDisconnect, Reconnect, Lose, network
  <2>. QED
    BY <2>2, <2>3, <2>4, <2>5, <2>6, <2>7, Cases
<1>. QED
  BY <1>1, <1>2, <1>3, PTL DEF Spec, NoValueReturns
=============================================================================
