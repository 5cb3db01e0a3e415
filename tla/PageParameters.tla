--------------------------- MODULE PageParameters ---------------------------
(***************************************************************************)
(* The inputs of a module on a page of the web editor (the parameter and   *)
(* statistic classes of node_editor.js) and the page's subscriptions       *)
(* (mqtt.js), which come and go with the module: from the first value a    *)
(* new input is sent to the value it shows when the server clamps, refuses *)
(* or repeats what was typed, the module is removed and added again, and   *)
(* the connection is lost.                                                 *)
(*                                                                         *)
(* The page shows one module or not, and the server has it or not.  A      *)
(* value stands for the number or the choice it is written as (formatValue *)
(* keeps the three decimals the parameters' steps have); no module has a   *)
(* parameter that is a free text.  The broker is as in MqttClient: it      *)
(* forgets subscriptions with the connection, and answers one with what it *)
(* retains, which here is what the server published last.                  *)
(***************************************************************************)
EXTENDS Integers, Sequences, FiniteSets

CONSTANTS
  Params,      \* parameters and statistics of the module, in the order of its description
  Kind,        \* Kind[p]: "double", "bool", "select" or "statistic"
  Charted,     \* statistics that a chart of the page subscribes to as well
  Low, High, Step,   \* of a double, as the description says
  ServerHigh,  \* the bound the server's own handlers keep to, High or less
  Default,     \* Default[p]: the value in a new module, Empty if none is published
  Typed,       \* Typed[p]: what users type, and others set p to
  Choices,     \* the lists of options a select may be made with
  NaN,         \* what a text that is no number is parsed as
  Unknown,     \* value before the first message: undefined
  Empty,       \* the empty payload, which takes a retained message back
  MaxGestures, \* bound: what the user does
  MaxChanges,  \* bound: what others change
  MaxLosses    \* bound: lost connections

ParamSet == {Params[k] : k \in 1..Len(Params)}
Selects == {p \in ParamSet : Kind[p] = "select"}

(* What a parameter of the server may be. *)
Written(p) == IF Kind[p] = "bool" THEN {0, 1} ELSE Int
Values == (UNION {Typed[p] \cup {Default[p]} : p \in ParamSet}) \cup (UNION Choices)
            \cup (Low..High) \cup {0, 1, NaN, Empty}

(* Names of parameters are no wildcards. *)
ASSUME PageParametersAssumption ==
  /\ Params \in Seq(STRING) /\ ParamSet \cap {"+", "#"} = {}
  /\ Kind \in [ParamSet -> {"double", "bool", "select", "statistic"}]
  /\ Charted \subseteq {p \in ParamSet : Kind[p] = "statistic"}
  /\ Low \in Int /\ High \in Int /\ Step \in Nat /\ ServerHigh \in Low..High
  /\ \A p \in ParamSet : Typed[p] \subseteq Written(p) \cup {NaN}
  /\ Default \in [ParamSet -> Values] /\ \A p \in ParamSet : Default[p] \in Written(p) \cup {Empty}
  /\ \A p \in Selects : NaN \notin Typed[p]
  /\ \A opts \in Choices : opts \subseteq Int
  /\ {NaN, Unknown, Empty} \cap Int = {} /\ Empty \notin Choices
  /\ {MaxGestures, MaxChanges, MaxLosses} \subseteq Nat

(* Topics, below get/: split at the slashes, as topic_matches_sub does. *)
Description == <<"module">>
ValueTopic(p) == <<"module", p>>
OptionsTopic(p) == <<"module", p, "options">>
EveryModule == <<"+">>

(* What parameter_add_handler and statistic_add_handler subscribe to. *)
NodeTopics == {ValueTopic(p) : p \in ParamSet} \cup {OptionsTopic(p) : p \in Selects}

(* topic_matches_sub: a later level overrides what an earlier one decided. *)
topic_matches_sub(sub, topic) ==
  LET differs(i) == i > Len(topic) \/ sub[i] # topic[i]
      decides == {i \in 1..Len(sub) : differs(i) /\ sub[i] # "+"}
  IN  IF decides = {} THEN Len(sub) = Len(topic)
      ELSE sub[CHOOSE i \in decides : \A j \in decides : j <= i] = "#"

(* What MQTT says of a filter: "+" stands for a level, "#" for the rest. *)
MqttMatches(sub, topic) ==
  \E n \in 0..Len(sub) :
    /\ n <= Len(topic)
    /\ \A i \in 1..n : sub[i] \in {"+", topic[i]}
    /\ \/ n = Len(sub) /\ n = Len(topic)
       \/ n + 1 = Len(sub) /\ sub[n + 1] = "#"

(* An entry of `subscriptions', by whose callback it has. *)
Entry(topic, by) == [topic |-> topic, by |-> by]
PageEntries ==
  {Entry(EveryModule, "page")} \cup {Entry(ValueTopic(p), "chart") : p \in Charted}
NodeEntries == {Entry(t, "node") : t \in NodeTopics}

VARIABLES
  shown,       \* the page shows the module
  widget,      \* its inputs
  subscriptions,
  link,        \* "up" or "down"
  out,         \* packets on their way to the broker
  coming,      \* messages on their way to the page
  subscribed,  \* the broker's subscriptions of the page
  present,     \* the server has the module
  value,       \* its parameters
  options,     \* options[p]: what the select p offers, as its constructor has set it
  gestures, changes, losses

client == <<shown, widget, subscriptions>>
server == <<present, value, options>>
network == <<link, out, coming, subscribed>>
vars == <<client, server, network, gestures, changes, losses>>

(* An input as it is made: a double shows its minimum, a box is clear. *)
NewWidget(p) ==
  [value |-> Unknown, changed |-> FALSE, options |-> {},
   text |-> IF Kind[p] = "double" THEN Low ELSE IF Kind[p] = "bool" THEN 0 ELSE Empty]

(* Type invariant. *)
TypeOK ==
  /\ {shown, present} \subseteq BOOLEAN
  /\ \A p \in ParamSet :
       /\ widget[p].value \in Values \cup {Unknown}
       /\ widget[p].text \in Values
       /\ widget[p].changed \in BOOLEAN
       /\ widget[p].options \in Choices \cup {{}}
  /\ subscriptions \subseteq PageEntries \cup NodeEntries
  /\ link \in {"up", "down"}
  /\ subscribed \subseteq NodeTopics \cup {EveryModule}
  /\ value \in [ParamSet -> Values]
  /\ options \in [Selects -> Choices]

Init ==
  /\ shown = FALSE /\ widget = [p \in ParamSet |-> NewWidget(p)]
  /\ subscriptions = PageEntries
  /\ link = "down" /\ out = <<>> /\ coming = <<>> /\ subscribed = {}
  /\ present \in BOOLEAN /\ value = Default /\ options \in [Selects -> Choices]
  /\ gestures = 0 /\ changes = 0 /\ losses = 0

----------------------------------------------------------------------------
(* The inputs *)

(* setValue of each class.  What parseFloat and parseInt make of an empty
   payload is no number, and no number is not 0. *)
Parsed(p, v) ==
  CASE Kind[p] \in {"double", "statistic"} -> IF v = Empty THEN NaN ELSE v
    [] Kind[p] = "bool" -> IF v \in {0, 1} THEN v ELSE 1
    [] OTHER -> v

(* What a select shows of a value. *)
Choice(v, opts) == IF v \in opts THEN v ELSE Empty

SetValue(w, p, v) ==
  IF Kind[p] = "select"
    THEN [w EXCEPT !.value = v, !.text = Choice(v, w.options)]
    ELSE [w EXCEPT !.value = Parsed(p, v), !.text = Parsed(p, v), !.changed = FALSE]

(* Mutant of SetOptions: the value is not chosen again. *)
SetOptionsOnly(w, opts) == [w EXCEPT !.options = opts, !.text = Empty]

SetOptions(w, opts) ==
  [w EXCEPT !.options = opts, !.text = Choice(w.value, opts)]

(* The change handler of a double: no number is neither too small nor too big. *)
Clamp(v) ==
  IF v = NaN THEN NaN ELSE IF v < Low THEN Low ELSE IF v > High THEN High ELSE v

(* Its input handler. *)
Entered(w, t) == [w EXCEPT !.text = t, !.changed = (t # w.value \/ t = NaN)]

Committed(p, w, v) ==
  LET taken == IF Kind[p] = "double" THEN Clamp(v) ELSE v
  IN  [w EXCEPT !.value = taken, !.text = taken, !.changed = FALSE]

----------------------------------------------------------------------------
(* mqtt.js *)

Set(p, v) == [type |-> "set", param |-> p, value |-> v]
Module(there) == [type |-> "module", there |-> there]
Subscribe(topics) == [type |-> "subscribe", topics |-> topics]
Unsubscribe(topics) == [type |-> "unsubscribe", topics |-> topics]

IsPublish(packet) == packet.type \in {"set", "module"}

(* The members of a sequence at some places, in their order. *)
Kept(s, places) ==
  [i \in 1..Cardinality(places) |->
     s[CHOOSE k \in places : Cardinality({j \in places : j <= k}) = i]]

(* The topics of the module in the order they are subscribed to: of each parameter
   that of its value, then that of its options if it has any. *)
NodeTopicList ==
  LET topics == [k \in 1..(2 * Len(Params)) |->
                   IF k % 2 = 1 THEN ValueTopic(Params[(k + 1) \div 2])
                                ELSE OptionsTopic(Params[k \div 2])]
  IN  Kept(topics, {k \in DOMAIN topics : topics[k] \in NodeTopics})

(* Mutant of Dropped: the topic is given up whoever else listens. *)
DroppedAll == NodeTopics

(* unsubscribeByReference of the module's entries: a topic that another entry is
   for as well is kept. *)
Dropped ==
  {t \in NodeTopics : Cardinality({e \in subscriptions : topic_matches_sub(t, e.topic)}) = 1}

(* addNode, and the subscriptions it makes: only listed while not connected. *)
AddNode(packets) ==
  /\ shown' = TRUE
  /\ widget' = [p \in ParamSet |-> NewWidget(p)]
  /\ subscriptions' = subscriptions \cup NodeEntries
  /\ out' = out \o packets \o IF link = "up" THEN <<Subscribe(NodeTopicList)>> ELSE <<>>

(* removeNode: what is given up while not connected is given up later. *)
RemoveNode(packets) ==
  /\ shown' = FALSE
  /\ widget' = [p \in ParamSet |-> NewWidget(p)]
  /\ subscriptions' = subscriptions \ NodeEntries
  /\ out' = out \o <<Unsubscribe(Dropped)>> \o packets

----------------------------------------------------------------------------
(* The user *)

Gesture ==
  /\ gestures < MaxGestures
  /\ gestures' = gestures + 1
  /\ UNCHANGED <<server, link, coming, subscribed, changes, losses>>

(* An input event: the text is typed, not yet taken. *)
Input(p) ==
  /\ shown /\ Kind[p] = "double"
  /\ Gesture
  /\ \E t \in Typed[p] : widget' = [widget EXCEPT ![p] = Entered(@, t)]
  /\ UNCHANGED <<shown, subscriptions, out>>

Publish(p, v) ==
  LET w == Committed(p, widget[p], v)
  IN  /\ widget' = [widget EXCEPT ![p] = w]
      /\ out' = Append(out, Set(p, w.value))
      /\ UNCHANGED <<shown, subscriptions>>

(* A change event: of the text typed, *)
Change(p) ==
  /\ shown /\ Kind[p] = "double"
  /\ Gesture
  /\ Publish(p, widget[p].text)

(* by an arrow beside it, *)
Arrow(p) ==
  /\ shown /\ Kind[p] = "double"
  /\ Gesture
  /\ \E d \in {Step, -Step} :
       Publish(p, IF widget[p].text = NaN THEN NaN ELSE widget[p].text + d)

(* of a box, *)
Check(p) ==
  /\ shown /\ Kind[p] = "bool"
  /\ Gesture
  /\ Publish(p, IF widget[p].text = 1 THEN 0 ELSE 1)

(* and of a list. *)
Choose(p) ==
  /\ shown /\ Kind[p] = "select"
  /\ Gesture
  /\ \E v \in widget[p].options \ {widget[p].text} : Publish(p, v)

(* The library, and the Delete key. *)
CreateOrDelete ==
  /\ Gesture
  /\ IF shown THEN RemoveNode(<<Module(FALSE)>>) ELSE AddNode(<<Module(TRUE)>>)

----------------------------------------------------------------------------
(* The server and the broker *)

Msg(topic, v) == [topic |-> topic, value |-> v]

(* What is retained for a topic, Empty if nothing is. *)
Retained(topic) ==
  IF ~present THEN Empty
  ELSE IF topic = EveryModule THEN "description"
  ELSE IF Len(topic) = 3 THEN options[topic[2]]
  ELSE value[topic[2]]

Heard(topic) == \E sub \in subscribed : topic_matches_sub(sub, topic)

(* What there is to be retained of some messages. *)
Said(ms) == Kept(ms, {k \in DOMAIN ms : ms[k].value # Empty})

(* To the page.  (The messages are bound: an operator's argument may be evaluated
   anew wherever it is used.) *)
Deliver(messages) ==
  \E ms \in {messages} :
    coming' = IF link = "up" THEN coming \o Kept(ms, {k \in DOMAIN ms : Heard(ms[k].topic)})
                             ELSE coming

(* What the module says when it has the parameters v and the options o, and when it
   goes. *)
NodeMessages(v, o) ==
  [k \in DOMAIN NodeTopicList |->
     LET t == NodeTopicList[k] IN Msg(t, IF Len(t) = 3 THEN o[t[2]] ELSE v[t[2]])]
NoMessages == [k \in DOMAIN NodeTopicList |-> Msg(NodeTopicList[k], Empty)]

(* addModule and removeModule.  The constructor of a new module lists the traces
   there are by then: the options of its selects. *)
AddModule ==
  /\ present' = TRUE /\ value' = Default
  /\ options' \in [Selects -> Choices]
  /\ Deliver(Append(Said(NodeMessages(Default, options')), Msg(Description, "description")))

RemoveModule ==
  /\ present' = FALSE
  /\ Deliver(<<Msg(Description, Empty)>> \o NoMessages)
  /\ UNCHANGED <<value, options>>

(* What becomes of a parameter that is set: the bound if the value is beyond it, what
   it was if the value is no number.  A select takes any string, one of its options
   or not. *)
Taken(p, v) ==
  CASE v = NaN -> value[p]
    [] v # NaN /\ Kind[p] = "double" /\ v < Low -> Low
    [] v # NaN /\ Kind[p] = "double" /\ v > ServerHigh -> ServerHigh
    [] OTHER -> v

(* The value it has then is published in any case; a statistic if it is new. *)
Accept(p, v) ==
  /\ value' = [value EXCEPT ![p] = Taken(p, v)]
  /\ IF Kind[p] = "statistic" /\ v = value[p]
       THEN UNCHANGED coming ELSE Deliver(<<Msg(ValueTopic(p), Taken(p, v))>>)
  /\ UNCHANGED <<present, options>>

(* The next packet of the page. *)
Arrive ==
  /\ link = "up" /\ out # <<>>
  /\ out' = Tail(out)
  /\ LET packet == Head(out)
     IN  CASE packet.type = "subscribe" ->
                /\ subscribed' = subscribed \cup {packet.topics[k] : k \in 1..Len(packet.topics)}
                /\ coming' = coming \o
                     Said([k \in DOMAIN packet.topics |->
                             Msg(IF packet.topics[k] = EveryModule THEN Description
                                   ELSE packet.topics[k],
                                 Retained(packet.topics[k]))])
                /\ UNCHANGED server
           [] packet.type = "unsubscribe" ->
                /\ subscribed' = subscribed \ packet.topics
                /\ UNCHANGED <<server, coming>>
           [] packet.type = "set" ->
                /\ IF present THEN Accept(packet.param, packet.value)
                              ELSE UNCHANGED <<server, coming>>
                /\ UNCHANGED subscribed
           [] packet.type = "module" ->
                /\ IF packet.there = present THEN UNCHANGED <<server, coming>>
                   ELSE IF packet.there THEN AddModule ELSE RemoveModule
                /\ UNCHANGED subscribed
  /\ UNCHANGED <<client, link, gestures, changes, losses>>

(* What others do: a parameter is set, a statistic is new, the module is removed or
   added. *)
Others ==
  /\ changes < MaxChanges
  /\ changes' = changes + 1
  /\ \/ /\ present
        /\ \E p \in ParamSet : \E v \in Typed[p] : Accept(p, v)
     \/ IF present THEN RemoveModule ELSE AddModule
  /\ UNCHANGED <<client, link, out, subscribed, gestures, losses>>

----------------------------------------------------------------------------
(* The connection *)

Told(w, m) ==
  IF Len(m.topic) = 3 THEN SetOptions(w, IF m.value = Empty THEN {} ELSE m.value)
                      ELSE SetValue(w, m.topic[2], m.value)

(* Mutant of HearNode: a box that is set is taken for one that was clicked. *)
HearNodeEcho(m) ==
  /\ widget' = [widget EXCEPT ![m.topic[2]] = Told(@, m)]
  /\ out' = IF Kind[m.topic[2]] = "bool" THEN Append(out, Set(m.topic[2], m.value)) ELSE out
  /\ UNCHANGED <<shown, subscriptions>>

(* The callbacks of the inputs. *)
HearNode(m) ==
  /\ widget' = [widget EXCEPT ![m.topic[2]] = Told(@, m)]
  /\ UNCHANGED <<shown, subscriptions, out>>

(* The callback for descriptions. *)
HearModule(there) ==
  IF there = shown THEN UNCHANGED <<client, out>>
  ELSE IF there THEN AddNode(<<>>) ELSE RemoveNode(<<>>)

(* A message: the callbacks of the entries it matches. *)
Receive ==
  /\ link = "up" /\ coming # <<>>
  /\ coming' = Tail(coming)
  /\ LET m == Head(coming)
         called == {e.by : e \in {s \in subscriptions : topic_matches_sub(s.topic, m.topic)}}
     IN  CASE "page" \in called -> HearModule(m.value # Empty)
           [] "node" \in called -> HearNode(m)
           [] OTHER -> UNCHANGED <<client, out>>
  /\ UNCHANGED <<server, link, subscribed, gestures, changes, losses>>

(* The connect handler, after what was published or given up meanwhile. *)
Connect ==
  /\ link = "down" /\ link' = "up"
  /\ LET charts == {ValueTopic(p) : p \in Charted}
     IN  \E order \in {o \in [1..Cardinality(charts) -> charts] :
                         \A t \in charts : \E k \in DOMAIN o : o[k] = t} :
           out' = out \o <<Subscribe(<<EveryModule>> \o order
                                      \o IF shown THEN NodeTopicList ELSE <<>>)>>
  /\ UNCHANGED <<client, server, coming, subscribed, gestures, changes, losses>>

(* The connection is lost with what is on its way; what was published may still
   get to the server. *)
Lose ==
  /\ losses < MaxLosses
  /\ losses' = losses + 1
  /\ link = "up" /\ link' = "down"
  /\ coming' = <<>> /\ subscribed' = {}
  /\ \E n \in 0..Len(out) : out' = Kept(out, {k \in 1..n : IsPublish(out[k])})
  /\ UNCHANGED <<client, server, gestures, changes>>

Next ==
  \/ \E p \in ParamSet : Input(p) \/ Change(p) \/ Arrow(p) \/ Check(p) \/ Choose(p)
  \/ CreateOrDelete \/ Arrive \/ Others \/ Receive \/ Connect \/ Lose

Spec == Init /\ [][Next]_vars

(* Packets and messages arrive, the connection is made again. *)
FairSpec == Spec /\ WF_vars(Arrive \/ Receive \/ Connect)

----------------------------------------------------------------------------
(* Properties *)

Settled == link = "up" /\ out = <<>> /\ coming = <<>>

(* The page listens to exactly what it needs: once its packets have arrived the
   broker has the topics of the entries of `subscriptions' and no others, and
   those are the page's own and, while the module is shown, the module's; a chart
   that listens to a statistic of the module keeps it when the module goes
   (mqtt.js:59, 85, 121). *)
SubscriptionsMatch ==
  /\ subscriptions = PageEntries \cup IF shown THEN NodeEntries ELSE {}
  /\ link = "up" /\ out = <<>> => subscribed = {e.topic : e \in subscriptions}

(* When all is said every input holds the server's value, and shows it unless
   something else was typed, which it then marks: also when what was typed was
   beyond the server's bound or no number.  A list has the options of the module
   that is there now and, whether these came before or after the value, shows the
   value if it is one of them; one that is not, which the server takes from anyone,
   leaves it blank, and nothing marks that (node_editor.js:814-882, 1029-1046,
   index.html:142). *)
ValuesShown ==
  Settled /\ shown /\ present =>
    \A p \in {p \in ParamSet : value[p] # Empty} :
      /\ widget[p].value = value[p]
      /\ IF p \in Selects
           THEN /\ widget[p].options = options[p]
                /\ widget[p].text = (IF value[p] \in options[p] THEN value[p] ELSE Empty)
           ELSE widget[p].changed <=> widget[p].text # value[p]

(* And all is said in the end: neither the page nor the server answers an answer
   (index.html:166). *)
ValuesSettle == <>[](Settled /\ ValuesShown)
=============================================================================
