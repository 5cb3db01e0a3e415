-------------------------- MODULE MCPageParameters --------------------------
(* PageParameters with an input of each kind.  The server's bound for the     *)
(* double is below that of the description; what others set it to may be on    *)
(* either side of the range, and the list to something it does not have.       *)
EXTENDS PageParameters, TLC

MCParams == <<"interval", "mode", "active", "length">>
MCKind == "interval" :> "double" @@ "mode" :> "select" @@
          "active" :> "bool" @@ "length" :> "statistic"
MCTyped == "interval" :> {0, 3, NaN} @@ "mode" :> {1, 3} @@
           "active" :> {0, 1} @@ "length" :> {1}
MCDefault == "interval" :> 1 @@ "mode" :> 1 @@ "active" :> 1 @@ "length" :> Empty

(* Filters of up to three levels, and topics to match with them. *)
Filters == UNION {[1..n -> {"a", "b", "+"}] : n \in 1..3}
Names == UNION {[1..n -> {"a", "b"}] : n \in 1..3}

(* topic_matches_sub is MQTT's matching for the filters the page uses: those
   without "#" (mqtt.js:33). *)
ASSUME MatchingAgrees ==
  \A sub \in Filters, topic \in Names :
    topic_matches_sub(sub, topic) <=> MqttMatches(sub, topic)
=============================================================================
