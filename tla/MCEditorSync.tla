---------------------------- MODULE MCEditorSync ----------------------------
(* EditorSync with a source, a sink, and a queue the users may add, move and  *)
(* remove: the paths source -> queue and source -> sink, named from either    *)
(* end.  e1 edits most, and is the one that loses its connection.             *)
EXTENDS EditorSync, TLC

CONSTANTS src, snk, q, out, in, qin, e1, e2

MCOwner == out :> src @@ in :> snk @@ qin :> q
MCKind == out :> "sending" @@ in :> "receiving" @@ qin :> "receiving"
MCEarlier == [id \in Ids |-> {}]

MCModules == src :> 1 @@ snk :> 1 @@ q :> 1
MCPaths == {[from |-> out, to |-> qin]}

(* The broker has an order of its own. *)
MCRetained ==
  [S \in SUBSET Ids |-> {CHOOSE order \in Bijection(1..Cardinality(S), S) : TRUE}]

MCGestures == [e \in Editors |-> IF e = e1 THEN 3 ELSE 1]
MCLosses == [e \in Editors |-> IF e = e1 THEN 1 ELSE 0]

FourGestures == [e \in Editors |-> 4]
NoLosses == [e \in Editors |-> 0]
=============================================================================
