----------------------------- MODULE NodeEditor -----------------------------
(***************************************************************************)
(* A page of the web editor: the NodeEditor, Node, Port and Path objects   *)
(* of node_editor.js, and the handlers index.html gives them.  JavaScript  *)
(* runs a handler to its end before the next: an operator of this module   *)
(* takes the page a handler finds and returns the page it leaves, the      *)
(* messages it published appended to `sent'.                               *)
(*                                                                         *)
(* A place stands for what the page and the server hold of a module and    *)
(* both may change: its position and its size.  A node may be drawn at     *)
(* another size than it was given.  The ports of a module follow from its  *)
(* id.  A Path object is a slot; the slot of an object that is gone is     *)
(* used again, and the order of the list of paths is not kept: where it    *)
(* matters any order is taken.                                             *)
(***************************************************************************)
EXTENDS Naturals, Sequences, FiniteSets, Functions

CONSTANTS
  Ids,        \* module ids
  Sockets,    \* those of modules that are not removable
  Earlier,    \* Earlier[id]: the ids the library tries before id, for the same type
  Ports,      \* the ports of all modules
  Owner,      \* Owner[p]: the module of port p
  Kind,       \* Kind[p]: "sending", "receiving", "requesting" or "responding"
  Places,
  Slots,      \* bound: Path objects a page has at once
  Away, NoId, NoPort

ASSUME NodeEditorAssumption ==
  /\ Sockets \subseteq Ids
  /\ Earlier \in [Ids -> SUBSET Ids]
  /\ Owner \in [Ports -> Ids]
  /\ Kind \in [Ports -> {"sending", "receiving", "requesting", "responding"}]
  /\ Slots \subseteq Nat \ {0}
  /\ \A S \in SUBSET Slots : S # {} => \E i \in S : \A k \in S : k <= i
  /\ IsFiniteSet(Ids) /\ Away \notin Places /\ NoId \notin Ids /\ NoPort \notin Ports

(* The slot of no Path object: undefined. *)
Undefined == 0

(* A path with one end undefined follows the mouse; with both it is no object. *)
Path == [from : Ports \cup {NoPort}, to : Ports \cup {NoPort}]
Join == [from : Ports, to : Ports]
NoPath == [from |-> NoPort, to |-> NoPort]

Message ==
  [type : {"module"}, id : Ids, place : Places \cup {Away}] \cup
  [type : {"paths"}, names : SUBSET Join]

ModuleMsg(id, place) == [type |-> "module", id |-> id, place |-> place]
PathsMsg(names) == [type |-> "paths", names |-> names]

Page ==
  [nodes : [Ids -> Places \cup {Away}],       \* nodes, by their places
   paths : [Slots -> Path],                   \* paths
   connected : [Ports -> Slots \cup {Undefined}],  \* connected_path of each port
   loose : Slots \cup {Undefined},            \* loose_path
   selected : Ids \cup {NoId},                \* selected_element
   dragged : Ids \cup {NoId},                 \* dragged_element
   sent : Seq(Message),                       \* published, not yet with the server
   thrown : BOOLEAN,    \* history: a handler ended in a TypeError
   overlaid : BOOLEAN]  \* history: a path was put on a port that had one

(* The page as it is opened. *)
Blank ==
  [nodes |-> [id \in Ids |-> Away], paths |-> [i \in Slots |-> NoPath],
   connected |-> [p \in Ports |-> Undefined], loose |-> Undefined,
   selected |-> NoId, dragged |-> NoId, sent |-> <<>>,
   thrown |-> FALSE, overlaid |-> FALSE]

----------------------------------------------------------------------------
(* What the handlers read *)

Shown(pg) == {id \in Ids : pg.nodes[id] # Away}
Ends(x) == {x.from, x.to} \ {NoPort}
Drawn(pg) == {i \in Slots : pg.paths[i] # NoPath}
Free(pg) == Slots \ Drawn(pg)
OnPort(pg, p) == {i \in Slots : p \in Ends(pg.paths[i])}
At(pg, id) == {i \in Slots : \E p \in Ends(pg.paths[i]) : Owner[p] = id}

(* serializePaths: the loose path is left out. *)
SerializePaths(pg) == {pg.paths[i] : i \in Slots} \cap Join

(* Port: the types a path may join. *)
Compatible(p, q) ==
  {Kind[p], Kind[q]} \in {{"sending", "receiving"}, {"requesting", "responding"}}

Publish(pg, m) == [pg EXCEPT !.sent = Append(@, m)]
PublishPaths(pg) == Publish(pg, PathsMsg(SerializePaths(pg)))

----------------------------------------------------------------------------
(* Path and NodeEditor *)

(* setPortFrom and setPortTo with a port. *)
Attach(pg, i, end, p) ==
  [pg EXCEPT !.paths[i][end] = p, !.connected[p] = i]

(* Mutant of Detach: the path's own field is left. *)
DetachPortOnly(pg, i, end) ==
  [pg EXCEPT !.connected[pg.paths[i][end]] = Undefined]

(* ... and with "mouse". *)
Detach(pg, i, end) ==
  [pg EXCEPT !.connected[pg.paths[i][end]] = Undefined, !.paths[i][end] = NoPort]

(* Mutant of RemovePaths: one end keeps its connected_path. *)
RemovePathsFrom(pg, S) ==
  [pg EXCEPT
    !.paths = [i \in Slots |-> IF i \in S THEN NoPath ELSE @[i]],
    !.connected = [p \in Ports |-> IF \E i \in S : p = pg.paths[i].from
                                     THEN Undefined ELSE @[p]],
    !.loose = IF @ \in S THEN Undefined ELSE @]

(* removePath of each path in S.  No caller passes a whole path without a name
   that keeps the handlers from publishing.  The ports are cleared whether it is
   this path they are connected to or another. *)
RemovePaths(pg, S) ==
  [pg EXCEPT
    !.paths = [i \in Slots |-> IF i \in S THEN NoPath ELSE @[i]],
    !.connected = [p \in Ports |-> IF \E i \in S : p \in Ends(pg.paths[i])
                                     THEN Undefined ELSE @[p]],
    !.loose = IF @ \in S THEN Undefined ELSE @]

(* new Path(from, to) and addPath for each path of `new', a function from slots. *)
AddPaths(pg, new) ==
  LET added(p) == {i \in DOMAIN new : p \in Ends(new[i])}
      last(p) == CHOOSE i \in added(p) : \A k \in added(p) : k <= i
      twice == \E i \in DOMAIN new : \E p \in Ends(new[i]) :
                 OnPort(pg, p) \cup added(p) # {i}
  IN  [pg EXCEPT
        !.paths = [i \in Slots |-> IF i \in DOMAIN new THEN new[i] ELSE @[i]],
        !.connected = [p \in Ports |-> IF added(p) # {} THEN last(p) ELSE @[p]],
        !.overlaid = @ \/ twice]

(* The ways to put the paths J into free slots. *)
Placements(pg, J) ==
  LET lowest == {i \in Free(pg) : Cardinality({k \in Free(pg) : k < i}) < Cardinality(J)}
  IN  Bijection(lowest, J)

(* Mutant of Missing: the node is looked for at the end the path starts from only. *)
MissingFrom(pg, names) ==
  {j \in Join : j \in names \ SerializePaths(pg) /\ Owner[j.from] \in Shown(pg)}

(* The paths of a list that are not there and whose modules are. *)
Missing(pg, names) ==
  {j \in Join : j \in names \ SerializePaths(pg) /\ {Owner[j.from], Owner[j.to]} \subseteq Shown(pg)}

(* Mutant of UpdatePaths: what was received is published. *)
UpdatePathsEcho(pg, names) ==
  LET kept == RemovePaths(pg, {i \in Slots : pg.paths[i] \in Join \ names})
  IN  {PublishPaths(AddPaths(kept, new)) : new \in Placements(kept, Missing(kept, names))}

(* updatePaths, for a list received: the pages it may leave. *)
UpdatePaths(pg, names) ==
  LET kept == RemovePaths(pg, {i \in Slots : pg.paths[i] \in Join \ names})
  IN  {AddPaths(kept, new) : new \in Placements(kept, Missing(kept, names))}

(* The loops over the paths compare path.port_from.parent and path.port_to.parent
   with the node: with the loose path in the list they meet an undefined end,
   unless the end it has is port_from and at the node. *)
Throws(pg, id) ==
  /\ pg.loose # Undefined
  /\ LET from == pg.paths[pg.loose].from IN from = NoPort \/ Owner[from] # id

(* Mutant of LetGo: a node that is held stays held. *)
LetGoSelected(pg, id) == [pg EXCEPT !.selected = IF @ = id THEN NoId ELSE @]

LetGo(pg, id) ==
  [pg EXCEPT !.selected = IF @ = id THEN NoId ELSE @,
             !.dragged = IF @ = id THEN NoId ELSE @]

(* removeNode.  Where it throws, the paths before the loose one are gone, the
   node stays and nothing was published.  `told' if the server says so. *)
RemoveNode(pg, id, told) ==
  LET unlinked == RemovePaths(LetGo(pg, id), At(pg, id))
      published == IF told THEN unlinked
                     ELSE Publish(PublishPaths(unlinked), ModuleMsg(id, Away))
  IN  IF Throws(pg, id)
        THEN {[RemovePaths(LetGo(pg, id), S) EXCEPT !.thrown = TRUE] :
                S \in SUBSET (At(pg, id) \ {pg.loose})}
        ELSE {[published EXCEPT !.nodes[id] = Away]}

(* updateNode: a node that is elsewhere, or is drawn at another size than the
   one received, is moved first, then the paths are looked through. *)
UpdateNode(pg, id, place, resized) ==
  [pg EXCEPT !.nodes[id] = place,
             !.thrown = @ \/ ((pg.nodes[id] # place \/ resized) /\ Throws(pg, id))]

AddNode(pg, id, place) == [pg EXCEPT !.nodes[id] = place]

----------------------------------------------------------------------------
(* What the user does *)

(* mousedown on a port.  It stops the event: the selection stays. *)
StartPath(pg, p, i) == [Attach(pg, i, "from", p) EXCEPT !.loose = i]

Fits(pg, p) ==
  \E q \in Ends(pg.paths[pg.loose]) : Compatible(p, q)

EndPath(pg, p) ==
  LET end == IF pg.paths[pg.loose].from = NoPort THEN "from" ELSE "to"
  IN  [PublishPaths(Attach(pg, pg.loose, end, p)) EXCEPT !.loose = Undefined]

(* Mutant of TakePath: the list is published before the end is taken off. *)
TakePathEarly(pg, p) ==
  LET i == pg.connected[p]
      end == IF pg.paths[i].from = p THEN "from" ELSE "to"
  IN  [Detach(PublishPaths(pg), i, end) EXCEPT !.loose = i]

TakePath(pg, p) ==
  LET i == pg.connected[p]
      end == IF pg.paths[i].from = p THEN "from" ELSE "to"
  IN  [PublishPaths(Detach(pg, i, end)) EXCEPT !.loose = i]

(* The pages a mousedown on port p may leave. *)
PortDown(pg, p) ==
  IF pg.connected[p] = Undefined
    THEN IF pg.loose = Undefined
           THEN {StartPath(pg, p, i) : i \in {i \in Free(pg) : \A k \in Free(pg) : i <= k}}
           ELSE IF Fits(pg, p) THEN {EndPath(pg, p)} ELSE {pg}
    ELSE IF pg.loose = Undefined THEN {TakePath(pg, p)} ELSE {pg}

(* mousedown on a node.  It stops the event: a loose path stays. *)
NodeDown(pg, id) == [pg EXCEPT !.selected = id, !.dragged = id]

(* mousedown elsewhere. *)
WindowDown(pg) ==
  [RemovePaths(pg, {pg.loose} \ {Undefined}) EXCEPT !.selected = NoId]

(* mousemove with a node held. *)
Drag(pg, place) == [pg EXCEPT !.nodes[pg.dragged] = place]

(* mouseup with a node held. *)
MouseUp(pg) ==
  [Publish(pg, ModuleMsg(pg.dragged, pg.nodes[pg.dragged])) EXCEPT !.dragged = NoId]

(* mousedown on a node of the library, under the first id that is not taken. *)
Create(pg, id, place) ==
  NodeDown(AddNode(Publish(pg, ModuleMsg(id, place)), id, place), id)

----------------------------------------------------------------------------
(* A message of the server: the handlers of get/module/+ and get/paths.
   `resized': the size it gives a node is not the one the page draws it at. *)

Handle(pg, m, resized) ==
  IF m.type = "paths" THEN UpdatePaths(pg, m.names)
  ELSE IF m.id \in Shown(pg)
    THEN IF m.place = Away THEN RemoveNode(pg, m.id, TRUE)
                           ELSE {UpdateNode(pg, m.id, m.place, resized)}
    ELSE {IF m.place = Away THEN pg ELSE AddNode(pg, m.id, m.place)}

(* Whether the handler of m ends in an exception. *)
HandlerThrows(pg, m, resized) ==
  /\ m.type = "module"
  /\ m.id \in Shown(pg) /\ (pg.nodes[m.id] # m.place \/ resized)
  /\ Throws(pg, m.id)
=============================================================================
