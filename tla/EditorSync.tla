----------------------------- MODULE EditorSync -----------------------------
(***************************************************************************)
(* The pages of the web editor and the server, kept in step over MQTT:     *)
(* each page changes its own copy of the graph at once and publishes what  *)
(* it did (set/module/<id>, set/paths); the server changes the graph and   *)
(* publishes what is different (get/module/<id>, get/paths, retained);     *)
(* every page applies that to its copy, the one that began it too.         *)
(*                                                                         *)
(* The server's handlers are those of FlowGraph, taken whole and reduced   *)
(* to which modules and paths there are: the server publishes a module or  *)
(* the list only when it differs from what it published last, which is     *)
(* when it changed, or when it had published nothing.  The broker delivers *)
(* in order, or loses with the connection.                                 *)
(***************************************************************************)
EXTENDS NodeEditor

CONSTANTS
  Editors,
  Open,          \* those that show the graph at the start; the others are just opened
  StartModules,  \* the graph when the pages are opened
  StartPaths,
  Retained,      \* Retained[S]: the orders in which the broker may send modules S
  MaxGestures,   \* bound: what the user of each page does
  MaxLosses      \* bound: how often it loses its connection

ASSUME EditorSyncAssumption ==
  /\ Open \subseteq Editors
  /\ StartModules \in [Ids -> Places \cup {Away}]
  /\ \A id \in Sockets : StartModules[id] # Away
  /\ StartPaths \subseteq Join
  /\ \A j \in StartPaths : /\ Compatible(j.from, j.to)
                           /\ \A p \in Ends(j) : StartModules[Owner[p]] # Away
                           /\ \A i \in StartPaths : i # j => Ends(i) \cap Ends(j) = {}
  /\ Placements(Blank, StartPaths) # {}
  /\ \A S \in SUBSET Ids : Retained[S] \subseteq Bijection(1..Cardinality(S), S)
  /\ MaxGestures \in [Editors -> Nat] /\ MaxLosses \in [Editors -> Nat]

VARIABLES
  page,      \* the page each editor shows
  link,      \* "down", "up", or "deaf": the page's handler threw, nothing more is read
  coming,    \* published by the server, not yet with the page
  modules,   \* the server's modules, by their places
  joins,     \* the server's paths
  published, \* modules it has published something of (Mqtt.cpp, once_messages)
  gestures, losses,
  strays     \* history: modules a page showed that were gone when it was connected again

server == <<modules, joins, published>>
vars == <<page, link, coming, server, gestures, losses, strays>>

(* Type invariant. *)
TypeOK ==
  /\ page \in [Editors -> Page]
  /\ link \in [Editors -> {"down", "up", "deaf"}]
  /\ coming \in [Editors -> Seq(Message)]
  /\ modules \in [Ids -> Places \cup {Away}]
  /\ joins \subseteq Join /\ published \subseteq Ids
  /\ gestures \in [Editors -> Nat] /\ losses \in [Editors -> Nat]
  /\ strays \in [Editors -> SUBSET Ids]

(* The page once it shows the graph the server starts with. *)
Showing ==
  LET new == CHOOSE f \in Placements(Blank, StartPaths) : TRUE
  IN  AddPaths([Blank EXCEPT !.nodes = StartModules], new)

Init ==
  /\ page = [e \in Editors |-> IF e \in Open THEN Showing ELSE Blank]
  /\ link = [e \in Editors |-> IF e \in Open THEN "up" ELSE "down"]
  /\ coming = [e \in Editors |-> <<>>]
  /\ modules = StartModules /\ joins = StartPaths
  /\ published \in {S \in SUBSET Ids : \A id \in Ids : StartModules[id] # Away => id \in S}
  /\ gestures = [e \in Editors |-> 0] /\ losses = [e \in Editors |-> 0]
  /\ strays = [e \in Editors |-> {}]

----------------------------------------------------------------------------
(* The users: one gesture is one event of a page. *)

Does(e, pages) ==
  /\ gestures[e] < MaxGestures[e]
  /\ gestures' = [gestures EXCEPT ![e] = @ + 1]
  /\ \E pg \in pages \ {page[e]} : page' = [page EXCEPT ![e] = pg]
  /\ UNCHANGED <<link, coming, server, losses, strays>>

(* The mouse has one button: nothing is pressed while a node is held. *)
FreeHand(e) == page[e].dragged = NoId

Press(e) ==
  /\ FreeHand(e)
  /\ \/ \E p \in Ports : Owner[p] \in Shown(page[e]) /\ Does(e, PortDown(page[e], p))
     \/ \E id \in Shown(page[e]) : Does(e, {NodeDown(page[e], id)})
     \/ Does(e, {WindowDown(page[e])})
     \/ \E id \in Ids \ Shown(page[e]), place \in Places :
          /\ id \notin Sockets
          /\ Earlier[id] \subseteq Shown(page[e])
          /\ Does(e, {Create(page[e], id, place)})

(* mousemove and mouseup. *)
Hold(e) ==
  /\ ~FreeHand(e)
  /\ \/ \E place \in Places : Does(e, {Drag(page[e], place)})
     \/ Does(e, {MouseUp(page[e])})

(* The Delete key. *)
Delete(e) ==
  LET id == page[e].selected
  IN  /\ id \notin Sockets \cup {NoId}
      /\ Does(e, RemoveNode(page[e], id, FALSE))

----------------------------------------------------------------------------
(* The server, with the next message of an editor. *)

Publishes(ms) ==
  coming' = [e \in Editors |-> IF link[e] = "up" THEN coming[e] \o ms ELSE coming[e]]

(* updatePaths of ModuleManager: what of a list it takes. *)
Accepted(names) ==
  {j \in names : /\ modules[Owner[j.from]] # Away /\ modules[Owner[j.to]] # Away
                 /\ Compatible(j.from, j.to)}

ServeModule(m) ==
  /\ m.place # Away
  /\ modules' = [modules EXCEPT ![m.id] = m.place]
  /\ published' = published \cup {m.id}
  /\ Publishes(IF modules' = modules THEN <<>> ELSE <<m>>)
  /\ UNCHANGED joins

(* removeModule, for a module there is. *)
ServeRemoval(m) ==
  /\ m.place = Away
  /\ modules[m.id] # Away
  /\ IF m.id \in Sockets
       THEN UNCHANGED <<coming, server>>
       ELSE /\ modules' = [modules EXCEPT ![m.id] = Away]
            /\ joins' = {j \in joins : m.id \notin {Owner[j.from], Owner[j.to]}}
            /\ Publishes(<<m>> \o IF joins' = joins THEN <<>> ELSE <<PathsMsg(joins')>>)
            /\ UNCHANGED published

(* ... and for an id it has no module of: the removal is published unless it, or
   that of a module there was, is what was published last. *)
ServeUnknown(m) ==
  /\ m.place = Away
  /\ modules[m.id] = Away
  /\ Publishes(IF m.id \in published THEN <<>> ELSE <<m>>)
  /\ published' = published \cup {m.id}
  /\ UNCHANGED <<modules, joins>>

(* Mutant of ServePaths: the new paths are added to the old. *)
ServePathsAdding(m) ==
  /\ joins' = joins \cup Accepted(m.names)
  /\ Publishes(IF joins' = joins THEN <<>> ELSE <<PathsMsg(joins')>>)
  /\ UNCHANGED <<modules, published>>

ServePaths(m) ==
  /\ joins' = Accepted(m.names)
  /\ Publishes(IF joins' = joins THEN <<>> ELSE <<PathsMsg(joins')>>)
  /\ UNCHANGED <<modules, published>>

Serve(e) ==
  /\ link[e] # "down"
  /\ page[e].sent # <<>>
  /\ LET m == Head(page[e].sent)
     IN  IF m.type = "paths" THEN ServePaths(m)
         ELSE ServeModule(m) \/ ServeRemoval(m) \/ ServeUnknown(m)
  /\ page' = [page EXCEPT ![e].sent = Tail(@)]
  /\ UNCHANGED <<link, gestures, losses, strays>>

----------------------------------------------------------------------------
(* The connection *)

Receive(e) ==
  /\ link[e] = "up"
  /\ coming[e] # <<>>
  /\ coming' = [coming EXCEPT ![e] = Tail(@)]
  /\ LET m == Head(coming[e])
     IN  \E resized \in BOOLEAN :
           /\ \E pg \in Handle(page[e], m, resized) : page' = [page EXCEPT ![e] = pg]
           /\ link' = [link EXCEPT ![e] =
                         IF HandlerThrows(page[e], m, resized) THEN "deaf" ELSE "up"]
  /\ UNCHANGED <<server, gestures, losses, strays>>

(* The modules that are placed by messages on their way. *)
Placed(ms) == {id \in Ids : \E k \in 1..Len(ms) :
                               ms[k].type = "module" /\ ms[k].id = id /\ ms[k].place # Away}

(* The connect handler subscribes, the broker sends what it retains.  What the
   page published meanwhile is sent first. *)
Connect(e) ==
  LET live == {id \in Ids : modules[id] # Away}
  IN  /\ link[e] = "down"
      /\ link' = [link EXCEPT ![e] = "up"]
      /\ \E order \in Retained[live] :
           coming' = [coming EXCEPT ![e] =
             [k \in 1..Cardinality(live) |-> ModuleMsg(order[k], modules[order[k]])]
               \o <<PathsMsg(joins)>>]
      /\ strays' = [strays EXCEPT ![e] = @ \cup ((Shown(page[e]) \ live) \ Placed(page[e].sent))]
      /\ UNCHANGED <<page, server, gestures, losses>>

(* The connection breaks; the last of what was sent may be lost with it. *)
Lose(e) ==
  /\ losses[e] < MaxLosses[e]
  /\ link[e] # "down"
  /\ losses' = [losses EXCEPT ![e] = @ + 1]
  /\ link' = [link EXCEPT ![e] = "down"]
  /\ coming' = [coming EXCEPT ![e] = <<>>]
  /\ \E n \in 0..Len(page[e].sent) : page' = [page EXCEPT ![e].sent = SubSeq(@, 1, n)]
  /\ UNCHANGED <<server, gestures, strays>>

Next ==
  \E e \in Editors :
    Press(e) \/ Hold(e) \/ Delete(e) \/ Serve(e) \/ Receive(e) \/ Connect(e) \/ Lose(e)

Spec == Init /\ [][Next]_vars

(* What is on its way arrives and is handled, connections are made again. *)
FairSpec == Spec /\ WF_vars(\E e \in Editors : Serve(e) \/ Receive(e) \/ Connect(e))

----------------------------------------------------------------------------
(* Properties *)

(* A path a page draws, the loose one too, ends at ports of modules the page
   shows: removeNode and a list received leave none behind (node_editor.js:251,
   332). *)
PathsAtNodes ==
  \A e \in Editors, i \in Slots :
    \A p \in Ends(page[e].paths[i]) : Owner[p] \in Shown(page[e])

(* The path a port is connected to is one that is drawn and ends at it; and, as
   long as none was put on a port that had one, every end of a path has the port
   connected to it: a port has one path at most (node_editor.js:1200, 1328). *)
PortsConnected ==
  \A e \in Editors :
    /\ \A p \in Ports : page[e].connected[p] # Undefined =>
         p \in Ends(page[e].paths[page[e].connected[p]])
    /\ ~page[e].overlaid =>
         \A i \in Slots : \A p \in Ends(page[e].paths[i]) : page[e].connected[p] = i

(* The path with one end is the loose one, whatever is done to the paths while
   it hangs on the mouse (node_editor.js:1228): a second one would stay on the
   page and in no list. *)
OneLoosePath ==
  \A e \in Editors, i \in Slots :
    LET x == page[e].paths[i]
    IN  i = page[e].loose <=> (x.from = NoPort) # (x.to = NoPort)

(* What is selected or held is on the page: Delete and mouseup would publish a
   module that was removed (node_editor.js:110, 126, 252). *)
SelectionShown ==
  \A e \in Editors : {page[e].selected, page[e].dragged} \subseteq Shown(page[e]) \cup {NoId}

(* As long as no page had a path put on a port that had one, the server's list
   has one path a port: the lists that FlowGraph's PathsWired asks for. *)
PortsExclusive ==
  (\A e \in Editors : ~page[e].overlaid) =>
    \A i, j \in joins : i # j => Ends(i) \cap Ends(j) = {}

(* What a page shows is what the server has; the place of a node that is held is
   the user's.  A page that was connected again may show modules that were
   removed meanwhile, or that the server never heard of, and paths drawn at them,
   which the server refused: the broker sends what there is, not what is gone. *)
Agrees(e) ==
  LET pg == page[e]
      extra == {id \in Shown(pg) : modules[id] = Away}
  IN  /\ \A id \in Ids \ extra : id # pg.dragged => pg.nodes[id] = modules[id]
      /\ extra \subseteq strays[e]
      /\ joins \subseteq SerializePaths(pg)
      /\ \A j \in SerializePaths(pg) \ joins : {Owner[j.from], Owner[j.to]} \cap strays[e] # {}

Settled(e) == link[e] = "up" /\ page[e].sent = <<>> /\ coming[e] = <<>>

(* Once a page's messages are answered and handled it agrees with the server,
   whatever it and the others did in between, and unless a handler of it threw
   (index.html:79-139, node_editor.js:177-390). *)
Agreement ==
  \A e \in Editors : Settled(e) /\ ~page[e].thrown => Agrees(e)

(* The same of every page. *)
AgreementAlways == \A e \in Editors : Settled(e) => Agrees(e)

(* When the users stop, the pages stop publishing and come to agree: an update
   is not published again by the pages it reaches (index.html:110-139). *)
Converges ==
  <>[](\A e \in Editors : ~page[e].thrown => Settled(e) /\ Agrees(e))
=============================================================================
