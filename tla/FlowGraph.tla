----------------------------- MODULE FlowGraph -----------------------------
(***************************************************************************)
(* The module graph that ModuleManager keeps (ModuleManager.cpp, Port.hpp, *)
(* Module.hpp, Path.hpp): the modules by id, the paths between their       *)
(* ports, the raw pointers the ports hold to one another, and what the     *)
(* broker is told of them.                                                 *)
(*                                                                         *)
(* Every handler runs on one thread and takes no lock, and the packet      *)
(* thread runs between any two of its steps.  A handler is therefore a     *)
(* sequence of actions: one for each module it touches, and two for each   *)
(* path, whose ports are connected and disconnected one after the other.   *)
(* `pc' says which loop of which handler is being executed.                *)
(*                                                                         *)
(* A module object is a member of Objects, an address that is handed out   *)
(* again once the object at it is destroyed.  A port is <<object, port     *)
(* id>>, an end of a requested path is <<module id, port id>>.  The paths  *)
(* are a std::list with no two entries of one name: they are a set here,   *)
(* and a loop over them, or over a JSON list, visits them in any order.    *)
(***************************************************************************)
EXTENDS FiniteSets

CONSTANTS
  Ids,          \* module ids ("socket_source", "fifo_queue", ...)
  Objects,      \* addresses of Module objects
  Types,        \* module types, SocketType included
  SocketType,   \* RawSocket: made by main only, not removable
  Sockets,      \* the ids main gives its sockets
  PortIds,      \* port ids ("in", "lr_out", ...)
  ParamIds,     \* parameter ids
  Kind,         \* Kind[t][p]: the kind of port p of a module of type t
  Params,       \* Params[t]: the parameters of a module of type t
  Requests,     \* the path lists a client may publish on set/paths
  Documents,    \* the graph files that may be loaded
  NoObject, NoType, NoPort, NoPath, NoId, NoDoc

PortKinds == {"sending", "receiving", "requesting", "responding"}

Port == Objects \X PortIds
Endpoint == Ids \X PortIds
Join == [from : Endpoint, to : Endpoint]
Path == [name : Join, from : Port, to : Port]
Document == [modules : [Ids -> Types \cup {NoType}], paths : SUBSET Join]

(* The types addModule can make (module_library). *)
Library == Types \ {SocketType}

ASSUME FlowGraphAssumption ==
  /\ SocketType \in Types
  /\ Sockets \subseteq Ids
  /\ Kind \in [Types -> [PortIds -> PortKinds \cup {"none"}]]
  /\ Params \in [Types -> SUBSET ParamIds]
  /\ Requests \subseteq SUBSET Join
  /\ Documents \subseteq Document
  /\ NoObject \notin Objects /\ NoType \notin Types
  /\ NoPort \notin Port /\ NoPath \notin Path
  /\ NoId \notin Ids /\ NoDoc \notin Document
  /\ \E f \in [Sockets -> Objects] :
       \A i, j \in Sockets : f[i] = f[j] => i = j

VARIABLES
  heap,      \* type of the module object at each address, NoType if there is none
  modules,   \* ModuleManager::modules
  conn,      \* connected_port of each port
  paths,     \* ModuleManager::paths
  half,      \* the path of whose ports one has been (dis)connected, NoPath if none
  subs,      \* ids whose parameters are subscribed to (set/module/<id>/<parameter>)
  retained,  \* ids with a retained description (get/module/<id>)
  shown,     \* the retained path list (get/paths)
  file,      \* the graph file last written
  pc,        \* the loop being executed
  ret,       \* what the running removeModule returns to
  target,    \* the id the running removeModule removes
  left,      \* ids the running loop over modules has yet to visit
  doc,       \* the document being loaded
  wanted,    \* the argument of the running updatePaths
  request    \* what its second loop has yet to visit

graph == <<heap, modules, conn, paths, half>>
broker == <<subs, retained, shown>>
control == <<pc, ret, target, left, doc, wanted, request>>
vars == <<graph, broker, file, control>>

PCs == {"idle", "unlink", "advance", "unload", "install", "prune", "wire",
        "clear", "stopped", "crashed"}

(* Type invariant. *)
TypeOK ==
  /\ heap \in [Objects -> Types \cup {NoType}]
  /\ modules \in [Ids -> Objects \cup {NoObject}]
  /\ conn \in [Port -> Port \cup {NoPort}]
  /\ paths \subseteq Path
  /\ half \in Path \cup {NoPath}
  /\ subs \subseteq Ids /\ retained \subseteq Ids /\ shown \subseteq Join
  /\ file \in Document \cup {NoDoc}
  /\ pc \in PCs
  /\ ret \in {"idle", "unload", "clear"}
  /\ target \in Ids \cup {NoId}
  /\ left \subseteq Ids
  /\ doc \in Document \cup {NoDoc}
  /\ wanted \subseteq Join /\ request \subseteq Join

----------------------------------------------------------------------------
(* State formulae *)

Live == {id \in Ids : modules[id] # NoObject}
TypeOf(id) == heap[modules[id]]
Names == {p.name : p \in paths}
Half == {half} \ {NoPath}
PortOf(e) == <<modules[e[1]], e[2]>>
HasPort(e) == e[1] \in Live /\ Kind[TypeOf(e[1])][e[2]] # "none"
KindOf(e) == Kind[TypeOf(e[1])][e[2]]

(* The casts of the four connect methods. *)
Compatible(k, l) ==
  {k, l} \in {{"sending", "receiving"}, {"requesting", "responding"}}

(* What addPath accepts. *)
Joinable(j) == HasPort(j.from) /\ HasPort(j.to) /\ Compatible(KindOf(j.from), KindOf(j.to))

(* The paths removeModule takes down with module id. *)
(* Mutant: only those that leave the module. *)
TouchingFrom(id) == {p \in paths : p.name.from[1] = id}
Touching(id) == {p \in paths : p.name.from[1] = id \/ p.name.to[1] = id}

Serialized ==
  [modules |-> [id \in Ids |-> IF id \in Live THEN TypeOf(id) ELSE NoType],
   paths |-> Names]

DocIds(d) == {id \in Ids : d.modules[id] # NoType}

----------------------------------------------------------------------------
(* What the handlers call *)

(* removePath and addPath: the port a path starts from is disconnected or
   connected first, then the port it leads to; then the list is changed. *)
BeginRemovePath(p) ==
  /\ half = NoPath /\ half' = p
  /\ conn' = [conn EXCEPT ![p.from] = NoPort]
  /\ UNCHANGED paths

(* Mutant of EndRemovePath: the far port is left connected. *)
EndRemovePathOneEnd ==
  /\ half # NoPath /\ half' = NoPath
  /\ paths' = paths \ {half}
  /\ UNCHANGED conn

EndRemovePath ==
  /\ half # NoPath /\ half' = NoPath
  /\ conn' = [conn EXCEPT ![half.to] = NoPort]
  /\ paths' = paths \ {half}

BeginAddPath(j) ==
  LET f == PortOf(j.from)
      t == PortOf(j.to)
  IN  /\ half = NoPath /\ half' = [name |-> j, from |-> f, to |-> t]
      /\ conn' = [conn EXCEPT ![f] = t]
      /\ UNCHANGED paths

EndAddPath ==
  /\ half # NoPath /\ half' = NoPath
  /\ conn' = [conn EXCEPT ![half.to] = half.from]
  /\ paths' = paths \cup {half}

(* deserialize: the values of the parameters a description names are set.  The
   first one the module has not got throws out of the handler and ends the
   process; otherwise the module is published. *)
Deserialize(id, params, named) ==
  IF named \subseteq params
    THEN retained' = retained \cup {id} /\ UNCHANGED pc
    ELSE pc' = "crashed" /\ UNCHANGED retained

(* addModule: make the object, subscribe to its parameters, set them. An
   unknown type is reported and ignored. *)
AddModule(id, type, named) ==
  IF type \in Library
    THEN /\ \E o \in Objects :
              /\ heap[o] = NoType
              /\ heap' = [heap EXCEPT ![o] = type]
              /\ modules' = [modules EXCEPT ![id] = o]
              /\ conn' = [x \in Port |-> IF x[1] = o THEN NoPort ELSE conn[x]]
         /\ subs' = subs \cup {id}
         /\ Deserialize(id, Params[type], named)
         /\ UNCHANGED <<paths, half, shown>>
    ELSE UNCHANGED <<graph, broker, pc>>

(* updateModule: the type stays what it is. *)
UpdateModule(id, named) ==
  /\ Deserialize(id, Params[TypeOf(id)], named)
  /\ UNCHANGED <<graph, subs, shown>>

(* removeModule up to its loop over the paths. *)
BeginRemove(id, caller) ==
  /\ pc' = "unlink" /\ ret' = caller /\ target' = id
  /\ subs' = subs \ {id}
  /\ retained' = retained \ {id}
  /\ UNCHANGED <<graph, shown>>

----------------------------------------------------------------------------
(* set/module/<id> *)

SetModule(id, type, named) ==
  /\ pc = "idle"
  /\ IF id \in Live
       THEN UpdateModule(id, named)
       ELSE AddModule(id, type, named)
  /\ UNCHANGED <<file, ret, target, left, doc, wanted, request>>

(* Mutant of UnsetModule: the removable flag is not looked at. *)
UnsetModuleForced(id) ==
  /\ pc = "idle"
  /\ id \in Live
  /\ BeginRemove(id, "idle")
  /\ UNCHANGED <<file, left, doc, wanted, request>>

(* An empty description: removeModule(id, true, true, false). *)
UnsetModule(id) ==
  /\ pc = "idle"
  /\ \/ /\ id \notin Live
        /\ retained' = retained \ {id}
        /\ UNCHANGED <<graph, subs, shown, pc, ret, target>>
     \/ /\ id \in Live
        /\ TypeOf(id) # SocketType
        /\ BeginRemove(id, "idle")
  /\ UNCHANGED <<file, left, doc, wanted, request>>

(* One turn of removeModule's loop over the paths. *)
UnlinkPath ==
  /\ pc = "unlink"
  /\ (\E p \in Touching(target) : BeginRemovePath(p)) \/ EndRemovePath
  /\ UNCHANGED <<heap, modules, broker, file, control>>

(* Mutant of EraseModule: the loop over the paths is left after one turn. *)
EraseModuleEarly ==
  /\ pc = "unlink" /\ half = NoPath
  /\ shown' = Names
  /\ heap' = [heap EXCEPT ![modules[target]] = NoType]
  /\ modules' = [modules EXCEPT ![target] = NoObject]
  /\ pc' = IF ret = "unload" THEN "advance" ELSE ret
  /\ target' = NoId /\ ret' = "idle"
  /\ UNCHANGED <<conn, paths, half, subs, retained, file, left, doc, wanted, request>>

(* The end of removeModule: publish the paths, destroy the object. *)
EraseModule ==
  /\ pc = "unlink" /\ half = NoPath
  /\ Touching(target) = {}
  /\ shown' = Names
  /\ heap' = [heap EXCEPT ![modules[target]] = NoType]
  /\ modules' = [modules EXCEPT ![target] = NoObject]
  /\ pc' = IF ret = "unload" THEN "advance" ELSE ret
  /\ target' = NoId /\ ret' = "idle"
  /\ UNCHANGED <<conn, paths, half, subs, retained, file, left, doc, wanted, request>>

----------------------------------------------------------------------------
(* set/paths: updatePaths *)

(* Mutant of SetPaths: nothing is pruned, the new paths are added to the old. *)
SetPathsAdding(paths_wanted) ==
  /\ pc = "idle"
  /\ pc' = "wire" /\ wanted' = paths_wanted /\ request' = paths_wanted
  /\ UNCHANGED <<graph, broker, file, ret, target, left, doc>>

SetPaths(paths_wanted) ==
  /\ pc = "idle"
  /\ pc' = "prune" /\ wanted' = paths_wanted
  /\ UNCHANGED <<graph, broker, file, ret, target, left, doc, request>>

(* Mutant of Stale: only the ends from which the paths start are compared. *)
StaleByFrom(p) == \A j \in wanted : j.from # p.name.from
(* The comparison of updatePaths' first loop. *)
Stale(p) == p.name \notin wanted

(* Mutant of PrunePath: the path is dropped, its ports are not disconnected. *)
PrunePathOnly ==
  /\ pc = "prune"
  /\ \E p \in paths : Stale(p) /\ paths' = paths \ {p}
  /\ UNCHANGED <<heap, modules, conn, half, broker, file, control>>

PrunePath ==
  /\ pc = "prune"
  /\ (\E p \in paths : Stale(p) /\ BeginRemovePath(p)) \/ EndRemovePath
  /\ UNCHANGED <<heap, modules, broker, file, control>>

PruneDone ==
  /\ pc = "prune" /\ half = NoPath
  /\ ~ \E p \in paths : Stale(p)
  /\ pc' = "wire" /\ request' = wanted
  /\ UNCHANGED <<graph, broker, file, ret, target, left, doc, wanted>>

WirePath ==
  /\ pc = "wire"
  /\ \/ \E j \in request :
          IF j \notin Names /\ Joinable(j)
            THEN BeginAddPath(j) /\ UNCHANGED request
            ELSE half = NoPath /\ request' = request \ {j} /\ UNCHANGED <<conn, paths, half>>
     \/ EndAddPath /\ request' = request \ {half.name}
  /\ UNCHANGED <<heap, modules, broker, file, pc, ret, target, left, doc, wanted>>

(* Mutant of WireDone: the new list is not published. *)
WireDoneSilent ==
  /\ pc = "wire"
  /\ request = {}
  /\ pc' = "idle" /\ doc' = NoDoc /\ wanted' = {}
  /\ UNCHANGED <<graph, broker, file, ret, target, left, request>>

WireDone ==
  /\ pc = "wire"
  /\ request = {}
  /\ shown' = Names
  /\ pc' = "idle" /\ doc' = NoDoc /\ wanted' = {}
  /\ UNCHANGED <<graph, subs, retained, file, ret, target, left, request>>

----------------------------------------------------------------------------
(* set/load and the load main does first: loadFromFile, deserialize *)

Load(d) ==
  /\ pc = "idle"
  /\ pc' = "unload" /\ doc' = d /\ left' = Live
  /\ UNCHANGED <<graph, broker, file, ret, target, wanted, request>>

(* updateModules' loop over the modules that are there: those the document
   does not name are removed, sockets too (force defaults to true). *)
UnloadModule(id) ==
  /\ pc = "unload"
  /\ id \in left
  /\ left' = left \ {id}
  /\ IF id \in DocIds(doc)
       THEN UNCHANGED <<graph, broker, pc, ret, target>>
       ELSE BeginRemove(id, "unload")
  /\ UNCHANGED <<file, doc, wanted, request>>

UnloadDone ==
  /\ pc = "unload"
  /\ left = {}
  /\ pc' = "install" /\ left' = DocIds(doc)
  /\ UNCHANGED <<graph, broker, file, ret, target, doc, wanted, request>>

(* removeModule has erased the map node the loop's iterator stands on: ++it
   reads freed memory, and finds the next node, finds the end, or faults. *)
Advance ==
  /\ pc = "advance"
  /\ \/ pc' = "unload" /\ UNCHANGED left
     \/ pc' = "install" /\ left' = DocIds(doc)
     \/ pc' = "crashed" /\ UNCHANGED left
  /\ UNCHANGED <<graph, broker, file, ret, target, doc, wanted, request>>

(* A file that saveToFile wrote names the parameters of the modules it lists,
   one that was edited may name any. *)
NamedIn(d, id) == IF d = file THEN {Params[d.modules[id]]} ELSE SUBSET ParamIds

InstallModule(id) ==
  /\ pc = "install"
  /\ id \in left
  /\ left' = left \ {id}
  /\ \E named \in NamedIn(doc, id) :
       IF id \in Live
         THEN UpdateModule(id, named)
         ELSE AddModule(id, doc.modules[id], named)
  /\ UNCHANGED <<file, ret, target, doc, wanted, request>>

InstallDone ==
  /\ pc = "install"
  /\ left = {}
  /\ pc' = "prune" /\ wanted' = doc.paths
  /\ UNCHANGED <<graph, broker, file, ret, target, left, doc, request>>

----------------------------------------------------------------------------
(* set/save: saveToFile *)

Save ==
  /\ pc = "idle"
  /\ file' = Serialized
  /\ UNCHANGED <<graph, broker, control>>

(* SIGINT or SIGTERM: main saves the graph and removes every module. *)
Stop ==
  /\ pc = "idle"
  /\ file' = Serialized
  /\ pc' = "clear" /\ left' = Live
  /\ UNCHANGED <<graph, broker, ret, target, doc, wanted, request>>

ClearModule(id) ==
  /\ pc = "clear"
  /\ id \in left
  /\ left' = left \ {id}
  /\ BeginRemove(id, "clear")
  /\ UNCHANGED <<file, doc, wanted, request>>

ClearDone ==
  /\ pc = "clear"
  /\ left = {}
  /\ pc' = "stopped"
  /\ UNCHANGED <<graph, broker, file, ret, target, left, doc, wanted, request>>

Terminated ==
  /\ pc \in {"stopped", "crashed"}
  /\ UNCHANGED vars

----------------------------------------------------------------------------
(* main has made the two sockets; nothing is connected. *)
Init ==
  /\ modules \in [Ids -> Objects \cup {NoObject}]
  /\ Live = Sockets
  /\ \A i, j \in Sockets : modules[i] = modules[j] => i = j
  /\ heap = [o \in Objects |->
               IF \E id \in Sockets : modules[id] = o THEN SocketType ELSE NoType]
  /\ conn = [x \in Port |-> NoPort]
  /\ paths = {} /\ half = NoPath
  /\ subs = Sockets /\ retained = Sockets /\ shown = {}
  /\ file = NoDoc
  /\ pc = "idle" /\ ret = "idle" /\ target = NoId
  /\ left = {} /\ doc = NoDoc /\ wanted = {} /\ request = {}

(* The rest of a handler once a message has started it. *)
HandlerStep ==
  \/ UnlinkPath \/ EraseModule
  \/ PrunePath \/ PruneDone \/ WirePath \/ WireDone
  \/ Advance \/ UnloadDone \/ InstallDone \/ ClearDone
  \/ \E id \in Ids : UnloadModule(id) \/ InstallModule(id) \/ ClearModule(id)

Message ==
  \/ \E id \in Ids, type \in Types, named \in SUBSET ParamIds : SetModule(id, type, named)
  \/ \E id \in Ids : UnsetModule(id)
  \/ \E r \in Requests : SetPaths(r)
  \/ \E d \in (Documents \cup {file}) \ {NoDoc} : Load(d)
  \/ Save

Next == HandlerStep \/ Message \/ Stop \/ Terminated

Spec == Init /\ [][Next]_vars

----------------------------------------------------------------------------
(* Properties *)

(* No port of any object points to a port of an object that is gone, and no
   port of an object that is gone still points anywhere: removeModule has
   disconnected every port of a module, at both ends, before it destroys it. *)
NoDanglingPort ==
  \A x \in Port :
    conn[x] # NoPort => heap[x[1]] # NoType /\ heap[conn[x][1]] # NoType

(* The modules and the objects are one to one: nothing leaks, and no two ids
   share an object. *)
OneObjectPerModule ==
  /\ \A o \in Objects : heap[o] # NoType <=> \E id \in Ids : modules[id] = o
  /\ \A i, j \in Live : modules[i] = modules[j] => i = j

(* A listed path, and one that is being made or taken down, joins the ports of
   the modules that have its ids now. *)
PathsResolve ==
  \A p \in paths \cup Half :
    /\ Joinable(p.name)
    /\ p.from = PortOf(p.name.from) /\ p.to = PortOf(p.name.to)

(* A port that points to another does so because a path joins the two that is
   listed, or is being made. *)
ConnectionsListed ==
  \A x \in Port :
    conn[x] # NoPort =>
      \E p \in paths \cup Half : <<x, conn[x]>> \in {<<p.from, p.to>>, <<p.to, p.from>>}

(* A listed path is one packets can take, but for the one that is being taken
   down: its two ports point at each other. *)
PathsWired == \A p \in paths \ Half : conn[p.from] = p.to /\ conn[p.to] = p.from

(* Between two messages the broker holds what is there: the path list, the
   description of each module and no other, and each module can be addressed. *)
BrokerMatches ==
  pc = "idle" => shown = Names /\ retained = Live /\ subs = Live

(* A graph file never lists a path to a module it does not list. *)
SavedGraphClosed ==
  file # NoDoc => \A j \in file.paths : {j.from[1], j.to[1]} \subseteq DocIds(file)

(* No message but a load removes a socket. *)
SocketsKept ==
  [][\A id \in Ids :
       id \in Live /\ TypeOf(id) = SocketType /\ id \notin Live' => ret # "idle"]_vars

(* updatePaths leaves exactly the paths asked for that can be made. *)
RequestApplied ==
  [][WireDone => Names = {j \in wanted : Joinable(j)}]_vars

(* README.md says the structure can be changed at runtime; loading a graph in
   place of another does not end the process. *)
LoadSurvives == [][pc = "advance" => pc' # "crashed"]_vars
=============================================================================
