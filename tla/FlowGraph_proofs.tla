-------------------------- MODULE FlowGraph_proofs --------------------------
(* Proofs about FlowGraph, for any ids, types, ports, requests and documents. *)
EXTENDS GraphHistory, TLAPS

GraphTypeOK ==
  /\ heap \in [Objects -> Types \cup {NoType}]
  /\ modules \in [Ids -> Objects \cup {NoObject}]
  /\ conn \in [Port -> Port \cup {NoPort}]
  /\ paths \subseteq Path
  /\ half \in Path \cup {NoPath}

(* A listed path that is being taken down is disconnected where it starts.    *)
HalfDown == half \in paths => conn[half.from] = NoPort

(* What the handlers keep of the graph at every step, and not only between    *)
(* messages: a connection is backed by a path, and a path by modules that are *)
(* there.                                                                     *)
GraphInv ==
  GraphTypeOK /\ OneObjectPerModule /\ PathsResolve /\ ConnectionsListed /\ HalfDown

(* What the loops know: removeModule runs on a module that is there, and so   *)
(* does every later turn of the loop that called it; a path is taken down     *)
(* while it is listed, and made before it is.                                 *)
LoopInv ==
  /\ half # NoPath => \/ pc \in {"unlink", "prune"} /\ half \in paths
                      \/ pc = "wire" /\ half.name \in request /\ half.name \notin Names
  /\ pc \in {"idle", "prune", "wire"} \/ (pc = "unlink" /\ ret = "idle") => left = {}
  /\ pc = "unlink" => target \in Live /\ target \notin left
  /\ pc \in {"unload", "advance", "clear"} => left \subseteq Live
  /\ pc = "unlink" /\ ret \in {"unload", "clear"} => left \subseteq Live
  /\ pc \in {"unload", "advance", "install"} => doc \in Document
  /\ pc = "unlink" /\ ret = "unload" => doc \in Document

Inv == TypeOK /\ GraphInv /\ LoopInv

----------------------------------------------------------------------------
(* The first step of removePath keeps the graph consistent: the port that is  *)
(* disconnected backs nothing.                                                *)
LEMMA BeginRemovePathKeeps ==
  ASSUME GraphInv, NEW p \in paths, BeginRemovePath(p), UNCHANGED <<heap, modules>>
  PROVE  GraphInv' /\ half' \in paths' /\ Names' = Names
<1>. USE FlowGraphAssumption DEF GraphInv
<1>1. GraphTypeOK'
  BY DEF GraphTypeOK, BeginRemovePath, Path
<1>2. OneObjectPerModule'
  BY DEF OneObjectPerModule, Live
<1>3. paths' = paths /\ half' = p /\ paths' \cup Half' \subseteq paths
  BY DEF BeginRemovePath, Half
<1>4. PathsResolve'
  BY <1>3 DEF PathsResolve, Joinable, HasPort, KindOf, TypeOf, PortOf, Live
<1>5. ConnectionsListed'
  <2>1. SUFFICES ASSUME NEW x \in Port, conn'[x] # NoPort
                 PROVE  \E q \in paths' \cup Half' :
                          <<x, conn'[x]>> \in {<<q.from, q.to>>, <<q.to, q.from>>}
    BY DEF ConnectionsListed
  <2>2. x # p.from /\ conn'[x] = conn[x]
    BY <2>1 DEF GraphTypeOK, BeginRemovePath
  <2>3. PICK q \in paths \cup Half : <<x, conn[x]>> \in {<<q.from, q.to>>, <<q.to, q.from>>}
    BY <2>1, <2>2 DEF ConnectionsListed
  <2>4. q \in paths'
    BY <1>3 DEF BeginRemovePath, Half
  <2>. QED
    BY <2>2, <2>3, <2>4
<1>6. HalfDown'
  BY <1>3 DEF HalfDown, BeginRemovePath, GraphTypeOK, Path
<1>. QED
  BY <1>1, <1>2, <1>3, <1>4, <1>5, <1>6 DEF Names

(* The second step keeps it too: a port that is still connected afterwards is *)
(* on another path.                                                           *)
LEMMA EndRemovePathKeeps ==
  ASSUME GraphInv, half \in paths, EndRemovePath, UNCHANGED <<heap, modules>>
  PROVE  GraphInv' /\ half' = NoPath /\ Names' \subseteq Names
<1>. USE FlowGraphAssumption DEF GraphInv
<1>1. GraphTypeOK'
  BY DEF GraphTypeOK, EndRemovePath, Path
<1>2. OneObjectPerModule'
  BY DEF OneObjectPerModule, Live
<1>3. paths' \cup Half' \subseteq paths /\ paths' \cup Half' = paths \ {half}
  BY DEF EndRemovePath, Half
<1>4. PathsResolve'
  BY <1>3 DEF PathsResolve, Joinable, HasPort, KindOf, TypeOf, PortOf, Live
<1>5. ConnectionsListed'
  <2>1. SUFFICES ASSUME NEW x \in Port, conn'[x] # NoPort
                 PROVE  \E q \in paths' \cup Half' :
                          <<x, conn'[x]>> \in {<<q.from, q.to>>, <<q.to, q.from>>}
    BY DEF ConnectionsListed
  <2>2. x # half.to /\ conn'[x] = conn[x]
    BY <2>1 DEF GraphTypeOK, EndRemovePath
  <2>3. x # half.from
    BY <2>1, <2>2 DEF HalfDown
  <2>4. PICK q \in paths \cup Half : <<x, conn[x]>> \in {<<q.from, q.to>>, <<q.to, q.from>>}
    BY <2>1, <2>2 DEF ConnectionsListed
  <2>5. q # half
    BY <2>2, <2>3, <2>4
  <2>. QED
    BY <1>3, <2>2, <2>4, <2>5 DEF Half
<1>6. HalfDown'
  BY DEF HalfDown, EndRemovePath, GraphTypeOK
<1>. QED
  BY <1>1, <1>2, <1>4, <1>5, <1>6 DEF EndRemovePath, Names

(* The first step of addPath keeps the graph consistent: the port points to   *)
(* the other end of the path that is being made.                              *)
LEMMA BeginAddPathKeeps ==
  ASSUME GraphInv, NEW j \in Join, j \notin Names, Joinable(j), BeginAddPath(j),
         UNCHANGED <<heap, modules>>
  PROVE  GraphInv' /\ half' \in Path /\ half'.name = j /\ Names' = Names
<1>. USE FlowGraphAssumption DEF GraphInv
<1>. DEFINE f == PortOf(j.from)
            t == PortOf(j.to)
            new == [name |-> j, from |-> f, to |-> t]
<1>1. f \in Port /\ t \in Port
  BY DEF GraphTypeOK, Joinable, HasPort, Live, PortOf, Port, Join, Endpoint
<1>2. conn' = [conn EXCEPT ![f] = t] /\ paths' = paths /\ half = NoPath /\ half' = new
  BY DEF BeginAddPath
<1>3. GraphTypeOK' /\ new \in Path
  BY <1>1, <1>2 DEF GraphTypeOK, Path
<1>4. OneObjectPerModule'
  BY DEF OneObjectPerModule, Live
<1>n. new.name = j /\ new.from = f /\ new.to = t
  OBVIOUS
<1>5. new \notin paths
  BY <1>n DEF Names
<1>6. paths \cup Half = paths /\ paths' \cup Half' = paths \cup {new}
  BY <1>2, <1>3 DEF Half
<1>7. PathsResolve'
  <2>1. Joinable(j)' /\ f' = f /\ t' = t
    BY DEF Joinable, HasPort, KindOf, TypeOf, PortOf, Live
  <2>2. \A p \in paths : /\ Joinable(p.name)'
                         /\ p.from = PortOf(p.name.from)' /\ p.to = PortOf(p.name.to)'
    BY <1>6 DEF PathsResolve, Joinable, HasPort, KindOf, TypeOf, PortOf, Live
  <2>. QED
    BY <1>6, <2>1, <2>2 DEF PathsResolve
<1>8. ConnectionsListed'
  <2>1. SUFFICES ASSUME NEW x \in Port, conn'[x] # NoPort
                 PROVE  \E q \in paths \cup {new} :
                          <<x, conn'[x]>> \in {<<q.from, q.to>>, <<q.to, q.from>>}
    BY <1>6 DEF ConnectionsListed
  <2>2. CASE x = f
    <3>1. conn'[x] = t
      BY <1>1, <1>2, <2>2 DEF GraphTypeOK
    <3>. HIDE DEF new, f, t
    <3>. QED
      BY <2>2, <1>n, <3>1
  <2>3. CASE x # f
    <3>1. conn'[x] = conn[x]
      BY <1>2, <2>3 DEF GraphTypeOK
    <3>2. PICK q \in paths : <<x, conn[x]>> \in {<<q.from, q.to>>, <<q.to, q.from>>}
      BY <1>6, <2>1, <3>1 DEF ConnectionsListed
    <3>. QED
      BY <3>1, <3>2
  <2>. QED
    BY <2>2, <2>3
<1>9. HalfDown'
  BY <1>2, <1>5 DEF HalfDown
<1>. QED
  BY <1>2, <1>3, <1>4, <1>n, <1>7, <1>8, <1>9 DEF Names

(* The second step keeps it too: the ports it has connected are those of the  *)
(* path it lists.                                                             *)
LEMMA EndAddPathKeeps ==
  ASSUME GraphInv, EndAddPath, UNCHANGED <<heap, modules>>
  PROVE  GraphInv' /\ half' = NoPath /\ Names' = Names \cup {half.name}
<1>. USE FlowGraphAssumption DEF GraphInv
<1>1. half \in Path /\ half.from \in Port /\ half.to \in Port
  BY DEF GraphTypeOK, EndAddPath, Path
<1>2. /\ conn' = [conn EXCEPT ![half.to] = half.from]
      /\ paths' = paths \cup {half} /\ half' = NoPath
  BY DEF EndAddPath
<1>3. GraphTypeOK'
  BY <1>1, <1>2 DEF GraphTypeOK
<1>4. OneObjectPerModule'
  BY DEF OneObjectPerModule, Live
<1>5. paths' \cup Half' = paths \cup Half /\ half \in Half
  BY <1>2 DEF Half, EndAddPath
<1>6. PathsResolve'
  BY <1>5 DEF PathsResolve, Joinable, HasPort, KindOf, TypeOf, PortOf, Live
<1>7. ConnectionsListed'
  <2>1. SUFFICES ASSUME NEW x \in Port, conn'[x] # NoPort
                 PROVE  \E q \in paths \cup Half :
                          <<x, conn'[x]>> \in {<<q.from, q.to>>, <<q.to, q.from>>}
    BY <1>5 DEF ConnectionsListed
  <2>2. CASE x = half.to
    BY <1>1, <1>2, <1>5, <2>2 DEF GraphTypeOK
  <2>3. CASE x # half.to
    <3>1. conn'[x] = conn[x]
      BY <1>2, <2>3 DEF GraphTypeOK
    <3>. QED
      BY <2>1, <3>1 DEF ConnectionsListed
  <2>. QED
    BY <2>2, <2>3
<1>8. HalfDown'
  BY <1>2, <1>3 DEF HalfDown, GraphTypeOK
<1>9. Names' = Names \cup {half.name}
  <2>1. \A k : k \in Names' <=> k \in Names \/ k = half.name
    BY <1>2 DEF Names
  <2>. QED
    BY <2>1
<1>. QED
  BY <1>2, <1>3, <1>4, <1>6, <1>7, <1>8, <1>9

(* addModule keeps the graph consistent: the new object has an address of its *)
(* own, and its ports are not connected.                                      *)
LEMMA AddModuleKeeps ==
  ASSUME GraphInv, half = NoPath, NEW id \in Ids, id \notin Live, NEW type, NEW named,
         AddModule(id, type, named)
  PROVE  GraphInv' /\ Live \subseteq Live' /\ half' = NoPath /\ Names' = Names
<1>. USE FlowGraphAssumption DEF GraphInv
<1>1. CASE type \in Library
  <2>1. PICK o \in Objects : /\ heap[o] = NoType
                             /\ heap' = [heap EXCEPT ![o] = type]
                             /\ modules' = [modules EXCEPT ![id] = o]
                             /\ conn' = [x \in Port |-> IF x[1] = o THEN NoPort ELSE conn[x]]
    BY <1>1 DEF AddModule
  <2>2. paths' = paths /\ half' = NoPath /\ Half = {} /\ Half' = {}
    BY <1>1 DEF AddModule, Half
  <2>3. type \in Types /\ type # NoType
    BY <1>1 DEF Library
  <2>4. \A i \in Live : modules[i] # o /\ i # id
    BY <2>1 DEF OneObjectPerModule, Live
  <2>5. Live' = Live \cup {id}
    BY <2>1 DEF GraphTypeOK, Live
  <2>6. GraphTypeOK'
    BY <2>1, <2>2, <2>3 DEF GraphTypeOK
  <2>7. OneObjectPerModule'
    <3>1. \A x \in Objects : heap'[x] # NoType <=> \E i \in Ids : modules'[i] = x
      BY <2>1, <2>3 DEF OneObjectPerModule, GraphTypeOK, Live
    <3>2. \A i, k \in Live' : modules'[i] = modules'[k] => i = k
      BY <2>1, <2>4, <2>5 DEF OneObjectPerModule, GraphTypeOK, Live
    <3>. QED
      BY <3>1, <3>2 DEF OneObjectPerModule
  <2>8. PathsResolve'
    <3>1. \A i \in Live : i \in Live' /\ modules'[i] = modules[i] /\ TypeOf(i)' = TypeOf(i)
      BY <2>1, <2>4, <2>5 DEF GraphTypeOK, TypeOf, Live
    <3>2. ASSUME NEW p \in paths
          PROVE  /\ Joinable(p.name)'
                 /\ p.from = PortOf(p.name.from)' /\ p.to = PortOf(p.name.to)'
      BY <3>1 DEF PathsResolve, Joinable, HasPort, KindOf, PortOf
    <3>. QED
      BY <2>2, <3>2 DEF PathsResolve
  <2>9. ConnectionsListed'
    BY <2>1, <2>2 DEF ConnectionsListed, GraphTypeOK
  <2>10. HalfDown'
    BY <2>2, <2>6 DEF HalfDown, GraphTypeOK
  <2>. QED
    BY <2>2, <2>5, <2>6, <2>7, <2>8, <2>9, <2>10 DEF Names
<1>2. CASE type \notin Library
  <2>1. UNCHANGED graph
    BY <1>2 DEF AddModule
  <2>2. GraphTypeOK' /\ OneObjectPerModule' /\ ConnectionsListed' /\ HalfDown'
    BY <2>1 DEF graph, GraphTypeOK, OneObjectPerModule, ConnectionsListed, HalfDown, Half, Live
  <2>3. PathsResolve'
    BY <2>1 DEF graph, PathsResolve, Half, Joinable, HasPort, KindOf, TypeOf, PortOf, Live
  <2>. QED
    BY <2>1, <2>2, <2>3 DEF graph, TypeOf, Live, Names
<1>. QED
  BY <1>1, <1>2

(* The end of removeModule keeps the graph consistent: no path names the      *)
(* module any more, so no port is connected to one of its ports.              *)
LEMMA EraseModuleKeeps ==
  ASSUME GraphInv, target \in Live, EraseModule
  PROVE  GraphInv' /\ Live' = Live \ {target} /\ half' = NoPath
<1>. USE FlowGraphAssumption DEF GraphInv
<1>1. target \in Ids /\ modules[target] \in Objects
  BY DEF Live, GraphTypeOK
<1>2. /\ heap' = [heap EXCEPT ![modules[target]] = NoType]
      /\ modules' = [modules EXCEPT ![target] = NoObject]
      /\ conn' = conn /\ paths' = paths /\ Touching(target) = {}
      /\ half' = NoPath /\ Half = {} /\ Half' = {}
  BY DEF EraseModule, Half
<1>3. Live' = Live \ {target}
  BY <1>1, <1>2 DEF Live, GraphTypeOK
<1>4. GraphTypeOK'
  BY <1>1, <1>2 DEF GraphTypeOK
<1>5. \A i \in Live' : modules'[i] = modules[i] /\ modules[i] # modules[target]
  BY <1>1, <1>2, <1>3 DEF GraphTypeOK, OneObjectPerModule, Live
<1>6. OneObjectPerModule'
  <2>1. \A i, k \in Live' : modules'[i] = modules'[k] => i = k
    BY <1>3, <1>5 DEF OneObjectPerModule
  <2>2. ASSUME NEW o \in Objects
        PROVE  heap'[o] # NoType <=> \E i \in Ids : modules'[i] = o
    <3>1. CASE o = modules[target]
      BY <1>1, <1>2, <1>5, <3>1 DEF GraphTypeOK, Live
    <3>2. CASE o # modules[target]
      BY <1>1, <1>2, <3>2 DEF GraphTypeOK, OneObjectPerModule, Live
    <3>. QED
      BY <3>1, <3>2
  <2>. QED
    BY <2>1, <2>2 DEF OneObjectPerModule
<1>7. PathsResolve'
  <2>1. ASSUME NEW p \in paths
        PROVE  /\ p.name.from[1] \in Live' /\ p.name.to[1] \in Live'
               /\ Joinable(p.name)
               /\ p.from = PortOf(p.name.from) /\ p.to = PortOf(p.name.to)
    BY <1>2, <1>3 DEF PathsResolve, Joinable, HasPort, Touching
  <2>2. \A i \in Live' : TypeOf(i)' = TypeOf(i)
    BY <1>1, <1>2, <1>3, <1>5 DEF TypeOf, GraphTypeOK, Live
  <2>3. ASSUME NEW p \in paths
        PROVE  /\ Joinable(p.name)'
               /\ p.from = PortOf(p.name.from)' /\ p.to = PortOf(p.name.to)'
    BY <1>5, <2>1, <2>2 DEF Joinable, HasPort, KindOf, PortOf
  <2>. QED
    BY <1>2, <2>3 DEF PathsResolve
<1>8. ConnectionsListed'
  BY <1>2 DEF ConnectionsListed
<1>9. HalfDown'
  BY <1>2, <1>4 DEF HalfDown, GraphTypeOK
<1>. QED
  BY <1>2, <1>3, <1>4, <1>6, <1>7, <1>8, <1>9

LEMMA GraphUnchanged ==
  ASSUME GraphInv, UNCHANGED graph
  PROVE  GraphInv' /\ Live' = Live /\ half' = half /\ Names' = Names /\ paths' = paths
BY DEF graph, GraphInv, GraphTypeOK, OneObjectPerModule, PathsResolve, ConnectionsListed,
       HalfDown, Half, Names, Joinable, HasPort, KindOf, TypeOf, PortOf, Live

LEMMA InitInv == Init => Inv
<1>. SUFFICES ASSUME Init PROVE Inv
  OBVIOUS
<1>. USE FlowGraphAssumption
<1>1. TypeOK
  BY DEF Init, TypeOK, PCs
<1>2. GraphTypeOK /\ PathsResolve /\ ConnectionsListed /\ HalfDown /\ LoopInv
  BY DEF Init, GraphTypeOK, PathsResolve, ConnectionsListed, HalfDown, Half, LoopInv
<1>3. OneObjectPerModule
  <2>1. \A id \in Ids : modules[id] \in Objects => id \in Sockets
    BY DEF Init, Live
  <2>. QED
    BY <2>1 DEF Init, OneObjectPerModule, Live
<1>. QED
  BY <1>1, <1>2, <1>3 DEF Inv, GraphInv

----------------------------------------------------------------------------
(* Each action keeps Inv. *)

LEMMA MessageInv ==
  ASSUME Inv, Message
  PROVE  Inv'
<1>. USE FlowGraphAssumption DEF Inv
<1>h. half = NoPath
  BY DEF Message, SetModule, UnsetModule, SetPaths, Load, Save, LoopInv
<1>1. ASSUME NEW id \in Ids, NEW type \in Types, NEW named, SetModule(id, type, named)
      PROVE  Inv'
  <2>1. GraphInv' /\ half' = NoPath
    <3>1. CASE id \in Live
      BY <1>1, <1>h, <3>1, GraphUnchanged DEF SetModule, UpdateModule
    <3>2. CASE id \notin Live
      BY <1>1, <1>h, <3>2, AddModuleKeeps DEF SetModule
    <3>. QED
      BY <3>1, <3>2
  <2>2. TypeOK'
    <3>1. CASE id \in Live
      BY <1>1, <2>1, <3>1 DEF SetModule, UpdateModule, Deserialize, TypeOK, GraphInv,
                              GraphTypeOK, PCs
    <3>2. CASE id \notin Live
      BY <1>1, <2>1, <3>2 DEF SetModule, AddModule, Deserialize, TypeOK, GraphInv,
                              GraphTypeOK, broker, PCs
    <3>. QED
      BY <3>1, <3>2
  <2>3. LoopInv'
    BY <1>1, <2>1 DEF SetModule, AddModule, UpdateModule, Deserialize, LoopInv
  <2>. QED
    BY <2>1, <2>2, <2>3
<1>2. ASSUME NEW id \in Ids, UnsetModule(id)
      PROVE  Inv'
  <2>1. GraphInv' /\ Live' = Live /\ half' = NoPath
    BY <1>2, <1>h, GraphUnchanged DEF UnsetModule, BeginRemove, graph
  <2>2. TypeOK'
    BY <1>2 DEF UnsetModule, BeginRemove, TypeOK, PCs, graph
  <2>3. LoopInv'
    <3>1. CASE id \notin Live
      BY <1>2, <2>1, <3>1 DEF UnsetModule, LoopInv
    <3>2. CASE id \in Live
      BY <1>2, <2>1, <3>2 DEF UnsetModule, BeginRemove, LoopInv
    <3>. QED
      BY <3>1, <3>2
  <2>. QED
    BY <2>1, <2>2, <2>3
<1>3. ASSUME NEW r \in Requests, SetPaths(r)
      PROVE  Inv'
  BY <1>3, <1>h, GraphUnchanged DEF SetPaths, TypeOK, LoopInv, PCs, graph, broker
<1>4. ASSUME NEW d \in (Documents \cup {file}) \ {NoDoc}, Load(d)
      PROVE  Inv'
  <2>1. d \in Document
    BY DEF TypeOK
  <2>2. GraphInv' /\ Live' = Live /\ half' = NoPath
    BY <1>4, <1>h, GraphUnchanged DEF Load
  <2>. QED
    BY <1>4, <2>1, <2>2 DEF Load, TypeOK, LoopInv, PCs, graph, broker, Live
<1>5. ASSUME Save PROVE Inv'
  <2>1. GraphInv' /\ Live' = Live /\ half' = NoPath
    BY <1>5, <1>h, GraphUnchanged DEF Save
  <2>. QED
    BY <1>5, <2>1 DEF Save, TypeOK, LoopInv, Serialized, Document, Names, Path, TypeOf, Live,
                      graph, broker, control
<1>. QED
  BY <1>1, <1>2, <1>3, <1>4, <1>5 DEF Message

LEMMA HandlerStepInv ==
  ASSUME Inv, HandlerStep
  PROVE  Inv'
<1>. USE FlowGraphAssumption DEF Inv
<1>1. CASE UnlinkPath
  <2>1. (\E p \in paths : BeginRemovePath(p)) \/ (half \in paths /\ EndRemovePath)
    <3>1. EndRemovePath => half \in paths
      BY <1>1 DEF UnlinkPath, LoopInv, EndRemovePath
    <3>2. Touching(target) \subseteq paths
      BY DEF Touching
    <3>3. (\E p \in Touching(target) : BeginRemovePath(p)) \/ EndRemovePath
      BY <1>1 DEF UnlinkPath
    <3>. QED
      BY <3>1, <3>2, <3>3
  <2>2. GraphInv' /\ Live' = Live /\ (half' = NoPath \/ half' \in paths')
    BY <1>1, <2>1, BeginRemovePathKeeps, EndRemovePathKeeps DEF UnlinkPath, Live
  <2>. QED
    BY <1>1, <2>2 DEF UnlinkPath, TypeOK, GraphInv, GraphTypeOK, LoopInv, broker, control
<1>2. CASE EraseModule
  <2>1. target \in Live
    BY <1>2 DEF EraseModule, LoopInv
  <2>2. GraphInv' /\ Live' = Live \ {target} /\ half' = NoPath
    BY <1>2, <2>1, EraseModuleKeeps
  <2>3. shown' \subseteq Join
    BY <1>2 DEF EraseModule, Names, TypeOK, Path
  <2>4. TypeOK'
    BY <1>2, <2>2, <2>3 DEF EraseModule, TypeOK, GraphInv, GraphTypeOK, PCs
  <2>5. LoopInv'
    BY <1>2, <2>2 DEF EraseModule, LoopInv, TypeOK
  <2>. QED
    BY <2>2, <2>4, <2>5
<1>3. CASE PrunePath
  <2>1. (\E p \in paths : BeginRemovePath(p)) \/ (half \in paths /\ EndRemovePath)
    <3>1. EndRemovePath => half \in paths
      BY <1>3 DEF PrunePath, LoopInv, EndRemovePath
    <3>2. (\E p \in paths : Stale(p) /\ BeginRemovePath(p)) \/ EndRemovePath
      BY <1>3 DEF PrunePath
    <3>. QED
      BY <3>1, <3>2
  <2>2. GraphInv' /\ Live' = Live /\ (half' = NoPath \/ half' \in paths')
    BY <1>3, <2>1, BeginRemovePathKeeps, EndRemovePathKeeps DEF PrunePath, Live
  <2>. QED
    BY <1>3, <2>2 DEF PrunePath, TypeOK, GraphInv, GraphTypeOK, LoopInv, broker, control
<1>4. CASE PruneDone
  <2>1. GraphInv' /\ Live' = Live /\ half' = NoPath
    BY <1>4, GraphUnchanged DEF PruneDone, LoopInv
  <2>. QED
    BY <1>4, <2>1 DEF PruneDone, TypeOK, LoopInv, PCs, graph, broker
<1>5. CASE WirePath
  <2>1. /\ UNCHANGED <<heap, modules, broker, file, pc, ret, target, left, doc, wanted>>
        /\ Live' = Live /\ pc = "wire"
    BY <1>5 DEF WirePath, Live
  <2>2. CASE \E j \in request : j \notin Names /\ Joinable(j) /\ BeginAddPath(j)
                               /\ request' = request
    <3>1. PICK j \in request : j \notin Names /\ Joinable(j) /\ BeginAddPath(j)
                              /\ request' = request
      BY <2>2
    <3>2. GraphInv' /\ half' \in Path /\ half'.name = j /\ Names' = Names
      BY <2>1, <3>1, BeginAddPathKeeps DEF TypeOK
    <3>. QED
      BY <2>1, <3>1, <3>2 DEF TypeOK, GraphInv, GraphTypeOK, LoopInv, broker
  <2>3. CASE EndAddPath /\ request' = request \ {half.name}
    <3>1. GraphInv' /\ half' = NoPath
      BY <2>1, <2>3, EndAddPathKeeps
    <3>. QED
      BY <2>1, <2>3, <3>1 DEF TypeOK, GraphInv, GraphTypeOK, LoopInv, broker
  <2>4. CASE half = NoPath /\ UNCHANGED <<conn, paths, half>> /\ request' \subseteq request
    <3>1. GraphInv' /\ half' = NoPath
      BY <2>1, <2>4, GraphUnchanged DEF graph
    <3>. QED
      BY <2>1, <2>4, <3>1 DEF TypeOK, GraphInv, GraphTypeOK, LoopInv, broker
  <2>. QED
    BY <1>5, <2>2, <2>3, <2>4 DEF WirePath
<1>6. CASE WireDone
  <2>1. GraphInv' /\ Live' = Live /\ half' = NoPath
    BY <1>6, GraphUnchanged DEF WireDone, LoopInv
  <2>2. shown' \subseteq Join
    BY <1>6 DEF WireDone, Names, TypeOK, Path
  <2>. QED
    BY <1>6, <2>1, <2>2 DEF WireDone, TypeOK, LoopInv, PCs, graph
<1>7. CASE Advance
  <2>1. GraphInv' /\ Live' = Live /\ half' = NoPath
    BY <1>7, GraphUnchanged DEF Advance, LoopInv
  <2>2. DocIds(doc) \subseteq Ids
    BY DEF DocIds
  <2>. QED
    BY <1>7, <2>1, <2>2 DEF Advance, TypeOK, LoopInv, PCs, graph, broker
<1>8. CASE UnloadDone
  <2>1. GraphInv' /\ Live' = Live /\ half' = NoPath
    BY <1>8, GraphUnchanged DEF UnloadDone, LoopInv
  <2>2. DocIds(doc) \subseteq Ids
    BY DEF DocIds
  <2>. QED
    BY <1>8, <2>1, <2>2 DEF UnloadDone, TypeOK, LoopInv, PCs, graph, broker
<1>9. CASE InstallDone
  <2>1. GraphInv' /\ Live' = Live /\ half' = NoPath
    BY <1>9, GraphUnchanged DEF InstallDone, LoopInv
  <2>2. doc.paths \subseteq Join
    BY <1>9 DEF InstallDone, LoopInv, Document
  <2>. QED
    BY <1>9, <2>1, <2>2 DEF InstallDone, TypeOK, LoopInv, PCs, graph, broker
<1>10. CASE ClearDone
  <2>1. GraphInv' /\ Live' = Live /\ half' = NoPath
    BY <1>10, GraphUnchanged DEF ClearDone, LoopInv
  <2>. QED
    BY <1>10, <2>1 DEF ClearDone, TypeOK, LoopInv, PCs, graph, broker
<1>11. ASSUME NEW id \in Ids, UnloadModule(id)
       PROVE  Inv'
  <2>1. GraphInv' /\ Live' = Live /\ half' = NoPath
    BY <1>11, GraphUnchanged DEF UnloadModule, BeginRemove, graph, LoopInv
  <2>. QED
    BY <1>11, <2>1 DEF UnloadModule, BeginRemove, TypeOK, LoopInv, PCs, graph, broker
<1>12. ASSUME NEW id \in Ids, InstallModule(id)
       PROVE  Inv'
  <2>1. PICK named \in NamedIn(doc, id) :
          IF id \in Live THEN UpdateModule(id, named)
                        ELSE AddModule(id, doc.modules[id], named)
    BY <1>12 DEF InstallModule
  <2>2. half = NoPath
    BY <1>12 DEF InstallModule, LoopInv
  <2>3. GraphInv' /\ half' = NoPath
    <3>1. CASE id \in Live
      BY <2>1, <2>2, <3>1, GraphUnchanged DEF UpdateModule
    <3>2. CASE id \notin Live
      BY <2>1, <2>2, <3>2, AddModuleKeeps
    <3>. QED
      BY <3>1, <3>2
  <2>4. subs' \subseteq Ids /\ retained' \subseteq Ids /\ shown' = shown
    BY <2>1 DEF UpdateModule, AddModule, Deserialize, broker, TypeOK
  <2>5. pc' \in {"install", "crashed"}
    BY <1>12, <2>1 DEF InstallModule, UpdateModule, AddModule, Deserialize
  <2>6. TypeOK'
    BY <1>12, <2>3, <2>4, <2>5 DEF InstallModule, TypeOK, GraphInv, GraphTypeOK, PCs
  <2>7. LoopInv'
    BY <1>12, <2>3, <2>5 DEF InstallModule, LoopInv
  <2>. QED
    BY <2>3, <2>6, <2>7
<1>13. ASSUME NEW id \in Ids, ClearModule(id)
       PROVE  Inv'
  <2>1. GraphInv' /\ Live' = Live /\ half' = NoPath
    BY <1>13, GraphUnchanged DEF ClearModule, BeginRemove, graph, LoopInv
  <2>. QED
    BY <1>13, <2>1 DEF ClearModule, BeginRemove, TypeOK, LoopInv, PCs, graph
<1>. QED
  BY <1>1, <1>2, <1>3, <1>4, <1>5, <1>6, <1>7, <1>8, <1>9, <1>10, <1>11, <1>12, <1>13
     DEF HandlerStep

LEMMA StepInv == Inv /\ [Next]_vars => Inv'
<1>. SUFFICES ASSUME Inv, [Next]_vars PROVE Inv'
  OBVIOUS
<1>1. CASE UNCHANGED vars
  <2>1. GraphInv' /\ Live' = Live /\ half' = half /\ Names' = Names /\ paths' = paths
    BY <1>1, GraphUnchanged DEF Inv, vars
  <2>. QED
    BY <1>1, <2>1 DEF Inv, TypeOK, LoopInv, vars, graph, broker, control
<1>2. CASE Stop
  <2>1. GraphInv' /\ Live' = Live /\ half' = NoPath
    BY <1>2, GraphUnchanged DEF Inv, Stop, LoopInv
  <2>2. file' \in Document
    BY <1>2 DEF Inv, Stop, Serialized, Document, Names, TypeOf, TypeOK, Path, Live
  <2>. QED
    BY <1>2, <2>1, <2>2 DEF Inv, Stop, TypeOK, LoopInv, PCs, graph, broker, Live
<1>. QED
  BY <1>1, <1>2, MessageInv, HandlerStepInv DEF Next, Terminated

----------------------------------------------------------------------------
(* Every variable keeps its type, whatever the messages are.                  *)
THEOREM TypeCorrect == Spec => []TypeOK
<1>1. Inv => TypeOK
  BY DEF Inv
<1>. QED
  BY InitInv, StepInv, <1>1, PTL DEF Spec

(* A listed path joins the ports of the modules that have its ids now, at      *)
(* every step of every handler, and no two modules share an object.           *)
THEOREM PathsResolveAlways == Spec => [](OneObjectPerModule /\ PathsResolve)
<1>1. Inv => OneObjectPerModule /\ PathsResolve
  BY DEF Inv, GraphInv
<1>. QED
  BY InitInv, StepInv, <1>1, PTL DEF Spec

(* A port points to another only because a path joins the two that is listed, *)
(* or is being made, at every step of every handler.                          *)
THEOREM ConnectionsListedAlways == Spec => []ConnectionsListed
<1>1. Inv => ConnectionsListed
  BY DEF Inv, GraphInv
<1>. QED
  BY InitInv, StepInv, <1>1, PTL DEF Spec

(* At no point of any handler does a port point to a module that has been     *)
(* destroyed: what the packet thread reads from connected_port between two    *)
(* steps is a port that exists.                                               *)
THEOREM NoDanglingPortAlways == Spec => []NoDanglingPort
<1>1. Inv => NoDanglingPort
  <2>1. SUFFICES ASSUME Inv, NEW x \in Port, conn[x] # NoPort
                 PROVE  heap[x[1]] # NoType /\ heap[conn[x][1]] # NoType
    BY DEF NoDanglingPort
  <2>2. PICK p \in paths \cup Half : <<x, conn[x]>> \in {<<p.from, p.to>>, <<p.to, p.from>>}
    BY <2>1 DEF Inv, GraphInv, ConnectionsListed
  <2>3. /\ p.name.from[1] \in Live /\ p.from = PortOf(p.name.from)
        /\ p.name.to[1] \in Live /\ p.to = PortOf(p.name.to)
    BY <2>1 DEF Inv, GraphInv, PathsResolve, Joinable, HasPort
  <2>4. \A i \in Live : heap[modules[i]] # NoType
    BY <2>1 DEF Inv, GraphInv, GraphTypeOK, OneObjectPerModule, Live
  <2>5. heap[p.from[1]] # NoType /\ heap[p.to[1]] # NoType
    BY <2>3, <2>4 DEF PortOf
  <2>. QED
    BY <2>2, <2>5
<1>. QED
  BY InitInv, StepInv, <1>1, PTL DEF Spec

----------------------------------------------------------------------------
(* What the broker and the files hold, and what the loops have done so far.   *)

(* The module the running removeModule has withdrawn from the broker and not  *)
(* yet destroyed.                                                             *)
Withdrawn == IF pc = "unlink" THEN {target} ELSE {}

(* The broker has what is there, but for the module being removed and, while  *)
(* a loop over the paths runs, for the paths.                                 *)
BrokerInv ==
  /\ pc # "crashed" => retained = Live \ Withdrawn /\ subs = Live \ Withdrawn
  /\ pc \notin {"unlink", "prune", "wire", "crashed"} => shown = Names

(* A module that a message removes is no socket. *)
RemovalInv == pc = "unlink" /\ ret = "idle" => TypeOf(target) # SocketType

(* The second loop of updatePaths has made what can be made of the part of    *)
(* the list it is through with.                                               *)
WireInv ==
  pc = "wire" =>
    /\ Names \subseteq wanted /\ request \subseteq wanted
    /\ \A j \in wanted \ request : Joinable(j) => j \in Names

HandlerInv == BrokerInv /\ SavedGraphClosed /\ RemovalInv /\ WireInv

(* A step that leaves the graph and what is said of it keeps what is said.    *)
LEMMA SameGraph ==
  ASSUME UNCHANGED graph
  PROVE  /\ Live' = Live /\ Names' = Names
         /\ \A id : TypeOf(id)' = TypeOf(id)
         /\ \A j : Joinable(j)' = Joinable(j)
BY DEF graph, Live, Names, TypeOf, Joinable, HasPort, KindOf

(* The two handlers that keep a file write one that is closed.                *)
LEMMA SerializedClosed ==
  ASSUME Inv, file' = Serialized
  PROVE  SavedGraphClosed'
<1>1. \A id \in Live : heap[modules[id]] # NoType
  BY DEF Inv, GraphInv, GraphTypeOK, OneObjectPerModule, Live
<1>2. \A p \in paths : p.name.from[1] \in Live /\ p.name.to[1] \in Live
  BY DEF Inv, GraphInv, PathsResolve, Joinable, HasPort
<1>3. Live \subseteq DocIds(Serialized)
  BY <1>1 DEF DocIds, Serialized, TypeOf, Live
<1>4. \A j \in Serialized.paths : {j.from[1], j.to[1]} \subseteq DocIds(Serialized)
  BY <1>2, <1>3 DEF Serialized, Names
<1>. QED
  BY <1>4 DEF SavedGraphClosed, DocIds

(* addModule tells the broker of the module it makes, and of no other, unless *)
(* the description makes it throw.                                            *)
LEMMA AddModuleTold ==
  ASSUME Inv, half = NoPath, NEW id \in Ids, id \notin Live, NEW type, NEW named,
         AddModule(id, type, named)
  PROVE  /\ Names' = Names /\ shown' = shown
         /\ pc' = pc \/ pc' = "crashed"
         /\ retained = Live /\ subs = Live /\ pc' # "crashed"
              => retained' = Live' /\ subs' = Live'
<1>. USE FlowGraphAssumption
<1>1. CASE type \in Library
  <2>1. PICK o \in Objects : modules' = [modules EXCEPT ![id] = o]
    BY <1>1 DEF AddModule
  <2>2. Live' = Live \cup {id}
    BY <2>1 DEF Inv, GraphInv, GraphTypeOK, Live
  <2>. QED
    BY <1>1, <2>2 DEF AddModule, Deserialize, Names
<1>2. CASE type \notin Library
  BY <1>2, SameGraph DEF AddModule, broker
<1>. QED
  BY <1>1, <1>2

LEMMA HandlerInvInit == Init => HandlerInv
BY DEF Init, HandlerInv, BrokerInv, SavedGraphClosed, RemovalInv, WireInv, Withdrawn, Names, Live

LEMMA MessageHandlerInv ==
  ASSUME Inv, HandlerInv, Message
  PROVE  HandlerInv'
<1>. USE DEF HandlerInv, SavedGraphClosed
<1>1. ASSUME NEW id \in Ids, NEW type \in Types, NEW named, SetModule(id, type, named)
      PROVE  HandlerInv'
  <2>0. pc = "idle" /\ file' = file /\ half = NoPath
    BY <1>1 DEF SetModule, Inv, LoopInv
  <2>1. CASE id \in Live
    <3>1. UNCHANGED graph /\ subs' = subs /\ shown' = shown
      BY <1>1, <2>1 DEF SetModule, UpdateModule
    <3>2. \/ pc' = "idle" /\ retained' = retained \cup {id}
          \/ pc' = "crashed"
      BY <1>1, <2>1 DEF SetModule, UpdateModule, Deserialize
    <3>. QED
      BY <2>0, <2>1, <3>1, <3>2, SameGraph DEF BrokerInv, RemovalInv, WireInv, Withdrawn
  <2>2. CASE id \notin Live
    <3>1. AddModule(id, type, named)
      BY <1>1, <2>2 DEF SetModule
    <3>. QED
      BY <2>0, <2>2, <3>1, AddModuleTold DEF BrokerInv, RemovalInv, WireInv, Withdrawn
  <2>. QED
    BY <2>1, <2>2
<1>2. ASSUME NEW id \in Ids, UnsetModule(id)
      PROVE  HandlerInv'
  <2>1. UNCHANGED graph /\ shown' = shown /\ file' = file /\ pc = "idle"
    BY <1>2 DEF UnsetModule, BeginRemove, graph
  <2>2. CASE id \notin Live
    <3>1. pc' = "idle" /\ subs' = subs /\ retained' = retained \ {id}
      BY <1>2, <2>1, <2>2 DEF UnsetModule
    <3>. QED
      BY <2>1, <2>2, <3>1, SameGraph DEF BrokerInv, RemovalInv, WireInv, Withdrawn
  <2>3. CASE id \in Live
    <3>1. /\ TypeOf(id) # SocketType /\ pc' = "unlink" /\ target' = id
          /\ subs' = subs \ {id} /\ retained' = retained \ {id}
      BY <1>2, <2>3 DEF UnsetModule, BeginRemove
    <3>. QED
      BY <2>1, <3>1, SameGraph DEF BrokerInv, RemovalInv, WireInv, Withdrawn
  <2>. QED
    BY <2>2, <2>3
<1>3. ASSUME NEW r \in Requests, SetPaths(r)
      PROVE  HandlerInv'
  BY <1>3, SameGraph DEF SetPaths, broker, BrokerInv, RemovalInv, WireInv, Withdrawn
<1>4. ASSUME NEW d \in (Documents \cup {file}) \ {NoDoc}, Load(d)
      PROVE  HandlerInv'
  BY <1>4, SameGraph DEF Load, broker, BrokerInv, RemovalInv, WireInv, Withdrawn
<1>5. ASSUME Save PROVE HandlerInv'
  <2>1. SavedGraphClosed'
    BY <1>5, SerializedClosed DEF Save
  <2>. QED
    BY <1>5, <2>1, SameGraph
       DEF Save, broker, control, BrokerInv, RemovalInv, WireInv, Withdrawn
<1>. QED
  BY <1>1, <1>2, <1>3, <1>4, <1>5 DEF Message

LEMMA HandlerStepHandlerInv ==
  ASSUME Inv, HandlerInv, HandlerStep
  PROVE  HandlerInv'
<1>. USE DEF HandlerInv, SavedGraphClosed
<1>1. CASE UnlinkPath
  <2>1. Live' = Live /\ \A id : TypeOf(id)' = TypeOf(id)
    BY <1>1 DEF UnlinkPath, Live, TypeOf
  <2>. QED
    BY <1>1, <2>1
       DEF UnlinkPath, broker, control, BrokerInv, RemovalInv, WireInv, Withdrawn
<1>2. CASE EraseModule
  <2>1. target \in Live
    BY <1>2 DEF EraseModule, Inv, LoopInv
  <2>2. Live' = Live \ {target} /\ Names' = Names
    BY <1>2, <2>1, EraseModuleKeeps DEF EraseModule, Inv, Names
  <2>3. pc' \notin {"unlink", "prune", "wire"}
    BY <1>2 DEF EraseModule, Inv, TypeOK
  <2>. QED
    BY <1>2, <2>2, <2>3 DEF EraseModule, BrokerInv, RemovalInv, WireInv, Withdrawn
<1>3. CASE PrunePath
  <2>1. Live' = Live
    BY <1>3 DEF PrunePath, Live
  <2>. QED
    BY <1>3, <2>1 DEF PrunePath, broker, control, BrokerInv, RemovalInv, WireInv, Withdrawn
<1>4. CASE PruneDone
  <2>1. Names \subseteq wanted
    BY <1>4 DEF PruneDone, Stale, Names
  <2>. QED
    BY <1>4, <2>1, SameGraph
       DEF PruneDone, broker, BrokerInv, RemovalInv, WireInv, Withdrawn
<1>5. CASE WirePath
  <2>0. /\ UNCHANGED <<heap, modules, broker, file, pc, ret, target, left, doc, wanted>>
        /\ pc = "wire"
    BY <1>5 DEF WirePath
  <2>1. /\ pc' = "wire" /\ wanted' = wanted /\ Live' = Live
        /\ \A k \in wanted : Joinable(k)' <=> Joinable(k)
    BY <2>0 DEF Live, Joinable, HasPort, KindOf, TypeOf
  <2>w. Names \subseteq wanted /\ request \subseteq wanted
        /\ \A j \in wanted \ request : Joinable(j) => j \in Names
    BY <2>0 DEF WireInv
  <2>2. ASSUME Names' = Names, request' = request PROVE WireInv'
    BY <2>1, <2>w, <2>2 DEF WireInv
  <2>3. ASSUME EndAddPath, request' = request \ {half.name} PROVE WireInv'
    <3>1. Names' = Names \cup {half.name} /\ half.name \in request
      BY <2>0, <2>3, EndAddPathKeeps DEF Inv, LoopInv, EndAddPath
    <3>. QED
      BY <2>1, <2>w, <2>3, <3>1 DEF WireInv
  <2>4. ASSUME NEW j \in request, j \in Names \/ ~ Joinable(j),
               request' = request \ {j}, Names' = Names
        PROVE  WireInv'
    BY <2>1, <2>w, <2>4 DEF WireInv
  <2>5. WireInv'
    BY <1>5, <2>2, <2>3, <2>4 DEF WirePath, BeginAddPath, Names
  <2>. QED
    BY <2>0, <2>1, <2>5 DEF broker, BrokerInv, RemovalInv, Withdrawn
<1>6. CASE WireDone
  BY <1>6, SameGraph DEF WireDone, BrokerInv, RemovalInv, WireInv, Withdrawn
<1>7. CASE Advance
  BY <1>7, SameGraph DEF Advance, broker, BrokerInv, RemovalInv, WireInv, Withdrawn
<1>8. CASE UnloadDone
  BY <1>8, SameGraph DEF UnloadDone, broker, BrokerInv, RemovalInv, WireInv, Withdrawn
<1>9. CASE InstallDone
  BY <1>9, SameGraph DEF InstallDone, broker, BrokerInv, RemovalInv, WireInv, Withdrawn
<1>10. CASE ClearDone
  BY <1>10, SameGraph DEF ClearDone, broker, BrokerInv, RemovalInv, WireInv, Withdrawn
<1>11. ASSUME NEW id \in Ids, UnloadModule(id)
       PROVE  HandlerInv'
  <2>1. UNCHANGED graph
    BY <1>11 DEF UnloadModule, BeginRemove, graph
  <2>. QED
    BY <1>11, <2>1, SameGraph
       DEF UnloadModule, BeginRemove, broker, BrokerInv, RemovalInv, WireInv, Withdrawn
<1>12. ASSUME NEW id \in Ids, InstallModule(id)
       PROVE  HandlerInv'
  <2>0. pc = "install" /\ file' = file /\ half = NoPath
    BY <1>12 DEF InstallModule, Inv, LoopInv
  <2>1. PICK named \in NamedIn(doc, id) :
          IF id \in Live THEN UpdateModule(id, named)
                        ELSE AddModule(id, doc.modules[id], named)
    BY <1>12 DEF InstallModule
  <2>2. CASE id \in Live
    <3>1. UNCHANGED graph /\ subs' = subs /\ shown' = shown
      BY <2>1, <2>2 DEF UpdateModule
    <3>2. \/ pc' = "install" /\ retained' = retained \cup {id}
          \/ pc' = "crashed"
      BY <2>0, <2>1, <2>2 DEF UpdateModule, Deserialize
    <3>. QED
      BY <2>0, <2>2, <3>1, <3>2, SameGraph DEF BrokerInv, RemovalInv, WireInv, Withdrawn
  <2>3. CASE id \notin Live
    <3>1. AddModule(id, doc.modules[id], named)
      BY <2>1, <2>3
    <3>. QED
      BY <2>0, <2>3, <3>1, AddModuleTold DEF BrokerInv, RemovalInv, WireInv, Withdrawn
  <2>. QED
    BY <2>2, <2>3
<1>13. ASSUME NEW id \in Ids, ClearModule(id)
       PROVE  HandlerInv'
  <2>1. UNCHANGED graph
    BY <1>13 DEF ClearModule, BeginRemove, graph
  <2>. QED
    BY <1>13, <2>1, SameGraph
       DEF ClearModule, BeginRemove, BrokerInv, RemovalInv, WireInv, Withdrawn
<1>. QED
  BY <1>1, <1>2, <1>3, <1>4, <1>5, <1>6, <1>7, <1>8, <1>9, <1>10, <1>11, <1>12, <1>13
     DEF HandlerStep

LEMMA StepHandlerInv == Inv /\ HandlerInv /\ [Next]_vars => HandlerInv'
<1>. SUFFICES ASSUME Inv, HandlerInv, [Next]_vars PROVE HandlerInv'
  OBVIOUS
<1>. USE DEF HandlerInv, SavedGraphClosed
<1>1. CASE UNCHANGED vars
  BY <1>1, SameGraph DEF vars, broker, control, BrokerInv, RemovalInv, WireInv, Withdrawn
<1>2. CASE Stop
  <2>1. SavedGraphClosed'
    BY <1>2, SerializedClosed DEF Stop
  <2>. QED
    BY <1>2, <2>1, SameGraph DEF Stop, broker, BrokerInv, RemovalInv, WireInv, Withdrawn
<1>. QED
  BY <1>1, <1>2, MessageHandlerInv, HandlerStepHandlerInv DEF Next, Terminated

LEMMA InvAlways == Spec => [](Inv /\ HandlerInv)
BY InitInv, StepInv, HandlerInvInit, StepHandlerInv, PTL DEF Spec

(* Between two messages the broker holds the paths, the descriptions and the  *)
(* subscriptions of the modules there are, whatever the messages were.        *)
THEOREM BrokerMatchesAlways == Spec => []BrokerMatches
<1>1. Inv /\ HandlerInv => BrokerMatches
  BY DEF HandlerInv, BrokerInv, Withdrawn, BrokerMatches
<1>. QED
  BY InvAlways, <1>1, PTL

(* No graph file that is saved lists a path to a module it does not list.     *)
THEOREM SavedGraphsClosed == Spec => []SavedGraphClosed
<1>1. Inv /\ HandlerInv => SavedGraphClosed
  BY DEF HandlerInv
<1>. QED
  BY InvAlways, <1>1, PTL

(* No message but a load removes a socket.                                    *)
THEOREM SocketsStay == Spec => SocketsKept
<1>1. ASSUME Inv, HandlerInv, [Next]_vars,
             NEW id \in Ids, id \in Live, TypeOf(id) = SocketType, id \notin Live'
      PROVE  ret # "idle"
  <2>1. CASE EraseModule
    <3>1. target \in Live /\ pc = "unlink"
      BY <1>1, <2>1 DEF EraseModule, Inv, LoopInv
    <3>2. id = target
      BY <1>1, <2>1, <3>1, EraseModuleKeeps DEF Inv
    <3>. QED
      BY <1>1, <3>1, <3>2 DEF HandlerInv, RemovalInv
  <2>2. CASE ~EraseModule
    <3>1. Live \subseteq Live'
      <4>1. ASSUME NEW i \in Ids, NEW type, NEW named, half = NoPath, i \notin Live,
                   AddModule(i, type, named)
            PROVE  Live \subseteq Live'
        BY <1>1, <4>1, AddModuleKeeps DEF Inv
      <4>2. ASSUME NEW i \in Ids, NEW type, NEW named, SetModule(i, type, named)
            PROVE  Live \subseteq Live'
        BY <1>1, <4>1, <4>2, SameGraph DEF SetModule, UpdateModule, Inv, LoopInv
      <4>3. ASSUME NEW i \in Ids, InstallModule(i)
            PROVE  Live \subseteq Live'
        <5>1. half = NoPath
          BY <1>1, <4>3 DEF InstallModule, Inv, LoopInv
        <5>. QED
          BY <4>1, <4>3, <5>1, SameGraph DEF InstallModule, UpdateModule
      <4>4. \/ modules' = modules
            \/ \E i \in Ids : \E type, named : SetModule(i, type, named)
            \/ \E i \in Ids : InstallModule(i)
        BY <1>1, <2>2 DEF Next, Message, HandlerStep, vars, graph, Terminated, Stop,
             UnsetModule, BeginRemove, SetPaths, Load, Save, UnlinkPath, PrunePath, PruneDone,
             WirePath, WireDone, Advance, UnloadDone, InstallDone, ClearDone, UnloadModule,
             ClearModule
      <4>. QED
        BY <4>2, <4>3, <4>4 DEF Live
    <3>. QED
      BY <1>1, <3>1
  <2>. QED
    BY <2>1, <2>2
<1>2. Inv /\ HandlerInv /\ [Next]_vars
        => [\A id \in Ids :
              id \in Live /\ TypeOf(id) = SocketType /\ id \notin Live' => ret # "idle"]_vars
  BY <1>1
<1>. QED
  BY InvAlways, <1>2, PTL DEF Spec, SocketsKept

(* updatePaths ends with exactly the paths asked for that can be made: the    *)
(* loops over a list that is changed meanwhile miss none.                     *)
THEOREM RequestsApplied == Spec => RequestApplied
<1>1. ASSUME Inv, HandlerInv, WireDone
      PROVE  Names = {j \in wanted : Joinable(j)}
  <2>1. \A j \in Names : Joinable(j)
    BY <1>1 DEF Inv, GraphInv, PathsResolve, Names
  <2>. QED
    BY <1>1, <2>1 DEF HandlerInv, WireInv, WireDone
<1>2. Inv /\ HandlerInv /\ [Next]_vars
        => [WireDone => Names = {j \in wanted : Joinable(j)}]_vars
  BY <1>1
<1>. QED
  BY InvAlways, <1>2, PTL DEF Spec, RequestApplied
----------------------------------------------------------------------------
(* While no list has had two paths on a port, no two paths meet at a port,    *)
(* listed or asked for.  While updatePaths adds paths the listed ones are     *)
(* among those asked for (WireInv): a path that is added takes its two ports  *)
(* from no other, and the first of them keeps it until the second is taken.   *)
HalfUp == half # NoPath /\ half \notin paths => conn[half.from] = half.to
ExclusiveInv ==
  ~ shared => Matching(wanted) /\ Matching(Names) /\ PathsWired /\ HalfUp

(* Ends of two paths that do not meet are different ports. *)
LEMMA PortsApart ==
  ASSUME GraphInv, NEW i \in Join, NEW j \in Join, Joinable(i), Joinable(j),
         Ends(i) \cap Ends(j) = {}
  PROVE  {PortOf(i.from), PortOf(i.to)} \cap {PortOf(j.from), PortOf(j.to)} = {}
<1>1. \A e, f \in Endpoint : HasPort(e) /\ HasPort(f) /\ PortOf(e) = PortOf(f) => e = f
  BY DEF GraphInv, OneObjectPerModule, HasPort, PortOf, Endpoint
<1>2. /\ HasPort(i.from) /\ HasPort(i.to) /\ HasPort(j.from) /\ HasPort(j.to)
      /\ i.from \in Endpoint /\ i.to \in Endpoint /\ j.from \in Endpoint /\ j.to \in Endpoint
  BY DEF Joinable, Join
<1>. QED
  BY <1>1, <1>2 DEF Ends

(* A path has two ports, which its module ids and port ids tell. *)
LEMMA PathPorts ==
  ASSUME GraphInv, NEW p \in paths
  PROVE  /\ p.name \in Join /\ p.name \in Names /\ Joinable(p.name)
         /\ p.from = PortOf(p.name.from) /\ p.to = PortOf(p.name.to)
         /\ p.from \in Port /\ p.to \in Port
         /\ p = [name |-> p.name, from |-> p.from, to |-> p.to]
BY DEF GraphInv, GraphTypeOK, PathsResolve, Path, Names

(* The same of the path that is being made. *)
LEMMA HalfPorts ==
  ASSUME GraphInv, half # NoPath
  PROVE  /\ half.name \in Join /\ Joinable(half.name)
         /\ half.from = PortOf(half.name.from) /\ half.to = PortOf(half.name.to)
         /\ half.from \in Port /\ half.to \in Port
         /\ half = [name |-> half.name, from |-> half.from, to |-> half.to]
BY DEF GraphInv, GraphTypeOK, PathsResolve, Path, Half

(* The ends of a path that can be made are two. *)
LEMMA EndsApart ==
  ASSUME GraphInv, NEW j \in Join, Joinable(j)
  PROVE  PortOf(j.from) # PortOf(j.to)
<1>1. KindOf(j.from) # KindOf(j.to)
  BY DEF Joinable, Compatible
<1>2. /\ j.from \in Endpoint /\ j.to \in Endpoint
      /\ j.from[1] \in Live /\ j.to[1] \in Live
  BY DEF Joinable, HasPort, Join
<1>3. ASSUME PortOf(j.from) = PortOf(j.to) PROVE FALSE
  BY <1>1, <1>2, <1>3 DEF PortOf, KindOf, TypeOf
<1>. QED
  BY <1>3

(* Two listed paths that do not meet have no port in common. *)
LEMMA PathsApart ==
  ASSUME GraphInv, Matching(Names), NEW p \in paths, NEW r \in paths, r # p
  PROVE  {r.from, r.to} \cap {p.from, p.to} = {}
<1>1. r.name # p.name
  BY PathPorts
<1>2. Ends(r.name) \cap Ends(p.name) = {}
  BY <1>1, PathPorts DEF Matching
<1>. QED
  BY <1>2, PathPorts, PortsApart

(* removePath leaves the connections of the other paths, in both its steps. *)
LEMMA BeginRemovePathWired ==
  ASSUME GraphInv, Matching(Names), PathsWired, NEW p \in paths, BeginRemovePath(p)
  PROVE  PathsWired' /\ HalfUp'
<1>1. half = NoPath /\ half' = p /\ paths' = paths /\ conn' = [conn EXCEPT ![p.from] = NoPort]
  BY DEF BeginRemovePath
<1>2. ASSUME NEW r \in paths, r # p
      PROVE  conn'[r.from] = r.to /\ conn'[r.to] = r.from
  <2>1. conn'[r.from] = conn[r.from] /\ conn'[r.to] = conn[r.to]
    BY <1>1, <1>2, PathPorts, PathsApart DEF GraphInv, GraphTypeOK
  <2>2. r \in paths \ Half
    BY <1>1 DEF Half
  <2>. QED
    BY <2>1, <2>2 DEF PathsWired
<1>3. p # NoPath
  BY FlowGraphAssumption DEF GraphInv, GraphTypeOK
<1>4. \A r \in paths' \ Half' : r \in paths /\ r # p
  BY <1>1, <1>3 DEF Half
<1>. QED
  BY <1>1, <1>2, <1>4 DEF PathsWired, HalfUp

LEMMA EndRemovePathWired ==
  ASSUME GraphInv, Matching(Names), PathsWired, half \in paths, EndRemovePath
  PROVE  PathsWired' /\ HalfUp'
<1>1. /\ half' = NoPath /\ paths' = paths \ {half}
      /\ conn' = [conn EXCEPT ![half.to] = NoPort]
  BY DEF EndRemovePath
<1>2. ASSUME NEW r \in paths, r # half
      PROVE  conn'[r.from] = r.to /\ conn'[r.to] = r.from
  <2>1. conn'[r.from] = conn[r.from] /\ conn'[r.to] = conn[r.to]
    BY <1>1, <1>2, PathPorts, PathsApart DEF GraphInv, GraphTypeOK
  <2>2. r \in paths \ Half
    BY <1>2 DEF Half
  <2>. QED
    BY <2>1, <2>2 DEF PathsWired
<1>. QED
  BY <1>1, <1>2 DEF PathsWired, HalfUp

(* addPath leaves the connections of the paths that do not meet the new one. *)
LEMMA BeginAddPathWired ==
  ASSUME GraphInv, PathsWired, NEW j \in Join, Joinable(j), BeginAddPath(j),
         \A n \in Names : Ends(n) \cap Ends(j) = {}
  PROVE  PathsWired' /\ HalfUp'
<1>. DEFINE f == PortOf(j.from)
            t == PortOf(j.to)
            new == [name |-> j, from |-> f, to |-> t]
<1>1. f \in Port
  BY DEF GraphInv, GraphTypeOK, Joinable, HasPort, Live, PortOf, Port, Join, Endpoint
<1>2. half = NoPath /\ half' = new /\ conn' = [conn EXCEPT ![f] = t] /\ paths' = paths
  BY DEF BeginAddPath
<1>3. conn \in [Port -> Port \cup {NoPort}]
  BY DEF GraphInv, GraphTypeOK
<1>4. ASSUME NEW r \in paths
      PROVE  r # NoPath /\ conn'[r.from] = r.to /\ conn'[r.to] = r.from
  <2>0. r # NoPath
    BY FlowGraphAssumption DEF GraphInv, GraphTypeOK
  <2>1. {r.from, r.to} \cap {f, t} = {}
    BY PathPorts, PortsApart
  <2>2. r.from \in Port /\ r.to \in Port
    BY PathPorts
  <2>3. conn'[r.from] = conn[r.from] /\ conn'[r.to] = conn[r.to]
    BY <1>2, <1>3, <2>1, <2>2
  <2>4. r \in paths \ Half
    BY <1>2, <2>0 DEF Half
  <2>. QED
    BY <2>0, <2>3, <2>4 DEF PathsWired
<1>5. conn'[f] = t
  BY <1>1, <1>2, <1>3
<1>n. new.from = f /\ new.to = t
  OBVIOUS
<1>. HIDE DEF f, t, new
<1>. QED
  BY <1>2, <1>4, <1>5, <1>n DEF PathsWired, HalfUp

LEMMA EndAddPathWired ==
  ASSUME GraphInv, PathsWired, HalfUp, half \notin paths, EndAddPath,
         \A n \in Names : Ends(n) \cap Ends(half.name) = {}
  PROVE  PathsWired' /\ HalfUp'
<1>1. /\ half # NoPath /\ half' = NoPath /\ paths' = paths \cup {half}
      /\ conn' = [conn EXCEPT ![half.to] = half.from]
  BY DEF EndAddPath
<1>2. half.from \in Port /\ half.to \in Port /\ half.from # half.to
  BY <1>1, HalfPorts, EndsApart
<1>3. conn \in [Port -> Port \cup {NoPort}]
  BY DEF GraphInv, GraphTypeOK
<1>4. conn'[half.from] = half.to /\ conn'[half.to] = half.from
  BY <1>1, <1>2, <1>3 DEF HalfUp
<1>5. ASSUME NEW r \in paths
      PROVE  conn'[r.from] = r.to /\ conn'[r.to] = r.from
  <2>1. {r.from, r.to} \cap {half.from, half.to} = {}
    BY <1>1, HalfPorts, PathPorts, PortsApart
  <2>2. r.from \in Port /\ r.to \in Port
    BY PathPorts
  <2>3. conn'[r.from] = conn[r.from] /\ conn'[r.to] = conn[r.to]
    BY <1>1, <1>3, <2>1, <2>2
  <2>4. r \in paths \ Half
    BY DEF Half
  <2>. QED
    BY <2>3, <2>4 DEF PathsWired
<1>. QED
  BY <1>1, <1>4, <1>5 DEF PathsWired, HalfUp

(* addModule takes an address no path is at. *)
LEMMA AddModuleWired ==
  ASSUME GraphInv, half = NoPath, PathsWired, NEW id, NEW type, NEW named,
         AddModule(id, type, named)
  PROVE  PathsWired' /\ HalfUp'
<1>1. CASE type \notin Library
  BY <1>1 DEF AddModule, graph, PathsWired, HalfUp, Half
<1>2. CASE type \in Library
  <2>1. PICK o \in Objects : /\ heap[o] = NoType
                             /\ conn' = [x \in Port |-> IF x[1] = o THEN NoPort ELSE conn[x]]
    BY <1>2 DEF AddModule
  <2>2. paths' = paths /\ half' = NoPath /\ Half' = Half
    BY <1>2 DEF AddModule, Half
  <2>3. ASSUME NEW r \in paths
        PROVE  r.from[1] # o /\ r.to[1] # o
    <3>1. /\ r.name.from[1] \in Live /\ r.name.to[1] \in Live
          /\ r.from[1] = modules[r.name.from[1]] /\ r.to[1] = modules[r.name.to[1]]
      BY PathPorts DEF Joinable, HasPort, PortOf
    <3>2. \A k \in Live : modules[k] # o
      BY <2>1 DEF GraphInv, OneObjectPerModule, Live
    <3>. QED
      BY <3>1, <3>2
  <2>4. ASSUME NEW r \in paths
        PROVE  conn'[r.from] = conn[r.from] /\ conn'[r.to] = conn[r.to]
    BY <2>1, <2>3, PathPorts
  <2>. QED
    BY <2>2, <2>4 DEF PathsWired, HalfUp
<1>. QED
  BY <1>1, <1>2

(* A step that leaves the paths and their connections keeps ExclusiveInv,     *)
(* whatever list it asks for.                                                 *)
LEMMA ExclusiveKept ==
  ASSUME ExclusiveInv, PathsWired /\ HalfUp => PathsWired' /\ HalfUp', Names' = Names,
         shared' = (shared \/ ~ Matching(wanted'))
  PROVE  ExclusiveInv'
BY DEF ExclusiveInv, Matching

LEMMA ExclusiveStep ==
  ASSUME Inv, HandlerInv, ExclusiveInv, [HistoryNext]_<<vars, shared>>
  PROVE  ExclusiveInv'
<1>g. GraphInv
  BY DEF Inv
<1>. DEFINE Hist == shared' = (shared \/ ~ Matching(wanted'))
<1>1. ASSUME UNCHANGED <<conn, paths, half>>, Hist PROVE ExclusiveInv'
  BY <1>1, ExclusiveKept DEF PathsWired, HalfUp, Half, Names
<1>2. CASE /\ Hist /\ wanted' = wanted /\ UNCHANGED <<heap, modules>>
           /\ (\E p \in paths : BeginRemovePath(p)) \/ (half \in paths /\ EndRemovePath)
  <2>1. SUFFICES ASSUME ~ shared'
                 PROVE  Matching(wanted') /\ Matching(Names') /\ PathsWired' /\ HalfUp'
    BY DEF ExclusiveInv
  <2>2. Matching(wanted) /\ Matching(Names) /\ PathsWired
    BY <1>2, <2>1 DEF ExclusiveInv
  <2>3. PathsWired' /\ HalfUp'
    BY <1>2, <1>g, <2>2, BeginRemovePathWired, EndRemovePathWired
  <2>4. Names' \subseteq Names
    BY <1>2, <1>g, BeginRemovePathKeeps, EndRemovePathKeeps
  <2>. QED
    BY <1>2, <2>2, <2>3, <2>4 DEF Matching
<1>3. ASSUME half = NoPath, NEW id, NEW type, NEW named, AddModule(id, type, named), Hist
      PROVE  ExclusiveInv'
  <2>1. PathsWired => PathsWired' /\ HalfUp'
    BY <1>3, <1>g, AddModuleWired
  <2>2. Names' = Names
    BY <1>3 DEF AddModule, graph, Names
  <2>. QED
    BY <1>3, <2>1, <2>2, ExclusiveKept
<1>4. ASSUME WirePath, Hist PROVE ExclusiveInv'
  <2>1. wanted' = wanted /\ UNCHANGED <<heap, modules>> /\ pc = "wire"
    BY <1>4 DEF WirePath
  <2>2. Names \subseteq wanted /\ request \subseteq wanted /\ wanted \subseteq Join
    BY <2>1 DEF HandlerInv, WireInv, Inv, TypeOK
  <2>3. SUFFICES ASSUME ~ shared'
                 PROVE  Matching(wanted') /\ Matching(Names') /\ PathsWired' /\ HalfUp'
    BY DEF ExclusiveInv
  <2>4. CASE UNCHANGED <<conn, paths, half>>
    BY <1>1, <1>4, <2>3, <2>4 DEF ExclusiveInv
  <2>5. Matching(wanted) /\ PathsWired /\ HalfUp
    BY <1>4, <2>3 DEF ExclusiveInv
  <2>6. CASE \E j \in request : j \notin Names /\ Joinable(j) /\ BeginAddPath(j)
    <3>1. PICK j \in request : j \notin Names /\ Joinable(j) /\ BeginAddPath(j)
      BY <2>6
    <3>2. \A n \in Names : Ends(n) \cap Ends(j) = {}
      BY <2>2, <2>5, <3>1 DEF Matching
    <3>3. PathsWired' /\ HalfUp' /\ Names' = Names
      BY <1>g, <2>1, <2>2, <2>5, <3>1, <3>2, BeginAddPathWired, BeginAddPathKeeps
    <3>. QED
      BY <2>1, <2>2, <2>5, <3>3 DEF Matching
  <2>7. CASE EndAddPath
    <3>1. half.name \in wanted /\ half.name \notin Names
      BY <2>1, <2>2, <2>7 DEF Inv, LoopInv, EndAddPath
    <3>n. half \notin paths
      BY <3>1 DEF Names
    <3>2. \A n \in Names : Ends(n) \cap Ends(half.name) = {}
      BY <2>2, <2>5, <3>1 DEF Matching
    <3>3. PathsWired' /\ HalfUp' /\ Names' = Names \cup {half.name}
      BY <1>g, <2>1, <2>5, <2>7, <3>1, <3>n, <3>2, EndAddPathWired, EndAddPathKeeps
    <3>4. Names' \subseteq wanted
      BY <2>2, <3>1, <3>3
    <3>. QED
      BY <2>1, <2>5, <3>3, <3>4 DEF Matching
  <2>. QED
    BY <1>4, <2>4, <2>6, <2>7 DEF WirePath
<1>5. CASE HandlerStep /\ Hist
  <2>1. CASE UnlinkPath \/ PrunePath
    <3>1. EndRemovePath => half \in paths
      BY <2>1 DEF UnlinkPath, PrunePath, Inv, LoopInv, EndRemovePath
    <3>2. Touching(target) \subseteq paths
      BY DEF Touching
    <3>3. \/ \E p \in Touching(target) : BeginRemovePath(p)
          \/ \E p \in paths : Stale(p) /\ BeginRemovePath(p)
          \/ EndRemovePath
      BY <2>1 DEF UnlinkPath, PrunePath
    <3>4. (\E p \in paths : BeginRemovePath(p)) \/ (half \in paths /\ EndRemovePath)
      BY <3>1, <3>2, <3>3
    <3>5. wanted' = wanted /\ UNCHANGED <<heap, modules>>
      BY <2>1 DEF UnlinkPath, PrunePath, control
    <3>. QED
      BY <1>2, <1>5, <3>4, <3>5
  <2>2. ASSUME NEW id \in Ids, InstallModule(id) PROVE ExclusiveInv'
    <3>0. half = NoPath
      BY <2>2 DEF InstallModule, Inv, LoopInv
    <3>1. CASE id \in Live
      BY <1>1, <1>5, <2>2, <3>1 DEF InstallModule, UpdateModule, graph
    <3>2. CASE id \notin Live
      BY <1>3, <1>5, <2>2, <3>0, <3>2 DEF InstallModule
    <3>. QED
      BY <3>1, <3>2
  <2>3. CASE EraseModule \/ PruneDone \/ WireDone \/ Advance \/ UnloadDone
             \/ InstallDone \/ ClearDone
    BY <1>1, <1>5, <2>3 DEF EraseModule, PruneDone, WireDone, Advance, UnloadDone,
                            InstallDone, ClearDone, graph
  <2>4. ASSUME NEW id \in Ids, UnloadModule(id) \/ ClearModule(id) PROVE ExclusiveInv'
    BY <1>1, <1>5, <2>4 DEF UnloadModule, ClearModule, BeginRemove, graph
  <2>. QED
    BY <1>4, <1>5, <2>1, <2>2, <2>3, <2>4 DEF HandlerStep
<1>6. CASE Message /\ Hist
  <2>1. ASSUME NEW id \in Ids, NEW type, NEW named, SetModule(id, type, named)
        PROVE  ExclusiveInv'
    <3>0. half = NoPath
      BY <2>1 DEF SetModule, Inv, LoopInv
    <3>1. CASE id \in Live
      BY <1>1, <1>6, <2>1, <3>1 DEF SetModule, UpdateModule, graph
    <3>2. CASE id \notin Live
      BY <1>3, <1>6, <2>1, <3>0, <3>2 DEF SetModule
    <3>. QED
      BY <3>1, <3>2
  <2>2. ASSUME NEW id \in Ids, UnsetModule(id) PROVE ExclusiveInv'
    BY <1>1, <1>6, <2>2 DEF UnsetModule, BeginRemove, graph
  <2>3. ASSUME NEW r \in Requests, SetPaths(r) PROVE ExclusiveInv'
    BY <1>1, <1>6, <2>3 DEF SetPaths, graph
  <2>4. ASSUME NEW d \in (Documents \cup {file}) \ {NoDoc}, Load(d) PROVE ExclusiveInv'
    BY <1>1, <1>6, <2>4 DEF Load, graph
  <2>5. CASE Save
    BY <1>1, <1>6, <2>5 DEF Save, graph
  <2>. QED
    BY <1>6, <2>1, <2>2, <2>3, <2>4, <2>5 DEF Message
<1>7. CASE (Stop \/ Terminated) /\ Hist
  BY <1>1, <1>7 DEF Stop, Terminated, graph, vars
<1>8. CASE UNCHANGED <<vars, shared>>
  BY <1>8 DEF vars, graph, control, ExclusiveInv, Matching, PathsWired, HalfUp, Half, Names
<1>. QED
  BY <1>5, <1>6, <1>7, <1>8 DEF HistoryNext, Next

(* As long as no list asked for has two paths on a port, a listed path is one *)
(* packets can take, at every step of every handler, whatever lists, loads    *)
(* and removals came before (updatePaths, ModuleManager.cpp:385; Port.hpp).   *)
THEOREM PathsStayWired == HistorySpec => []PathsWiredUnlessShared
<1>1. HistorySpec => Spec
  <2>1. HistoryInit => Init
    BY DEF HistoryInit
  <2>2. [HistoryNext]_<<vars, shared>> => [Next]_vars
    BY DEF HistoryNext
  <2>. QED
    BY <2>1, <2>2, PTL DEF HistorySpec, Spec
<1>2. HistoryInit => ExclusiveInv
  BY DEF HistoryInit, Init, ExclusiveInv, Matching, PathsWired, HalfUp, Names
<1>3. Inv /\ HandlerInv /\ ExclusiveInv /\ [HistoryNext]_<<vars, shared>> => ExclusiveInv'
  BY ExclusiveStep
<1>4. ExclusiveInv => PathsWiredUnlessShared
  BY DEF ExclusiveInv, PathsWiredUnlessShared
<1>. QED
  BY <1>1, <1>2, <1>3, <1>4, InvAlways, PTL DEF HistorySpec
=============================================================================
