------------------------- MODULE EditorSync_proofs -------------------------
(***************************************************************************)
(* Proofs about EditorSync, for any modules, ports, pages, gestures and    *)
(* losses: what a page keeps of its own objects, whatever messages reach   *)
(* it between which gestures; that the lists of the server have one path a *)
(* port unless a page had two; and that a page whose messages are answered *)
(* and handled shows what the server has.                                  *)
(***************************************************************************)
EXTENDS EditorSync, SequenceTheorems, FiniteSetTheorems, TLAPS

(* What is on its way: the paths of a list join ports that fit. *)
GoodJoin == {j \in Join : Compatible(j.from, j.to)}
Exclusive(names) == \A i, j \in names : i # j => Ends(i) \cap Ends(j) = {}

ModuleMessage == [type : {"module"}, id : Ids, place : Places \cup {Away}]
Told == ModuleMessage \cup [type : {"paths"}, names : SUBSET GoodJoin]
ToldOnce ==
  ModuleMessage \cup [type : {"paths"}, names : {N \in SUBSET GoodJoin : Exclusive(N)}]

(* The invariant of a page. *)
Rooted(pg) == \A i \in Slots : \A p \in Ends(pg.paths[i]) : Owner[p] \in Shown(pg)

Wired(pg) ==
  /\ \A p \in Ports : pg.connected[p] # Undefined => p \in Ends(pg.paths[pg.connected[p]])
  /\ ~pg.overlaid => \A i \in Slots : \A p \in Ends(pg.paths[i]) : pg.connected[p] = i

Hanging(pg) ==
  \A i \in Slots : i = pg.loose <=> (pg.paths[i].from = NoPort) # (pg.paths[i].to = NoPort)

Held(pg) == {pg.selected, pg.dragged} \subseteq Shown(pg) \cup {NoId}

Fitting(pg) == \A i \in Slots : pg.paths[i] \in Join => pg.paths[i] \in GoodJoin

Said(pg) == pg.sent \in Seq(Told) /\ (~pg.overlaid => pg.sent \in Seq(ToldOnce))

PageInv(pg) ==
  /\ pg \in Page
  /\ Rooted(pg) /\ Wired(pg) /\ Hanging(pg) /\ Held(pg) /\ Fitting(pg) /\ Said(pg)

----------------------------------------------------------------------------
(* The operators of NodeEditor keep the invariant of the page.             *)

LEMMA RemovePathsFields ==
  ASSUME NEW pg \in Page, NEW S \in SUBSET Slots
  PROVE  LET r == RemovePaths(pg, S)
         IN  /\ r \in Page
             /\ r.nodes = pg.nodes /\ r.selected = pg.selected /\ r.dragged = pg.dragged
             /\ r.sent = pg.sent /\ r.thrown = pg.thrown /\ r.overlaid = pg.overlaid
             /\ \A i \in Slots : r.paths[i] = IF i \in S THEN NoPath ELSE pg.paths[i]
             /\ \A p \in Ports : r.connected[p] =
                  IF \E i \in S : p \in Ends(pg.paths[i]) THEN Undefined ELSE pg.connected[p]
             /\ r.loose = IF pg.loose \in S THEN Undefined ELSE pg.loose
BY DEF RemovePaths, Page, NoPath, Path

(* removePath takes a path off the list and off its ports. *)
LEMMA RemovePathsKeeps ==
  ASSUME NEW pg, PageInv(pg), NEW S \in SUBSET Slots
  PROVE  PageInv(RemovePaths(pg, S))
<1>. DEFINE r == RemovePaths(pg, S)
<1>. USE NodeEditorAssumption DEF PageInv
<1>1. /\ r \in Page
      /\ r.nodes = pg.nodes /\ r.selected = pg.selected /\ r.dragged = pg.dragged
      /\ r.sent = pg.sent /\ r.overlaid = pg.overlaid
      /\ \A i \in Slots : r.paths[i] = IF i \in S THEN NoPath ELSE pg.paths[i]
      /\ \A p \in Ports : r.connected[p] =
           IF \E i \in S : p \in Ends(pg.paths[i]) THEN Undefined ELSE pg.connected[p]
      /\ r.loose = IF pg.loose \in S THEN Undefined ELSE pg.loose
  BY RemovePathsFields
<1>. HIDE DEF r
<1>2. Ends(NoPath) = {} /\ NoPath \notin Join
  BY DEF Ends, NoPath, Join
<1>3. Rooted(r) /\ Held(r) /\ Fitting(r) /\ Said(r)
  BY <1>1, <1>2 DEF Rooted, Held, Fitting, Said, Shown
<1>4. Hanging(r)
  BY <1>1 DEF Hanging, NoPath, Undefined
<1>5. Wired(r)
  <2>1. ASSUME NEW p \in Ports, r.connected[p] # Undefined
        PROVE  p \in Ends(r.paths[r.connected[p]])
    <3>1. r.connected[p] = pg.connected[p] /\ ~ \E i \in S : p \in Ends(pg.paths[i])
      BY <1>1, <2>1
    <3>2. PICK k \in Slots : pg.connected[p] = k /\ p \in Ends(pg.paths[k])
      BY <2>1, <3>1 DEF Wired, Page
    <3>3. r.paths[k] = pg.paths[k]
      BY <1>1, <3>1, <3>2
    <3>. QED
      BY <3>1, <3>2, <3>3
  <2>2. ASSUME ~r.overlaid, NEW i \in Slots, NEW p \in Ends(r.paths[i])
        PROVE  r.connected[p] = i
    <3>1. i \notin S /\ r.paths[i] = pg.paths[i] /\ pg.paths[i] \in Path
      BY <1>1, <1>2, <2>2 DEF Page
    <3>2. p \in Ports /\ pg.connected[p] = i
      BY <1>1, <2>2, <3>1 DEF Wired, Path, Ends
    <3>3. \A k \in S : p \in Ends(pg.paths[k]) => k = i
      BY <1>1, <2>2, <3>2 DEF Wired
    <3>. QED
      BY <1>1, <3>1, <3>2, <3>3
  <2>. QED
    BY <2>1, <2>2 DEF Wired
<1>. QED
  BY <1>1, <1>3, <1>4, <1>5 DEF r

LEMMA AddPathsFields ==
  ASSUME NEW pg \in Page, NEW J \in SUBSET GoodJoin, NEW new \in Placements(pg, J)
  PROVE  LET r == AddPaths(pg, new)
         IN  /\ r \in Page
             /\ DOMAIN new \subseteq Free(pg) /\ \A i \in DOMAIN new : new[i] \in J
             /\ r.nodes = pg.nodes /\ r.selected = pg.selected /\ r.dragged = pg.dragged
             /\ r.sent = pg.sent /\ r.thrown = pg.thrown /\ r.loose = pg.loose
             /\ \A i \in Slots : r.paths[i] = IF i \in DOMAIN new THEN new[i] ELSE pg.paths[i]
             /\ \A p \in Ports :
                  \/ r.connected[p] \in DOMAIN new /\ p \in Ends(new[r.connected[p]])
                  \/ /\ r.connected[p] = pg.connected[p]
                     /\ \A i \in DOMAIN new : p \notin Ends(new[i])
             /\ ~r.overlaid =>
                  /\ ~pg.overlaid
                  /\ \A i \in DOMAIN new : \A p \in Ends(new[i]) :
                       /\ \A k \in Slots : p \notin Ends(pg.paths[k]) \/ k = i
                       /\ \A k \in DOMAIN new : p \in Ends(new[k]) => k = i
<1>. USE NodeEditorAssumption
<1>. DEFINE added(p) == {i \in DOMAIN new : p \in Ends(new[i])}
            last(p) == CHOOSE i \in added(p) : \A k \in added(p) : k <= i
            twice == \E i \in DOMAIN new : \E p \in Ends(new[i]) :
                       OnPort(pg, p) \cup added(p) # {i}
            r == AddPaths(pg, new)
<1>1. DOMAIN new \subseteq Free(pg) /\ \A i \in DOMAIN new : new[i] \in J
  BY DEF Placements, Bijection, Injection, IsInjective
<1>2. DOMAIN new \subseteq Slots
  BY <1>1 DEF Free
<1>3. \A p : added(p) # {} => last(p) \in added(p)
  <2>1. ASSUME NEW p, added(p) # {}
        PROVE  \E i \in added(p) : \A k \in added(p) : k <= i
    BY <1>2, <2>1
  <2>. QED
    BY <2>1
<1>. HIDE DEF last
<1>4. \A i \in DOMAIN new : new[i] \in Path
  BY <1>1 DEF GoodJoin, Join, Path
<1>5. r = [pg EXCEPT
            !.paths = [i \in Slots |-> IF i \in DOMAIN new THEN new[i] ELSE @[i]],
            !.connected = [p \in Ports |-> IF added(p) # {} THEN last(p) ELSE @[p]],
            !.overlaid = @ \/ twice]
  BY DEF AddPaths, last
<1>. HIDE DEF r, twice
<1>6. /\ r.nodes = pg.nodes /\ r.selected = pg.selected /\ r.dragged = pg.dragged
      /\ r.sent = pg.sent /\ r.thrown = pg.thrown /\ r.loose = pg.loose
      /\ \A i \in Slots : r.paths[i] = IF i \in DOMAIN new THEN new[i] ELSE pg.paths[i]
      /\ \A p \in Ports : r.connected[p] = IF added(p) # {} THEN last(p) ELSE pg.connected[p]
      /\ r.overlaid = (pg.overlaid \/ twice)
  BY <1>5 DEF Page
<1>7. r \in Page
  BY <1>2, <1>3, <1>4, <1>5 DEF Page
<1>8. ASSUME NEW p \in Ports
      PROVE  \/ r.connected[p] \in DOMAIN new /\ p \in Ends(new[r.connected[p]])
             \/ /\ r.connected[p] = pg.connected[p]
                /\ \A i \in DOMAIN new : p \notin Ends(new[i])
  BY <1>3, <1>6
<1>9. ASSUME ~r.overlaid, NEW i \in DOMAIN new, NEW p \in Ends(new[i])
      PROVE  /\ \A k \in Slots : p \notin Ends(pg.paths[k]) \/ k = i
             /\ \A k \in DOMAIN new : p \in Ends(new[k]) => k = i
  <2>1. OnPort(pg, p) \cup added(p) = {i}
    BY <1>6, <1>9 DEF twice
  <2>. QED
    BY <2>1 DEF OnPort
<1>. QED
  BY <1>1, <1>6, <1>7, <1>8, <1>9 DEF r

(* addPath in a free slot, for paths whose modules are shown. *)
LEMMA AddPathsKeeps ==
  ASSUME NEW pg, PageInv(pg), NEW J \in SUBSET GoodJoin, NEW new \in Placements(pg, J),
         \A j \in J : {Owner[j.from], Owner[j.to]} \subseteq Shown(pg)
  PROVE  PageInv(AddPaths(pg, new))
<1>. DEFINE r == AddPaths(pg, new)
<1>. USE NodeEditorAssumption DEF PageInv
<1>1. /\ r \in Page
      /\ DOMAIN new \subseteq Free(pg) /\ \A i \in DOMAIN new : new[i] \in J
      /\ r.nodes = pg.nodes /\ r.selected = pg.selected /\ r.dragged = pg.dragged
      /\ r.sent = pg.sent /\ r.loose = pg.loose
      /\ \A i \in Slots : r.paths[i] = IF i \in DOMAIN new THEN new[i] ELSE pg.paths[i]
      /\ \A p \in Ports :
           \/ r.connected[p] \in DOMAIN new /\ p \in Ends(new[r.connected[p]])
           \/ /\ r.connected[p] = pg.connected[p]
              /\ \A i \in DOMAIN new : p \notin Ends(new[i])
      /\ ~r.overlaid =>
           /\ ~pg.overlaid
           /\ \A i \in DOMAIN new : \A p \in Ends(new[i]) :
                /\ \A k \in Slots : p \notin Ends(pg.paths[k]) \/ k = i
                /\ \A k \in DOMAIN new : p \in Ends(new[k]) => k = i
  BY AddPathsFields
<1>. HIDE DEF r
<1>2. \A i \in DOMAIN new : i \in Slots /\ pg.paths[i] = NoPath
  BY <1>1 DEF Free, Drawn
<1>3. \A j \in J : j.from \in Ports /\ j.to \in Ports /\ j \in GoodJoin
  BY DEF GoodJoin, Join
<1>4. Rooted(r)
  <2>1. ASSUME NEW i \in DOMAIN new PROVE \A p \in Ends(new[i]) : Owner[p] \in Shown(pg)
    BY <1>1, <2>1 DEF Ends
  <2>2. Shown(r) = Shown(pg)
    BY <1>1 DEF Shown
  <2>. QED
    BY <1>1, <2>1, <2>2 DEF Rooted
<1>5. Held(r) /\ Fitting(r) /\ Said(r)
  BY <1>1, <1>3 DEF Held, Fitting, Said, Shown
<1>6. Hanging(r)
  <2>1. \A i \in DOMAIN new : new[i].from # NoPort /\ new[i].to # NoPort
    BY <1>1, <1>3
  <2>2. ASSUME NEW i \in DOMAIN new PROVE i # pg.loose
    <3>1. i \in Slots /\ pg.paths[i].from = NoPort /\ pg.paths[i].to = NoPort
      BY <1>2 DEF NoPath
    <3>. QED
      BY <3>1 DEF Hanging
  <2>3. \A i \in Slots : r.paths[i] = IF i \in DOMAIN new THEN new[i] ELSE pg.paths[i]
    BY <1>1
  <2>4. r.loose = pg.loose /\ Hanging(pg)
    BY <1>1
  <2>. QED
    BY ONLY <2>1, <2>2, <2>3, <2>4 DEF Hanging
<1>7. Wired(r)
  <2>1. ASSUME NEW p \in Ports, r.connected[p] # Undefined
        PROVE  p \in Ends(r.paths[r.connected[p]])
    <3>1. CASE r.connected[p] \in DOMAIN new /\ p \in Ends(new[r.connected[p]])
      BY <1>1, <1>2, <3>1
    <3>2. CASE r.connected[p] = pg.connected[p]
      <4>1. PICK k \in Slots : pg.connected[p] = k /\ p \in Ends(pg.paths[k])
        BY <2>1, <3>2 DEF Wired, Page
      <4>2. k \notin DOMAIN new
        BY <1>2, <4>1 DEF Ends, NoPath
      <4>3. r.paths[k] = pg.paths[k]
        BY <1>1, <4>2
      <4>. QED
        BY <3>2, <4>1, <4>3
    <3>. QED
      BY <1>1, <3>1, <3>2
  <2>2. ASSUME ~r.overlaid, NEW i \in Slots, NEW p \in Ends(r.paths[i])
        PROVE  r.connected[p] = i
    <3>1. p \in Ports
      BY <1>1 DEF Page, Path, Ends
    <3>2. CASE i \in DOMAIN new
      <4>1. p \in Ends(new[i])
        BY <1>1, <3>2
      <4>. QED
        BY <1>1, <2>2, <3>1, <3>2, <4>1
    <3>3. CASE i \notin DOMAIN new
      <4>1. p \in Ends(pg.paths[i]) /\ pg.connected[p] = i
        BY <1>1, <2>2, <3>3 DEF Wired
      <4>2. \A k \in DOMAIN new : p \notin Ends(new[k])
        BY <1>1, <2>2, <3>3, <4>1
      <4>. QED
        BY <1>1, <3>1, <4>1, <4>2
    <3>. QED
      BY <3>2, <3>3
  <2>. QED
    BY <2>1, <2>2 DEF Wired
<1>. QED
  BY <1>1, <1>4, <1>5, <1>6, <1>7 DEF r

LEMMA PublishFields ==
  ASSUME NEW pg \in Page, NEW m \in Message
  PROVE  /\ Publish(pg, m) \in Page
         /\ Publish(pg, m) = [pg EXCEPT !.sent = Append(pg.sent, m)]
<1>1. Publish(pg, m) = [pg EXCEPT !.sent = Append(pg.sent, m)]
  BY DEF Publish
<1>2. pg.sent \in Seq(Message)
  BY DEF Page
<1>3. Append(pg.sent, m) \in Seq(Message)
  BY <1>2
<1>. QED
  BY <1>1, <1>3 DEF Page

(* What a page says of a module. *)
LEMMA PublishModuleKeeps ==
  ASSUME NEW pg, PageInv(pg), NEW id \in Ids, NEW place \in Places \cup {Away}
  PROVE  PageInv(Publish(pg, ModuleMsg(id, place)))
<1>. DEFINE m == ModuleMsg(id, place)
            r == Publish(pg, m)
<1>1. m \in Message /\ m \in Told /\ m \in ToldOnce
  BY DEF ModuleMsg, Message, Told, ToldOnce, ModuleMessage
<1>. HIDE DEF m
<1>2. r \in Page /\ r = [pg EXCEPT !.sent = Append(pg.sent, m)]
  BY <1>1, PublishFields DEF PageInv
<1>3. /\ r.nodes = pg.nodes /\ r.paths = pg.paths /\ r.connected = pg.connected
      /\ r.loose = pg.loose /\ r.selected = pg.selected /\ r.dragged = pg.dragged
      /\ r.overlaid = pg.overlaid /\ r.sent = Append(pg.sent, m)
  BY <1>2 DEF PageInv, Page
<1>4. Said(r)
  BY <1>1, <1>3 DEF PageInv, Said
<1>. QED
  BY <1>2, <1>3, <1>4 DEF PageInv, Rooted, Wired, Hanging, Held, Fitting, Shown, m

(* serializePaths: what a page lists fits, and has one path a port unless it *)
(* was drawn with two.                                                       *)
LEMMA PublishPathsKeeps ==
  ASSUME NEW pg, PageInv(pg)
  PROVE  PageInv(PublishPaths(pg))
<1>. DEFINE m == PathsMsg(SerializePaths(pg))
            r == Publish(pg, m)
<1>1. SerializePaths(pg) \subseteq GoodJoin
  BY DEF PageInv, Fitting, SerializePaths
<1>2. ~pg.overlaid => Exclusive(SerializePaths(pg))
  BY DEF PageInv, Wired, SerializePaths, Exclusive
<1>3. m \in Message /\ m \in Told
  BY <1>1 DEF PathsMsg, Message, Told, GoodJoin
<1>4. ~pg.overlaid => m \in ToldOnce
  BY <1>1, <1>2 DEF PathsMsg, ToldOnce
<1>. HIDE DEF m
<1>5. r \in Page /\ r = [pg EXCEPT !.sent = Append(pg.sent, m)]
  BY <1>3, PublishFields DEF PageInv
<1>6. /\ r.nodes = pg.nodes /\ r.paths = pg.paths /\ r.connected = pg.connected
      /\ r.loose = pg.loose /\ r.selected = pg.selected /\ r.dragged = pg.dragged
      /\ r.overlaid = pg.overlaid /\ r.sent = Append(pg.sent, m)
  BY <1>5 DEF PageInv, Page
<1>7. Said(r)
  BY <1>3, <1>4, <1>6 DEF PageInv, Said
<1>. QED
  BY <1>5, <1>6, <1>7 DEF PageInv, Rooted, Wired, Hanging, Held, Fitting, Shown, m, PublishPaths

LEMMA PublishRest ==
  ASSUME NEW pg \in Page, NEW m
  PROVE  LET r == Publish(pg, m)
         IN  /\ r.nodes = pg.nodes /\ r.paths = pg.paths /\ r.connected = pg.connected
             /\ r.loose = pg.loose /\ r.selected = pg.selected /\ r.dragged = pg.dragged
             /\ r.thrown = pg.thrown /\ r.overlaid = pg.overlaid
BY DEF Publish, Page

(* What removeNode does before its loop over the paths. *)
LEMMA LetGoKeeps ==
  ASSUME NEW pg, PageInv(pg), NEW id \in Ids
  PROVE  LET r == LetGo(pg, id)
         IN  /\ PageInv(r)
             /\ r.nodes = pg.nodes /\ r.paths = pg.paths /\ r.loose = pg.loose
             /\ r.selected # id /\ r.dragged # id
<1>. DEFINE r == LetGo(pg, id)
<1>1. /\ r \in Page
      /\ r.nodes = pg.nodes /\ r.paths = pg.paths /\ r.connected = pg.connected
      /\ r.loose = pg.loose /\ r.sent = pg.sent /\ r.overlaid = pg.overlaid
      /\ r.selected = (IF pg.selected = id THEN NoId ELSE pg.selected)
      /\ r.dragged = (IF pg.dragged = id THEN NoId ELSE pg.dragged)
  BY DEF LetGo, PageInv, Page
<1>2. r.selected # id /\ r.dragged # id
  BY <1>1, NodeEditorAssumption
<1>. HIDE DEF r
<1>3. PageInv(r)
  BY <1>1 DEF PageInv, Rooted, Wired, Hanging, Held, Fitting, Said, Shown
<1>. QED
  BY <1>1, <1>2, <1>3 DEF r

(* A node without paths that is neither selected nor held may go. *)
LEMMA VanishKeeps ==
  ASSUME NEW pg, PageInv(pg), NEW id \in Ids, At(pg, id) = {},
         pg.selected # id, pg.dragged # id
  PROVE  PageInv([pg EXCEPT !.nodes[id] = Away])
<1>. DEFINE r == [pg EXCEPT !.nodes[id] = Away]
<1>1. /\ r \in Page
      /\ r.nodes = [pg.nodes EXCEPT ![id] = Away]
      /\ r.paths = pg.paths /\ r.connected = pg.connected
      /\ r.loose = pg.loose /\ r.sent = pg.sent /\ r.overlaid = pg.overlaid
      /\ r.selected = pg.selected /\ r.dragged = pg.dragged
  BY DEF PageInv, Page
<1>. HIDE DEF r
<1>2. Shown(r) = Shown(pg) \ {id}
  BY <1>1 DEF Shown, PageInv, Page
<1>3. Rooted(r)
  BY <1>1, <1>2 DEF Rooted, PageInv, At
<1>4. Held(r)
  BY <1>1, <1>2 DEF Held, PageInv
<1>. QED
  BY <1>1, <1>3, <1>4 DEF PageInv, Wired, Hanging, Fitting, Said, r

(* A node that is shown, or is shown now, may have any place. *)
LEMMA PlaceKeeps ==
  ASSUME NEW pg, PageInv(pg), NEW id \in Ids, NEW place \in Places
  PROVE  PageInv([pg EXCEPT !.nodes[id] = place])
<1>. DEFINE r == [pg EXCEPT !.nodes[id] = place]
<1>1. /\ r \in Page
      /\ r.nodes = [pg.nodes EXCEPT ![id] = place]
      /\ r.paths = pg.paths /\ r.connected = pg.connected
      /\ r.loose = pg.loose /\ r.sent = pg.sent /\ r.overlaid = pg.overlaid
      /\ r.selected = pg.selected /\ r.dragged = pg.dragged
  BY DEF PageInv, Page
<1>. HIDE DEF r
<1>2. Shown(pg) \subseteq Shown(r)
  BY <1>1, NodeEditorAssumption DEF Shown, PageInv, Page
<1>3. Rooted(r) /\ Held(r)
  BY <1>1, <1>2 DEF Rooted, Held, PageInv
<1>. QED
  BY <1>1, <1>3 DEF PageInv, Wired, Hanging, Fitting, Said, r

(* That a handler threw is noted and nothing else. *)
LEMMA ThrownKeeps ==
  ASSUME NEW pg, PageInv(pg), NEW b \in BOOLEAN
  PROVE  PageInv([pg EXCEPT !.thrown = b])
<1>. DEFINE r == [pg EXCEPT !.thrown = b]
<1>1. /\ r \in Page
      /\ r.nodes = pg.nodes /\ r.paths = pg.paths /\ r.connected = pg.connected
      /\ r.loose = pg.loose /\ r.sent = pg.sent /\ r.overlaid = pg.overlaid
      /\ r.selected = pg.selected /\ r.dragged = pg.dragged
  BY DEF PageInv, Page
<1>. HIDE DEF r
<1>. QED
  BY <1>1 DEF PageInv, Rooted, Held, Wired, Hanging, Fitting, Said, Shown, r

(* removeNode, whether its loop over the paths ends or throws. *)
LEMMA RemoveNodeKeeps ==
  ASSUME NEW pg, PageInv(pg), NEW id \in Ids, NEW told \in BOOLEAN,
         NEW r \in RemoveNode(pg, id, told)
  PROVE  PageInv(r)
<1>. DEFINE free == LetGo(pg, id)
            unlinked == RemovePaths(free, At(pg, id))
            announced == IF told THEN unlinked
                           ELSE Publish(PublishPaths(unlinked), ModuleMsg(id, Away))
<1>1. /\ PageInv(free)
      /\ free.nodes = pg.nodes /\ free.paths = pg.paths
      /\ free.selected # id /\ free.dragged # id
  BY LetGoKeeps
<1>2. At(pg, id) \in SUBSET Slots
  BY DEF At
<1>. HIDE DEF free
<1>3. CASE Throws(pg, id)
  <2>1. PICK S \in SUBSET Slots : r = [RemovePaths(free, S) EXCEPT !.thrown = TRUE]
    BY <1>2, <1>3 DEF RemoveNode, free
  <2>. QED
    BY <1>1, <2>1, RemovePathsKeeps, ThrownKeeps
<1>4. CASE ~Throws(pg, id)
  <2>1. r = [announced EXCEPT !.nodes[id] = Away]
    BY <1>4 DEF RemoveNode, free
  <2>2. PageInv(unlinked)
    BY <1>1, <1>2, RemovePathsKeeps
  <2>3. At(unlinked, id) = {} /\ unlinked.selected # id /\ unlinked.dragged # id
    <3>1. /\ \A i \in Slots : unlinked.paths[i] =
                IF i \in At(pg, id) THEN NoPath ELSE free.paths[i]
          /\ unlinked.selected = free.selected /\ unlinked.dragged = free.dragged
      BY <1>1, <1>2, RemovePathsFields DEF PageInv
    <3>2. Ends(NoPath) = {}
      BY DEF Ends, NoPath
    <3>. HIDE DEF unlinked
    <3>3. ASSUME NEW i \in Slots, NEW p \in Ends(unlinked.paths[i]) PROVE Owner[p] # id
      BY <1>1, <3>1, <3>2, <3>3 DEF At
    <3>. QED
      BY <1>1, <3>1, <3>3 DEF At
  <2>. HIDE DEF unlinked
  <2>4. PageInv(announced)
    BY <2>2, PublishPathsKeeps, PublishModuleKeeps
  <2>5. announced.paths = unlinked.paths /\ announced.selected = unlinked.selected
        /\ announced.dragged = unlinked.dragged
    <3>1. PublishPaths(unlinked) \in Page /\ unlinked \in Page
      BY <2>2, PublishPathsKeeps DEF PageInv
    <3>. QED
      BY <3>1, PublishRest DEF PublishPaths
  <2>. HIDE DEF announced
  <2>6. At(announced, id) = {}
    BY <2>3, <2>5 DEF At
  <2>. QED
    BY <2>1, <2>3, <2>4, <2>5, <2>6, VanishKeeps
<1>. QED
  BY <1>3, <1>4

(* A message of the server leaves a page that is in order, though its handler *)
(* may throw.                                                                 *)
LEMMA HandleKeeps ==
  ASSUME NEW pg, PageInv(pg), NEW m \in Told, NEW rs \in BOOLEAN, NEW r \in Handle(pg, m, rs)
  PROVE  PageInv(r)
<1>1. CASE m.type = "paths"
  <2>1. m.names \in SUBSET GoodJoin
    BY <1>1 DEF Told, ModuleMessage
  <2>. DEFINE gone == {i \in Slots : pg.paths[i] \in Join \ m.names}
              kept == RemovePaths(pg, gone)
              J == Missing(kept, m.names)
  <2>2. PICK new \in Placements(kept, J) : r = AddPaths(kept, new)
    BY <1>1 DEF Handle, UpdatePaths
  <2>3. PageInv(kept)
    BY RemovePathsKeeps
  <2>. HIDE DEF kept
  <2>4. J \in SUBSET GoodJoin
        /\ \A j \in J : {Owner[j.from], Owner[j.to]} \subseteq Shown(kept)
    BY <2>1 DEF Missing
  <2>. HIDE DEF J
  <2>. QED
    BY <2>2, <2>3, <2>4, AddPathsKeeps
<1>2. CASE m.type # "paths"
  <2>1. m.id \in Ids /\ m.place \in Places \cup {Away}
    BY <1>2 DEF Told, ModuleMessage
  <2>2. CASE m.id \in Shown(pg) /\ m.place = Away
    BY <1>2, <2>1, <2>2, RemoveNodeKeeps DEF Handle
  <2>3. CASE m.id \in Shown(pg) /\ m.place # Away
    <3>. DEFINE moved == [pg EXCEPT !.nodes[m.id] = m.place]
    <3>1. PageInv(moved)
      BY <2>1, <2>3, PlaceKeeps
    <3>2. PICK thrown \in BOOLEAN : r = [moved EXCEPT !.thrown = thrown]
      <4>1. pg.thrown \in BOOLEAN /\ r = UpdateNode(pg, m.id, m.place, rs)
        BY <1>2, <2>3 DEF Handle, PageInv, Page
      <4>. DEFINE b == pg.thrown \/ ((pg.nodes[m.id] # m.place \/ rs) /\ Throws(pg, m.id))
      <4>2. r = [moved EXCEPT !.thrown = b]
        BY <4>1 DEF UpdateNode
      <4>3. b \in BOOLEAN
        BY ONLY <4>1
      <4>. QED
        BY <4>2, <4>3
    <3>. HIDE DEF moved
    <3>. QED
      BY <3>1, <3>2, ThrownKeeps
  <2>4. CASE m.id \notin Shown(pg)
    BY <1>2, <2>1, <2>4, PlaceKeeps DEF Handle, AddNode
  <2>. QED
    BY <2>2, <2>3, <2>4
<1>. QED
  BY <1>1, <1>2

----------------------------------------------------------------------------
(* The gestures. *)

LEMMA ConnectedSlot ==
  ASSUME NEW pg, PageInv(pg), NEW p \in Ports, pg.connected[p] # Undefined
  PROVE  \E k \in Slots : pg.connected[p] = k /\ p \in Ends(pg.paths[k])
<1>1. pg.connected[p] \in Slots
  BY DEF PageInv, Page
<1>2. p \in Ends(pg.paths[pg.connected[p]])
  BY DEF PageInv, Wired
<1>. QED
  BY <1>1, <1>2

(* A path with another end. *)
WithEnd(x, end, p) ==
  [from |-> IF end = "from" THEN p ELSE x.from, to |-> IF end = "to" THEN p ELSE x.to]

LEMMA EndSet ==
  ASSUME NEW x \in Path, NEW end \in {"from", "to"}, NEW p
  PROVE  /\ [x EXCEPT ![end] = p] = WithEnd(x, end, p)
         /\ x[end] = IF end = "from" THEN x.from ELSE x.to
<1>1. CASE end = "from"
  <2>1. [x EXCEPT !.from = p] = WithEnd(x, "from", p)
    BY DEF Path, WithEnd
  <2>2. [x EXCEPT !["from"] = p] = [x EXCEPT !.from = p] /\ x["from"] = x.from
    OBVIOUS
  <2>. QED
    BY <1>1, <2>1, <2>2
<1>2. CASE end = "to"
  <2>1. [x EXCEPT !.to = p] = WithEnd(x, "to", p)
    BY DEF Path, WithEnd
  <2>2. [x EXCEPT !["to"] = p] = [x EXCEPT !.to = p] /\ x["to"] = x.to
    OBVIOUS
  <2>. QED
    BY <1>2, <2>1, <2>2
<1>. QED
  BY <1>1, <1>2

(* The page with another path in slot i, another path at port p, another one  *)
(* loose.                                                                     *)
Changed(pg, i, x, p, c, l) ==
  [pg EXCEPT !.paths = [pg.paths EXCEPT ![i] = x],
             !.connected = [pg.connected EXCEPT ![p] = c],
             !.loose = l]

LEMMA ChangedFields ==
  ASSUME NEW pg \in Page, NEW i \in Slots, NEW x \in Path, NEW p \in Ports,
         NEW c \in Slots \cup {Undefined}, NEW l \in Slots \cup {Undefined}
  PROVE  LET r == Changed(pg, i, x, p, c, l)
         IN  /\ r \in Page
             /\ r.nodes = pg.nodes /\ r.selected = pg.selected /\ r.dragged = pg.dragged
             /\ r.sent = pg.sent /\ r.thrown = pg.thrown /\ r.overlaid = pg.overlaid
             /\ r.loose = l
             /\ \A k \in Slots : r.paths[k] = IF k = i THEN x ELSE pg.paths[k]
             /\ \A y \in Ports : r.connected[y] = IF y = p THEN c ELSE pg.connected[y]
BY DEF Changed, Page

LEMMA AttachIsChange ==
  ASSUME NEW pg \in Page, NEW i \in Slots, NEW end \in {"from", "to"}, NEW p \in Ports, NEW l
  PROVE  [Attach(pg, i, end, p) EXCEPT !.loose = l]
           = Changed(pg, i, WithEnd(pg.paths[i], end, p), p, i, l)
<1>1. [pg.paths[i] EXCEPT ![end] = p] = WithEnd(pg.paths[i], end, p)
  BY EndSet DEF Page
<1>2. Attach(pg, i, end, p) =
        [pg EXCEPT !.paths = [pg.paths EXCEPT ![i] = [pg.paths[i] EXCEPT ![end] = p]],
                   !.connected = [pg.connected EXCEPT ![p] = i]]
  BY DEF Attach, Page
<1>. QED
  BY <1>1, <1>2 DEF Changed, Page

LEMMA DetachIsChange ==
  ASSUME NEW pg \in Page, NEW i \in Slots, NEW end \in {"from", "to"}, NEW l,
         pg.paths[i][end] \in Ports
  PROVE  [Detach(pg, i, end) EXCEPT !.loose = l]
           = Changed(pg, i, WithEnd(pg.paths[i], end, NoPort), pg.paths[i][end], Undefined, l)
<1>1. [pg.paths[i] EXCEPT ![end] = NoPort] = WithEnd(pg.paths[i], end, NoPort)
  BY EndSet DEF Page
<1>2. Detach(pg, i, end) =
        [pg EXCEPT !.connected = [pg.connected EXCEPT ![pg.paths[i][end]] = Undefined],
                   !.paths = [pg.paths EXCEPT ![i] = [pg.paths[i] EXCEPT ![end] = NoPort]]]
  BY DEF Detach, Page
<1>. QED
  BY <1>1, <1>2 DEF Changed, Page

LEMMA AttachInPage ==
  ASSUME NEW pg \in Page, NEW i \in Slots, NEW end \in {"from", "to"}, NEW p \in Ports
  PROVE  Attach(pg, i, end, p) \in Page
<1>. DEFINE r == [Attach(pg, i, end, p) EXCEPT !.loose = pg.loose]
            x == WithEnd(pg.paths[i], end, p)
<1>1. pg.loose \in Slots \cup {Undefined} /\ x \in Path
  BY DEF Page, Path, WithEnd
<1>2. r \in Page
  <2>1. r = Changed(pg, i, x, p, i, pg.loose)
    BY AttachIsChange
  <2>2. i \in Slots \cup {Undefined}
    OBVIOUS
  <2>. HIDE DEF r, x
  <2>. QED
    BY <1>1, <2>1, <2>2, ChangedFields
<1>3. r = Attach(pg, i, end, p)
  BY DEF Attach, Page
<1>. QED
  BY <1>2, <1>3

LEMMA DetachInPage ==
  ASSUME NEW pg \in Page, NEW i \in Slots, NEW end \in {"from", "to"}, pg.paths[i][end] \in Ports
  PROVE  Detach(pg, i, end) \in Page
<1>. DEFINE r == [Detach(pg, i, end) EXCEPT !.loose = pg.loose]
            x == WithEnd(pg.paths[i], end, NoPort)
            p == pg.paths[i][end]
<1>1. pg.loose \in Slots \cup {Undefined} /\ x \in Path
  BY DEF Page, Path, WithEnd
<1>2. r \in Page
  <2>1. r = Changed(pg, i, x, p, Undefined, pg.loose)
    BY DetachIsChange
  <2>2. Undefined \in Slots \cup {Undefined} /\ p \in Ports
    OBVIOUS
  <2>. HIDE DEF r, x, p
  <2>3. Changed(pg, i, x, p, Undefined, pg.loose) \in Page
    BY <1>1, <2>2, ChangedFields
  <2>. QED
    BY <2>1, <2>3
<1>3. r = Detach(pg, i, end)
  BY DEF Detach, Page
<1>. QED
  BY <1>2, <1>3

(* What is said does not depend on which path is loose. *)
LEMMA PublishCommutes ==
  ASSUME NEW pg \in Page, NEW l
  PROVE  [PublishPaths(pg) EXCEPT !.loose = l] = PublishPaths([pg EXCEPT !.loose = l])
<1>. DEFINE r == [pg EXCEPT !.loose = l]
<1>1. r.paths = pg.paths /\ r.sent = pg.sent
  BY DEF Page
<1>2. SerializePaths(r) = SerializePaths(pg)
  BY <1>1 DEF SerializePaths
<1>. DEFINE m == PathsMsg(SerializePaths(pg))
<1>3. PublishPaths(pg) = [pg EXCEPT !.sent = Append(pg.sent, m)]
  BY DEF PublishPaths, Publish
<1>4. PublishPaths(r) = [r EXCEPT !.sent = Append(pg.sent, m)]
  BY <1>1, <1>2 DEF PublishPaths, Publish
<1>. HIDE DEF m
<1>. QED
  BY <1>3, <1>4 DEF Page

(* A path gets an end at a port that has none: r is the page then. *)
LEMMA EndPut ==
  ASSUME NEW pg, PageInv(pg), NEW r \in Page, NEW i \in Slots, NEW p \in Ports, NEW x \in Path,
         Owner[p] \in Shown(pg), pg.connected[p] = Undefined,
         Ends(x) = Ends(pg.paths[i]) \cup {p}, x \in Join => x \in GoodJoin, Hanging(r),
         r.nodes = pg.nodes, r.selected = pg.selected, r.dragged = pg.dragged,
         r.sent = pg.sent, r.overlaid = pg.overlaid,
         \A k \in Slots : r.paths[k] = IF k = i THEN x ELSE pg.paths[k],
         \A y \in Ports : r.connected[y] = IF y = p THEN i ELSE pg.connected[y]
  PROVE  PageInv(r)
<1>. USE NodeEditorAssumption DEF PageInv
<1>1. Rooted(r) /\ Held(r) /\ Fitting(r) /\ Said(r)
  <2>1. Rooted(r)
    BY DEF Rooted, Shown
  <2>2. Held(r)
    BY DEF Held, Shown
  <2>3. Fitting(r)
    BY DEF Fitting
  <2>4. Said(r)
    BY DEF Said
  <2>. QED
    BY <2>1, <2>2, <2>3, <2>4
<1>2. ASSUME NEW y \in Ports, r.connected[y] # Undefined
      PROVE  y \in Ends(r.paths[r.connected[y]])
  <2>1. CASE y = p
    BY <2>1
  <2>2. CASE y # p
    <3>1. PICK k \in Slots : pg.connected[y] = k /\ y \in Ends(pg.paths[k])
      BY <1>2, <2>2, ConnectedSlot
    <3>2. y \in Ends(r.paths[k])
      BY <3>1
    <3>. QED
      BY <2>2, <3>1, <3>2
  <2>. QED
    BY <2>1, <2>2
<1>3. ASSUME ~r.overlaid, NEW k \in Slots, NEW y \in Ends(r.paths[k])
      PROVE  r.connected[y] = k
  <2>1. y \in Ports /\ k # Undefined
    BY <1>3 DEF Page, Path, Ends, Undefined
  <2>2. y \in Ends(pg.paths[k]) => pg.connected[y] = k
    BY <1>3 DEF Wired
  <2>. QED
    BY <1>3, <2>1, <2>2
<1>. QED
  BY <1>1, <1>2, <1>3 DEF Wired

(* A path loses the end that is at a port connected to it. *)
LEMMA EndTaken ==
  ASSUME NEW pg, PageInv(pg), NEW r \in Page, NEW i \in Slots, NEW p \in Ports, NEW x \in Path,
         pg.connected[p] = i,
         Ends(x) = Ends(pg.paths[i]) \ {p}, x \notin Join, Hanging(r),
         r.nodes = pg.nodes, r.selected = pg.selected, r.dragged = pg.dragged,
         r.sent = pg.sent, r.overlaid = pg.overlaid,
         \A k \in Slots : r.paths[k] = IF k = i THEN x ELSE pg.paths[k],
         \A y \in Ports : r.connected[y] = IF y = p THEN Undefined ELSE pg.connected[y]
  PROVE  PageInv(r)
<1>. USE NodeEditorAssumption DEF PageInv
<1>1. Rooted(r) /\ Held(r) /\ Fitting(r) /\ Said(r)
  <2>1. Rooted(r)
    BY DEF Rooted, Shown
  <2>2. Held(r)
    BY DEF Held, Shown
  <2>3. Fitting(r)
    BY DEF Fitting
  <2>4. Said(r)
    BY DEF Said
  <2>. QED
    BY <2>1, <2>2, <2>3, <2>4
<1>2. ASSUME NEW y \in Ports, r.connected[y] # Undefined
      PROVE  y \in Ends(r.paths[r.connected[y]])
  <2>1. y # p
    BY <1>2
  <2>2. PICK k \in Slots : pg.connected[y] = k /\ y \in Ends(pg.paths[k])
    BY <1>2, <2>1, ConnectedSlot
  <2>3. y \in Ends(r.paths[k])
    BY <2>1, <2>2
  <2>. QED
    BY <2>1, <2>2, <2>3
<1>3. ASSUME ~r.overlaid, NEW k \in Slots, NEW y \in Ends(r.paths[k])
      PROVE  r.connected[y] = k
  <2>1. y \in Ports
    BY <1>3 DEF Page, Path, Ends
  <2>2. y \in Ends(pg.paths[k]) /\ y # p
    <3>1. pg.connected[p] = k => k = i
      OBVIOUS
    <3>2. y \in Ends(pg.paths[k])
      BY <1>3
    <3>3. pg.connected[y] = k
      BY <1>3, <3>2 DEF Wired
    <3>. QED
      BY <1>3, <3>1, <3>2, <3>3
  <2>3. pg.connected[y] = k
    BY <1>3, <2>2 DEF Wired
  <2>. QED
    BY <2>1, <2>2, <2>3
<1>. QED
  BY <1>1, <1>2, <1>3 DEF Wired

(* The mouse button on a port without a path, no path hanging on the mouse. *)
LEMMA StartPathKeeps ==
  ASSUME NEW pg, PageInv(pg), NEW p \in Ports, Owner[p] \in Shown(pg),
         pg.connected[p] = Undefined, pg.loose = Undefined, NEW i \in Free(pg)
  PROVE  PageInv(StartPath(pg, p, i))
<1>. DEFINE x == WithEnd(pg.paths[i], "from", p)
            r == Changed(pg, i, x, p, i, i)
<1>1. i \in Slots /\ pg.paths[i] = NoPath /\ pg \in Page
  BY DEF Free, Drawn, PageInv
<1>2. StartPath(pg, p, i) = r
  <2>1. StartPath(pg, p, i) = [Attach(pg, i, "from", p) EXCEPT !.loose = i]
    BY DEF StartPath
  <2>2. "from" \in {"from", "to"}
    OBVIOUS
  <2>. QED
    BY ONLY <1>1, <2>1, <2>2, AttachIsChange, p \in Ports
<1>3. x = [from |-> p, to |-> NoPort]
  BY <1>1 DEF NoPath, WithEnd
<1>. HIDE DEF x
<1>4. x \in Path /\ x \notin Join /\ Ends(x) = Ends(pg.paths[i]) \cup {p}
  BY <1>1, <1>3, NodeEditorAssumption DEF Path, Join, Ends, NoPath
<1>5. /\ r \in Page
      /\ r.nodes = pg.nodes /\ r.selected = pg.selected /\ r.dragged = pg.dragged
      /\ r.sent = pg.sent /\ r.overlaid = pg.overlaid /\ r.loose = i
      /\ \A k \in Slots : r.paths[k] = IF k = i THEN x ELSE pg.paths[k]
      /\ \A y \in Ports : r.connected[y] = IF y = p THEN i ELSE pg.connected[y]
  BY <1>1, <1>4, ChangedFields
<1>. HIDE DEF r
<1>6. Hanging(r)
  <2>1. x.from # NoPort /\ x.to = NoPort
    BY <1>3, NodeEditorAssumption
  <2>2. ASSUME NEW k \in Slots, k # i
        PROVE  k = r.loose <=> (r.paths[k].from = NoPort) # (r.paths[k].to = NoPort)
    <3>1. k # Undefined /\ r.paths[k] = pg.paths[k]
      BY <1>5, <2>2, NodeEditorAssumption DEF Undefined
    <3>. QED
      BY <1>5, <2>2, <3>1 DEF Hanging, PageInv
  <2>3. i = r.loose /\ r.paths[i] = x
    BY <1>1, <1>5
  <2>. QED
    BY <2>1, <2>2, <2>3 DEF Hanging
<1>7. PageInv(r)
  BY <1>1, <1>4, <1>5, <1>6, EndPut
<1>. QED
  BY <1>2, <1>7

(* ... with a path hanging on the mouse whose other end fits. *)
LEMMA EndPathKeeps ==
  ASSUME NEW pg, PageInv(pg), NEW p \in Ports, Owner[p] \in Shown(pg),
         pg.connected[p] = Undefined, NEW i \in Slots, i = pg.loose, Fits(pg, p)
  PROVE  PageInv(EndPath(pg, p))
<1>. DEFINE old == pg.paths[i]
            end == IF old.from = NoPort THEN "from" ELSE "to"
            x == WithEnd(old, end, p)
            r == Changed(pg, i, x, p, i, Undefined)
<1>1. pg \in Page /\ old \in Path
  BY DEF PageInv, Page
<1>2. (old.from = NoPort) # (old.to = NoPort)
  BY <1>1 DEF PageInv, Hanging
<1>3. EndPath(pg, p) = PublishPaths(r)
  <2>1. EndPath(pg, p) = [PublishPaths(Attach(pg, i, end, p)) EXCEPT !.loose = Undefined]
    BY DEF EndPath
  <2>2. end \in {"from", "to"}
    OBVIOUS
  <2>. HIDE DEF end
  <2>3. [Attach(pg, i, end, p) EXCEPT !.loose = Undefined] = r
    BY <1>1, <2>2, AttachIsChange
  <2>4. Attach(pg, i, end, p) \in Page
    BY <1>1, <2>2, AttachInPage
  <2>. HIDE DEF r
  <2>. QED
    BY <2>1, <2>3, <2>4, PublishCommutes
<1>4. x = [from |-> IF old.from = NoPort THEN p ELSE old.from,
           to |-> IF old.from = NoPort THEN old.to ELSE p]
  BY <1>1 DEF WithEnd
<1>. HIDE DEF x
<1>5. x \in Path /\ Ends(x) = Ends(old) \cup {p}
  BY <1>1, <1>2, <1>4, NodeEditorAssumption DEF Path, Ends
<1>6. x \in Join => x \in GoodJoin
  <2>1. PICK q \in Ends(old) : Compatible(p, q)
    BY DEF Fits
  <2>2. CASE old.from = NoPort
    <3>1. q = old.to /\ x.from = p /\ x.to = q
      BY <1>4, <2>1, <2>2 DEF Ends
    <3>. QED
      BY <2>1, <3>1 DEF GoodJoin
  <2>3. CASE old.from # NoPort
    <3>1. q = old.from /\ x.from = q /\ x.to = p
      BY <1>2, <1>4, <2>1, <2>3 DEF Ends
    <3>2. {Kind[q], Kind[p]} = {Kind[p], Kind[q]}
      OBVIOUS
    <3>. QED
      BY <2>1, <3>1, <3>2 DEF GoodJoin, Compatible
  <2>. QED
    BY <2>2, <2>3
<1>7. /\ r \in Page
      /\ r.nodes = pg.nodes /\ r.selected = pg.selected /\ r.dragged = pg.dragged
      /\ r.sent = pg.sent /\ r.overlaid = pg.overlaid /\ r.loose = Undefined
      /\ \A k \in Slots : r.paths[k] = IF k = i THEN x ELSE pg.paths[k]
      /\ \A y \in Ports : r.connected[y] = IF y = p THEN i ELSE pg.connected[y]
  BY <1>1, <1>5, ChangedFields
<1>. HIDE DEF r
<1>8. Hanging(r)
  <2>1. x.from # NoPort /\ x.to # NoPort
    BY <1>2, <1>4, NodeEditorAssumption
  <2>2. ASSUME NEW k \in Slots, k # i
        PROVE  ~ ((r.paths[k].from = NoPort) # (r.paths[k].to = NoPort))
    BY <1>7, <2>2 DEF Hanging, PageInv
  <2>3. \A k \in Slots : k # r.loose
    BY <1>7, NodeEditorAssumption DEF Undefined
  <2>4. r.paths[i] = x
    BY <1>7
  <2>. QED
    BY <2>1, <2>2, <2>3, <2>4 DEF Hanging
<1>9. PageInv(r)
  BY <1>1, <1>5, <1>6, <1>7, <1>8, EndPut
<1>. QED
  BY <1>3, <1>9, PublishPathsKeeps

(* ... on a port with a path, no path hanging on the mouse. *)
LEMMA TakePathKeeps ==
  ASSUME NEW pg, PageInv(pg), NEW p \in Ports, NEW i \in Slots, i = pg.connected[p],
         pg.loose = Undefined
  PROVE  PageInv(TakePath(pg, p))
<1>. DEFINE old == pg.paths[i]
            end == IF old.from = p THEN "from" ELSE "to"
            x == WithEnd(old, end, NoPort)
            r == Changed(pg, i, x, p, Undefined, i)
<1>1. pg \in Page /\ old \in Path /\ i # Undefined
  BY NodeEditorAssumption DEF PageInv, Page, Undefined
<1>2. p \in Ends(old)
  BY <1>1 DEF PageInv, Wired
<1>3. old.from \in Ports /\ old.to \in Ports
  <2>1. (old.from = NoPort) = (old.to = NoPort)
    BY <1>1 DEF PageInv, Hanging
  <2>. QED
    BY <1>1, <1>2, <2>1 DEF Ends, Path
<1>4. old.from # old.to
  <2>1. old \in Join
    BY <1>1, <1>3 DEF Path, Join
  <2>2. Compatible(old.from, old.to)
    BY <2>1 DEF PageInv, Fitting, GoodJoin
  <2>. QED
    BY ONLY <2>2 DEF Compatible
<1>5. old[end] = p /\ end \in {"from", "to"}
  BY <1>1, <1>2, EndSet DEF Ends
<1>6. TakePath(pg, p) = PublishPaths(r)
  <2>1. TakePath(pg, p) = [PublishPaths(Detach(pg, i, end)) EXCEPT !.loose = i]
    BY DEF TakePath
  <2>. HIDE DEF end
  <2>2. [Detach(pg, i, end) EXCEPT !.loose = i] = r
    BY <1>1, <1>5, DetachIsChange
  <2>3. Detach(pg, i, end) \in Page
    BY <1>1, <1>5, DetachInPage
  <2>. HIDE DEF r
  <2>. QED
    BY <2>1, <2>2, <2>3, PublishCommutes
<1>7. x = [from |-> IF old.from = p THEN NoPort ELSE old.from,
           to |-> IF old.from = p THEN old.to ELSE NoPort]
  BY <1>1 DEF WithEnd
<1>. HIDE DEF x
<1>8. x \in Path /\ x \notin Join /\ Ends(x) = Ends(old) \ {p}
  BY <1>1, <1>2, <1>3, <1>4, <1>7, NodeEditorAssumption DEF Path, Join, Ends
<1>9. /\ r \in Page
      /\ r.nodes = pg.nodes /\ r.selected = pg.selected /\ r.dragged = pg.dragged
      /\ r.sent = pg.sent /\ r.overlaid = pg.overlaid /\ r.loose = i
      /\ \A k \in Slots : r.paths[k] = IF k = i THEN x ELSE pg.paths[k]
      /\ \A y \in Ports : r.connected[y] = IF y = p THEN Undefined ELSE pg.connected[y]
  BY ONLY <1>1, <1>8, p \in Ports, i \in Slots DEF Changed, Page
<1>. HIDE DEF r
<1>10. Hanging(r)
  <2>1. (x.from = NoPort) # (x.to = NoPort)
    BY <1>3, <1>7, NodeEditorAssumption
  <2>2. ASSUME NEW k \in Slots, k # i
        PROVE  k = r.loose <=> (r.paths[k].from = NoPort) # (r.paths[k].to = NoPort)
    <3>1. k # Undefined /\ r.paths[k] = pg.paths[k]
      BY <1>9, <2>2, NodeEditorAssumption DEF Undefined
    <3>. QED
      BY <1>9, <2>2, <3>1 DEF Hanging, PageInv
  <2>3. i = r.loose /\ r.paths[i] = x
    BY <1>9
  <2>. QED
    BY <2>1, <2>2, <2>3 DEF Hanging
<1>11. PageInv(r)
  BY <1>1, <1>8, <1>9, <1>10, EndTaken
<1>. QED
  BY <1>6, <1>11, PublishPathsKeeps

LEMMA PortDownKeeps ==
  ASSUME NEW pg, PageInv(pg), NEW p \in Ports, Owner[p] \in Shown(pg),
         NEW r \in PortDown(pg, p)
  PROVE  PageInv(r)
<1>1. CASE pg.connected[p] = Undefined /\ pg.loose = Undefined
  <2>1. PICK i \in Free(pg) : r = StartPath(pg, p, i)
    BY <1>1 DEF PortDown
  <2>. QED
    BY <1>1, <2>1, StartPathKeeps
<1>2. CASE pg.connected[p] = Undefined /\ pg.loose # Undefined
  <2>1. pg.loose \in Slots
    BY <1>2 DEF PageInv, Page
  <2>. QED
    BY <1>2, <2>1, EndPathKeeps DEF PortDown
<1>3. CASE pg.connected[p] # Undefined
  <2>1. pg.connected[p] \in Slots
    BY <1>3 DEF PageInv, Page
  <2>. QED
    BY <1>3, <2>1, TakePathKeeps DEF PortDown
<1>. QED
  BY <1>1, <1>2, <1>3

LEMMA SelectKeeps ==
  ASSUME NEW pg, PageInv(pg), NEW id \in Shown(pg) \cup {NoId}
  PROVE  PageInv([pg EXCEPT !.selected = id])
<1>. DEFINE r == [pg EXCEPT !.selected = id]
<1>1. /\ r \in Page
      /\ r.nodes = pg.nodes /\ r.paths = pg.paths /\ r.connected = pg.connected
      /\ r.loose = pg.loose /\ r.sent = pg.sent /\ r.overlaid = pg.overlaid
      /\ r.selected = id /\ r.dragged = pg.dragged
  BY DEF PageInv, Page, Shown
<1>. HIDE DEF r
<1>. QED
  BY <1>1 DEF PageInv, Rooted, Held, Wired, Hanging, Fitting, Said, Shown, r

LEMMA HoldKeeps ==
  ASSUME NEW pg, PageInv(pg), NEW id \in Shown(pg) \cup {NoId}
  PROVE  PageInv([pg EXCEPT !.dragged = id])
<1>. DEFINE r == [pg EXCEPT !.dragged = id]
<1>1. /\ r \in Page
      /\ r.nodes = pg.nodes /\ r.paths = pg.paths /\ r.connected = pg.connected
      /\ r.loose = pg.loose /\ r.sent = pg.sent /\ r.overlaid = pg.overlaid
      /\ r.selected = pg.selected /\ r.dragged = id
  BY DEF PageInv, Page, Shown
<1>. HIDE DEF r
<1>. QED
  BY <1>1 DEF PageInv, Rooted, Held, Wired, Hanging, Fitting, Said, Shown, r

LEMMA NodeDownKeeps ==
  ASSUME NEW pg, PageInv(pg), NEW id \in Shown(pg)
  PROVE  PageInv(NodeDown(pg, id))
<1>. DEFINE r == [pg EXCEPT !.selected = id]
<1>1. PageInv(r)
  BY SelectKeeps
<1>2. Shown(r) = Shown(pg)
  BY DEF Shown, PageInv, Page
<1>3. NodeDown(pg, id) = [r EXCEPT !.dragged = id]
  BY DEF NodeDown, PageInv, Page
<1>. HIDE DEF r
<1>. QED
  BY <1>1, <1>2, <1>3, HoldKeeps

LEMMA WindowDownKeeps ==
  ASSUME NEW pg, PageInv(pg)
  PROVE  PageInv(WindowDown(pg))
<1>1. {pg.loose} \ {Undefined} \in SUBSET Slots
  BY DEF PageInv, Page
<1>. QED
  BY <1>1, RemovePathsKeeps, SelectKeeps DEF WindowDown

LEMMA MouseUpKeeps ==
  ASSUME NEW pg, PageInv(pg), pg.dragged # NoId
  PROVE  PageInv(MouseUp(pg))
<1>1. pg.dragged \in Ids /\ pg.nodes[pg.dragged] \in Places
  BY DEF PageInv, Held, Shown, Page
<1>2. PageInv(Publish(pg, ModuleMsg(pg.dragged, pg.nodes[pg.dragged])))
  BY <1>1, PublishModuleKeeps
<1>. QED
  BY <1>2, HoldKeeps DEF MouseUp

LEMMA CreateKeeps ==
  ASSUME NEW pg, PageInv(pg), NEW id \in Ids, NEW place \in Places
  PROVE  PageInv(Create(pg, id, place))
<1>. DEFINE said == Publish(pg, ModuleMsg(id, place))
            r == [said EXCEPT !.nodes[id] = place]
<1>1. PageInv(said)
  BY PublishModuleKeeps
<1>. HIDE DEF said
<1>2. PageInv(r)
  BY <1>1, PlaceKeeps
<1>3. id \in Shown(r)
  BY <1>1, NodeEditorAssumption DEF PageInv, Page, Shown
<1>. HIDE DEF r
<1>4. Create(pg, id, place) = NodeDown(r, id)
  BY DEF Create, AddNode, r, said
<1>. QED
  BY <1>2, <1>3, <1>4, NodeDownKeeps

----------------------------------------------------------------------------
(* That a page had two paths on a port is not forgotten.                      *)

LEMMA PublishPathsRest ==
  ASSUME NEW pg \in Page
  PROVE  PublishPaths(pg).overlaid = pg.overlaid
BY PublishRest DEF PublishPaths

LEMMA PortDownRemembers ==
  ASSUME NEW pg, PageInv(pg), NEW p \in Ports, NEW r \in PortDown(pg, p)
  PROVE  r.overlaid = pg.overlaid
<1>1. pg \in Page
  BY DEF PageInv
<1>2. ASSUME NEW i \in Free(pg), r = StartPath(pg, p, i)
      PROVE  r.overlaid = pg.overlaid
  BY <1>1, <1>2 DEF StartPath, Attach, Page
<1>3. CASE r = EndPath(pg, p) \/ r = TakePath(pg, p)
  BY <1>1, <1>3 DEF EndPath, TakePath, PublishPaths, Publish, Attach, Detach, Page
<1>. QED
  BY <1>2, <1>3 DEF PortDown

LEMMA RemoveNodeRemembers ==
  ASSUME NEW pg, PageInv(pg), NEW id \in Ids, NEW told \in BOOLEAN,
         NEW r \in RemoveNode(pg, id, told)
  PROVE  r.overlaid = pg.overlaid
<1>. DEFINE free == LetGo(pg, id)
            unlinked == RemovePaths(free, At(pg, id))
            announced == IF told THEN unlinked
                           ELSE Publish(PublishPaths(unlinked), ModuleMsg(id, Away))
<1>1. free \in Page /\ free.overlaid = pg.overlaid
  <2>1. PageInv(free)
    BY LetGoKeeps
  <2>. QED
    BY <2>1 DEF PageInv, LetGo, Page
<1>2. \A S \in SUBSET Slots :
        RemovePaths(free, S) \in Page /\ RemovePaths(free, S).overlaid = pg.overlaid
  <2>. HIDE DEF free
  <2>. QED
    BY <1>1, RemovePathsFields
<1>3. At(pg, id) \in SUBSET Slots
  BY DEF At
<1>4. CASE Throws(pg, id)
  <2>1. PICK S \in SUBSET Slots : r = [RemovePaths(free, S) EXCEPT !.thrown = TRUE]
    BY <1>3, <1>4 DEF RemoveNode
  <2>. HIDE DEF free
  <2>. QED
    BY <1>2, <2>1 DEF Page
<1>5. CASE ~Throws(pg, id)
  <2>1. r = [announced EXCEPT !.nodes[id] = Away]
    BY <1>5 DEF RemoveNode
  <2>. HIDE DEF free
  <2>2. unlinked \in Page /\ unlinked.overlaid = pg.overlaid
    BY <1>2, <1>3
  <2>3. DOMAIN announced = DOMAIN unlinked /\ announced.overlaid = unlinked.overlaid
    <3>. HIDE DEF unlinked
    <3>. QED
      BY <2>2 DEF PublishPaths, Publish, Page
  <2>4. "overlaid" \in DOMAIN unlinked
    <3>. HIDE DEF unlinked
    <3>. QED
      BY <2>2 DEF Page
  <2>. HIDE DEF announced, unlinked
  <2>. QED
    BY <2>1, <2>2, <2>3, <2>4
<1>. QED
  BY <1>4, <1>5

LEMMA HandleRemembers ==
  ASSUME NEW pg, PageInv(pg), NEW m \in Told, NEW rs \in BOOLEAN,
         NEW r \in Handle(pg, m, rs), pg.overlaid
  PROVE  r.overlaid
<1>1. CASE m.type = "paths"
  <2>1. m.names \in SUBSET GoodJoin
    BY <1>1 DEF Told, ModuleMessage
  <2>. DEFINE gone == {i \in Slots : pg.paths[i] \in Join \ m.names}
              kept == RemovePaths(pg, gone)
              J == Missing(kept, m.names)
  <2>2. PICK new \in Placements(kept, J) : r = AddPaths(kept, new)
    BY <1>1 DEF Handle, UpdatePaths
  <2>3. kept \in Page /\ kept.overlaid
    BY RemovePathsFields DEF PageInv
  <2>. HIDE DEF kept
  <2>4. J \in SUBSET GoodJoin
    BY <2>1 DEF Missing
  <2>. HIDE DEF J
  <2>. QED
    BY <2>2, <2>3, <2>4, AddPathsFields
<1>2. CASE m.type # "paths"
  <2>1. m.id \in Ids /\ pg \in Page
    BY <1>2 DEF Told, ModuleMessage, PageInv
  <2>2. CASE m.id \in Shown(pg) /\ m.place = Away
    BY <1>2, <2>1, <2>2, RemoveNodeRemembers DEF Handle
  <2>3. CASE ~ (m.id \in Shown(pg) /\ m.place = Away)
    BY <1>2, <2>1, <2>3 DEF Handle, UpdateNode, AddNode, Page
  <2>. QED
    BY <2>2, <2>3
<1>. QED
  BY <1>1, <1>2

----------------------------------------------------------------------------
(* The pages and the server. *)

Inv ==
  /\ TypeOK
  /\ \A e \in Editors : PageInv(page[e])
  /\ coming \in [Editors -> Seq(Told)]
  /\ joins \subseteq GoodJoin
  /\ PortsExclusive

LEMMA ToldIsMessage == Told \subseteq Message /\ ToldOnce \subseteq Told
BY DEF Told, ToldOnce, Message, ModuleMessage, GoodJoin

LEMMA SentKeeps ==
  ASSUME NEW pg, PageInv(pg), NEW s \in Seq(Told), ~pg.overlaid => s \in Seq(ToldOnce)
  PROVE  LET r == [pg EXCEPT !.sent = s]
         IN  PageInv(r) /\ r.overlaid = pg.overlaid
<1>. DEFINE r == [pg EXCEPT !.sent = s]
<1>0. s \in Seq(Message)
  BY ToldIsMessage, SeqMonotonic
<1>1. /\ r \in Page
      /\ r.nodes = pg.nodes /\ r.paths = pg.paths /\ r.connected = pg.connected
      /\ r.loose = pg.loose /\ r.sent = s /\ r.overlaid = pg.overlaid
      /\ r.selected = pg.selected /\ r.dragged = pg.dragged
  BY <1>0 DEF PageInv, Page
<1>. HIDE DEF r
<1>2. PageInv(r)
  BY <1>1 DEF PageInv, Rooted, Held, Wired, Hanging, Fitting, Said, Shown
<1>. QED
  BY <1>1, <1>2 DEF r

LEMMA InitInv == Init => Inv
<1>. SUFFICES ASSUME Init PROVE Inv
  OBVIOUS
<1>. USE NodeEditorAssumption, EditorSyncAssumption
<1>1. PageInv(Blank)
  <2>1. Blank \in Page
    BY DEF Blank, Page, NoPath, Path, Undefined
  <2>2. Rooted(Blank) /\ Wired(Blank) /\ Held(Blank) /\ Fitting(Blank) /\ Said(Blank)
    BY DEF Blank, Rooted, Wired, Held, Fitting, Said, Ends, NoPath, Undefined, Join
  <2>3. Hanging(Blank)
    BY DEF Blank, Hanging, NoPath, Undefined
  <2>. QED
    BY <2>1, <2>2, <2>3 DEF PageInv
<1>2. StartPaths \in SUBSET GoodJoin
  BY DEF GoodJoin
<1>3. PageInv(Showing)
  <2>. DEFINE pg == [Blank EXCEPT !.nodes = StartModules]
              new == CHOOSE f \in Placements(Blank, StartPaths) : TRUE
  <2>1. /\ pg \in Page /\ pg.nodes = StartModules
        /\ pg.paths = Blank.paths /\ pg.connected = Blank.connected
        /\ pg.loose = Blank.loose /\ pg.selected = Blank.selected /\ pg.dragged = Blank.dragged
        /\ pg.sent = Blank.sent /\ pg.overlaid = Blank.overlaid
    BY <1>1 DEF PageInv, Page
  <2>2. Rooted(pg) /\ Held(pg)
    <3>1. \A i \in Slots : Blank.paths[i] = NoPath
      BY DEF Blank
    <3>2. Blank.selected = NoId /\ Blank.dragged = NoId
      BY DEF Blank
    <3>. HIDE DEF pg
    <3>. QED
      BY <2>1, <3>1, <3>2 DEF Rooted, Held, Ends, NoPath
  <2>. HIDE DEF pg
  <2>3. PageInv(pg)
    BY <1>1, <2>1, <2>2 DEF PageInv, Wired, Hanging, Fitting, Said
  <2>4. new \in Placements(pg, StartPaths)
    <3>1. new \in Placements(Blank, StartPaths)
      OBVIOUS
    <3>. HIDE DEF new
    <3>. QED
      BY <2>1, <3>1 DEF Placements, Free, Drawn
  <2>5. \A j \in StartPaths : {Owner[j.from], Owner[j.to]} \subseteq Shown(pg)
    <3>1. \A j \in StartPaths : j.from \in Ends(j) /\ j.to \in Ends(j)
                                /\ j.from \in Ports /\ j.to \in Ports
      BY DEF Ends, Join
    <3>2. \A p \in Ports : Owner[p] \in Ids
      OBVIOUS
    <3>. QED
      BY <2>1, <3>1, <3>2 DEF Shown
  <2>6. Showing = AddPaths(pg, new)
    BY DEF Showing, pg
  <2>. HIDE DEF new
  <2>. QED
    BY <1>2, <2>3, <2>4, <2>5, <2>6, AddPathsKeeps
<1>4. \A e \in Editors : PageInv(page[e])
  BY <1>1, <1>3 DEF Init
<1>5. TypeOK /\ coming \in [Editors -> Seq(Told)]
  <2>1. page \in [Editors -> Page]
    BY <1>1, <1>3 DEF Init, PageInv
  <2>. QED
    BY <2>1 DEF Init, TypeOK
<1>6. PortsExclusive
  BY DEF Init, PortsExclusive
<1>. QED
  BY <1>2, <1>4, <1>5, <1>6 DEF Init, Inv

(* A step that leaves the server alone and forgets no path that was put on    *)
(* another leaves the list with one path a port.                              *)
LEMMA ListKept ==
  ASSUME PortsExclusive, joins' = joins,
         \A e \in Editors : page[e].overlaid => page'[e].overlaid
  PROVE  PortsExclusive'
BY DEF PortsExclusive

LEMMA GestureInv ==
  ASSUME Inv, NEW e \in Editors, NEW pages, Does(e, pages),
         \A r \in pages : PageInv(r) /\ r.overlaid = page[e].overlaid
  PROVE  Inv'
<1>1. PICK r \in pages : page' = [page EXCEPT ![e] = r]
  BY DEF Does
<1>2. \A x \in Editors : PageInv(page'[x]) /\ page'[x].overlaid = page[x].overlaid
  BY <1>1 DEF Inv, TypeOK
<1>3. page' \in [Editors -> Page]
  BY <1>1, <1>2 DEF Inv, TypeOK, PageInv
<1>4. PortsExclusive'
  BY <1>2, ListKept DEF Does, Inv, server
<1>5. TypeOK'
  BY <1>3 DEF Does, Inv, TypeOK, server
<1>. QED
  BY <1>2, <1>4, <1>5 DEF Does, Inv, server

LEMMA UserInv ==
  ASSUME Inv, NEW e \in Editors, Press(e) \/ Hold(e) \/ Delete(e)
  PROVE  Inv'
<1>. DEFINE pg == page[e]
<1>1. PageInv(pg) /\ pg \in Page
  BY DEF Inv, PageInv
<1>. HIDE DEF pg
<1>2. CASE Press(e)
  <2>1. ASSUME NEW p \in Ports, Owner[p] \in Shown(pg), Does(e, PortDown(pg, p))
        PROVE  Inv'
    BY <1>1, <2>1, PortDownKeeps, PortDownRemembers, GestureInv DEF pg
  <2>2. ASSUME NEW id \in Shown(pg), Does(e, {NodeDown(pg, id)})
        PROVE  Inv'
    <3>1. PageInv(NodeDown(pg, id)) /\ NodeDown(pg, id).overlaid = pg.overlaid
      BY <1>1, NodeDownKeeps DEF NodeDown, Page
    <3>. QED
      BY <2>2, <3>1, GestureInv DEF pg
  <2>3. ASSUME Does(e, {WindowDown(pg)})
        PROVE  Inv'
    <3>1. {pg.loose} \ {Undefined} \in SUBSET Slots
      BY <1>1 DEF Page
    <3>2. PageInv(WindowDown(pg))
      BY <1>1, WindowDownKeeps
    <3>3. WindowDown(pg).overlaid = pg.overlaid
      BY <1>1, <3>1, RemovePathsFields DEF WindowDown, Page
    <3>. QED
      BY <2>3, <3>2, <3>3, GestureInv DEF pg
  <2>4. ASSUME NEW id \in Ids, NEW place \in Places, Does(e, {Create(pg, id, place)})
        PROVE  Inv'
    <3>1. PageInv(Create(pg, id, place)) /\ Create(pg, id, place).overlaid = pg.overlaid
      BY <1>1, CreateKeeps DEF Create, NodeDown, AddNode, Publish, Page
    <3>. QED
      BY <2>4, <3>1, GestureInv DEF pg
  <2>. QED
    BY <1>2, <2>1, <2>2, <2>3, <2>4 DEF Press, pg
<1>3. CASE Hold(e)
  <2>1. pg.dragged # NoId /\ pg.dragged \in Ids
    BY <1>1, <1>3 DEF Hold, FreeHand, Page, pg
  <2>2. ASSUME NEW place \in Places, Does(e, {Drag(pg, place)})
        PROVE  Inv'
    <3>1. PageInv(Drag(pg, place)) /\ Drag(pg, place).overlaid = pg.overlaid
      BY <1>1, <2>1, PlaceKeeps DEF Drag, Page
    <3>. QED
      BY <2>2, <3>1, GestureInv DEF pg
  <2>3. ASSUME Does(e, {MouseUp(pg)})
        PROVE  Inv'
    <3>1. PageInv(MouseUp(pg)) /\ MouseUp(pg).overlaid = pg.overlaid
      BY <1>1, <2>1, MouseUpKeeps DEF MouseUp, Publish, Page
    <3>. QED
      BY <2>3, <3>1, GestureInv DEF pg
  <2>. QED
    BY <1>3, <2>2, <2>3 DEF Hold, pg
<1>4. CASE Delete(e)
  <2>. DEFINE id == pg.selected
  <2>1. id \in Ids /\ Does(e, RemoveNode(pg, id, FALSE))
    BY <1>1, <1>4 DEF Delete, Page, pg
  <2>2. FALSE \in BOOLEAN
    OBVIOUS
  <2>. HIDE DEF id
  <2>3. \A r \in RemoveNode(pg, id, FALSE) : PageInv(r) /\ r.overlaid = pg.overlaid
    BY <1>1, <2>1, <2>2, RemoveNodeKeeps, RemoveNodeRemembers
  <2>. QED
    BY <2>1, <2>3, GestureInv DEF pg
<1>. QED
  BY <1>2, <1>3, <1>4

LEMMA PublishesKeeps ==
  ASSUME Inv, NEW ms \in Seq(Told), Publishes(ms)
  PROVE  coming' \in [Editors -> Seq(Told)]
<1>1. \A e \in Editors : coming[e] \o ms \in Seq(Told)
  BY ConcatProperties DEF Inv
<1>. QED
  BY <1>1 DEF Publishes, Inv

(* Whatever the server does with a message, its paths fit, what it says is    *)
(* about such paths, and of a list with one path a port it takes no second.   *)
LEMMA ServerKeeps ==
  ASSUME Inv, NEW m \in Told,
         IF m.type = "paths" THEN ServePaths(m)
         ELSE ServeModule(m) \/ ServeRemoval(m) \/ ServeUnknown(m)
  PROVE  /\ coming' \in [Editors -> Seq(Told)]
         /\ modules' \in [Ids -> Places \cup {Away}] /\ joins' \in SUBSET GoodJoin
         /\ published' \subseteq Ids
         /\ m.type = "paths" => joins' \subseteq m.names
         /\ m.type # "paths" => joins' \subseteq joins
<1>. USE NodeEditorAssumption
<1>1. coming \in [Editors -> Seq(Told)] /\ modules \in [Ids -> Places \cup {Away}]
      /\ joins \in SUBSET GoodJoin /\ published \subseteq Ids
  BY DEF Inv, TypeOK
<1>2. <<>> \in Seq(Told)
  OBVIOUS
<1>3. CASE m.type = "paths"
  <2>1. m.names \in SUBSET GoodJoin
    BY <1>3 DEF Told, ModuleMessage
  <2>2. /\ joins' = Accepted(m.names) /\ modules' = modules /\ published' = published
        /\ Publishes(IF joins' = joins THEN <<>> ELSE <<PathsMsg(joins')>>)
    BY <1>3 DEF ServePaths
  <2>3. joins' \in SUBSET GoodJoin /\ joins' \subseteq m.names
    BY <2>1, <2>2 DEF Accepted
  <2>4. PathsMsg(joins') \in Told
    BY <2>3 DEF PathsMsg, Told
  <2>5. (IF joins' = joins THEN <<>> ELSE <<PathsMsg(joins')>>) \in Seq(Told)
    BY <1>2, <2>4
  <2>. QED
    BY <1>1, <1>3, <2>2, <2>3, <2>5, PublishesKeeps
<1>4. CASE m.type # "paths"
  <2>1. m.id \in Ids /\ m.place \in Places \cup {Away} /\ <<m>> \in Seq(Told)
    BY <1>4 DEF Told, ModuleMessage
  <2>2. CASE ServeModule(m)
    <3>1. modules' = [modules EXCEPT ![m.id] = m.place] /\ joins' = joins
          /\ published' = published \cup {m.id}
          /\ Publishes(IF modules' = modules THEN <<>> ELSE <<m>>)
      BY <2>2 DEF ServeModule
    <3>2. (IF modules' = modules THEN <<>> ELSE <<m>>) \in Seq(Told)
      BY <1>2, <2>1
    <3>. QED
      BY <1>1, <1>4, <2>1, <3>1, <3>2, PublishesKeeps
  <2>3. CASE ServeRemoval(m) /\ m.id \in Sockets
    BY <1>1, <1>4, <2>3 DEF ServeRemoval, server
  <2>4. CASE ServeRemoval(m) /\ m.id \notin Sockets
    <3>. DEFINE ms == <<m>> \o IF joins' = joins THEN <<>> ELSE <<PathsMsg(joins')>>
    <3>1. /\ modules' = [modules EXCEPT ![m.id] = Away] /\ joins' \subseteq joins
          /\ published' = published /\ Publishes(ms)
      BY <2>4 DEF ServeRemoval
    <3>2. PathsMsg(joins') \in Told
      BY <1>1, <3>1 DEF PathsMsg, Told
    <3>3. (IF joins' = joins THEN <<>> ELSE <<PathsMsg(joins')>>) \in Seq(Told)
      BY <1>2, <3>2
    <3>4. ms \in Seq(Told)
      BY <2>1, <3>3, ConcatProperties
    <3>. HIDE DEF ms
    <3>. QED
      BY <1>1, <1>4, <2>1, <3>1, <3>4, PublishesKeeps
  <2>5. CASE ServeUnknown(m)
    <3>1. modules' = modules /\ joins' = joins /\ published' = published \cup {m.id}
          /\ Publishes(IF m.id \in published THEN <<>> ELSE <<m>>)
      BY <2>5 DEF ServeUnknown
    <3>2. (IF m.id \in published THEN <<>> ELSE <<m>>) \in Seq(Told)
      BY <1>2, <2>1
    <3>. QED
      BY <1>1, <1>4, <2>1, <3>1, <3>2, PublishesKeeps
  <2>. QED
    BY <1>4, <2>2, <2>3, <2>4, <2>5
<1>. QED
  BY <1>3, <1>4

LEMMA ServeInv ==
  ASSUME Inv, NEW e \in Editors, Serve(e)
  PROVE  Inv'
<1>. DEFINE pg == page[e]
            m == Head(pg.sent)
            s == Tail(pg.sent)
<1>1. PageInv(pg) /\ pg.sent # <<>> /\ pg.sent \in Seq(Told)
  BY DEF Inv, Serve, PageInv, Said
<1>2. m \in Told /\ s \in Seq(Told)
  BY <1>1, HeadTailProperties
<1>3. ~pg.overlaid => m \in ToldOnce /\ s \in Seq(ToldOnce)
  BY <1>1, HeadTailProperties DEF PageInv, Said
<1>4. /\ IF m.type = "paths" THEN ServePaths(m)
         ELSE ServeModule(m) \/ ServeRemoval(m) \/ ServeUnknown(m)
      /\ page' = [page EXCEPT ![e] = [pg EXCEPT !.sent = s]]
      /\ UNCHANGED <<link, gestures, losses, strays>>
  BY DEF Serve, Inv, TypeOK
<1>. HIDE DEF m, s, pg
<1>5. /\ coming' \in [Editors -> Seq(Told)]
      /\ modules' \in [Ids -> Places \cup {Away}] /\ joins' \in SUBSET GoodJoin
      /\ published' \subseteq Ids
      /\ m.type = "paths" => joins' \subseteq m.names
      /\ m.type # "paths" => joins' \subseteq joins
  BY <1>2, <1>4, ServerKeeps
<1>6. \A x \in Editors : PageInv(page'[x]) /\ page'[x].overlaid = page[x].overlaid
  <2>1. PageInv([pg EXCEPT !.sent = s]) /\ [pg EXCEPT !.sent = s].overlaid = pg.overlaid
    BY <1>1, <1>2, <1>3, SentKeeps
  <2>. QED
    BY <1>4, <2>1 DEF Inv, TypeOK, pg
<1>7. TypeOK'
  <2>1. page' \in [Editors -> Page]
    BY <1>4, <1>6 DEF Inv, TypeOK, PageInv
  <2>2. coming' \in [Editors -> Seq(Message)]
    BY <1>5, ToldIsMessage, SeqMonotonic
  <2>. QED
    BY <1>4, <1>5, <2>1, <2>2 DEF Inv, TypeOK, GoodJoin
<1>8. PortsExclusive'
  <2>1. SUFFICES ASSUME \A x \in Editors : ~page'[x].overlaid PROVE Exclusive(joins')
    BY DEF PortsExclusive, Exclusive
  <2>2. \A x \in Editors : ~page[x].overlaid
    BY <1>6, <2>1
  <2>3. CASE m.type = "paths"
    <3>1. m \in ToldOnce
      BY <1>3, <2>2 DEF pg
    <3>2. Exclusive(m.names)
      BY <2>3, <3>1 DEF ToldOnce, ModuleMessage
    <3>. QED
      BY <1>5, <2>3, <3>2 DEF Exclusive
  <2>4. CASE m.type # "paths"
    BY <1>5, <2>2, <2>4 DEF Inv, PortsExclusive, Exclusive
  <2>. QED
    BY <2>3, <2>4
<1>. QED
  BY <1>5, <1>6, <1>7, <1>8 DEF Inv

LEMMA ReceiveInv ==
  ASSUME Inv, NEW e \in Editors, Receive(e)
  PROVE  Inv'
<1>. DEFINE m == Head(coming[e])
<1>1. coming[e] \in Seq(Told) /\ coming[e] # <<>>
  BY DEF Inv, Receive
<1>2. m \in Told /\ Tail(coming[e]) \in Seq(Told)
  BY <1>1, HeadTailProperties
<1>0. PICK rs \in BOOLEAN :
        \E pg \in Handle(page[e], m, rs) : page' = [page EXCEPT ![e] = pg]
  BY DEF Receive
<1>3. PICK r \in Handle(page[e], m, rs) : page' = [page EXCEPT ![e] = r]
  BY <1>0
<1>4. /\ coming' = [coming EXCEPT ![e] = Tail(coming[e])]
      /\ link' \in [Editors -> {"down", "up", "deaf"}]
      /\ UNCHANGED <<server, gestures, losses, strays>>
  BY DEF Receive, Inv, TypeOK
<1>. HIDE DEF m
<1>5. PageInv(page[e]) /\ PageInv(r) /\ (page[e].overlaid => r.overlaid)
  BY <1>2, HandleKeeps, HandleRemembers DEF Inv
<1>6. \A x \in Editors : PageInv(page'[x]) /\ (page[x].overlaid => page'[x].overlaid)
  BY <1>3, <1>5 DEF Inv, TypeOK
<1>7. coming' \in [Editors -> Seq(Told)]
  BY <1>2, <1>4 DEF Inv
<1>8. TypeOK'
  <2>1. page' \in [Editors -> Page]
    BY <1>3, <1>6 DEF Inv, TypeOK, PageInv
  <2>2. coming' \in [Editors -> Seq(Message)]
    BY <1>7, ToldIsMessage, SeqMonotonic
  <2>. QED
    BY <1>4, <2>1, <2>2 DEF Inv, TypeOK, server
<1>. QED
  BY <1>4, <1>6, <1>7, <1>8, ListKept DEF Inv, server

(* The connect handler is told of modules and paths the server has. *)
LEMMA ConnectInv ==
  ASSUME Inv, NEW e \in Editors, Connect(e)
  PROVE  Inv'
<1>. USE NodeEditorAssumption
<1>. DEFINE live == {id \in Ids : modules[id] # Away}
            n == Cardinality(live)
<1>1. PICK order \in Retained[live] :
        coming' = [coming EXCEPT ![e] =
          [k \in 1..n |-> ModuleMsg(order[k], modules[order[k]])] \o <<PathsMsg(joins)>>]
  BY DEF Connect
<1>2. /\ link' \in [Editors -> {"down", "up", "deaf"}]
      /\ strays' \in [Editors -> SUBSET Ids]
      /\ UNCHANGED <<page, server, gestures, losses>>
  BY DEF Connect, Inv, TypeOK, Shown
<1>3. live \in SUBSET Ids /\ n \in Nat
  BY FS_Subset, FS_CardinalityType
<1>. HIDE DEF n
<1>4. order \in [1..n -> live]
  BY <1>1, <1>3, EditorSyncAssumption DEF Bijection, Injection, n
<1>5. \A k \in 1..n : ModuleMsg(order[k], modules[order[k]]) \in Told
  <2>1. \A id \in live : ModuleMsg(id, modules[id]) \in Told
    BY <1>3 DEF ModuleMsg, Told, ModuleMessage, Inv, TypeOK
  <2>. HIDE DEF live
  <2>. QED
    BY <1>4, <2>1
<1>. DEFINE told == [k \in 1..n |-> ModuleMsg(order[k], modules[order[k]])]
<1>6. told \in Seq(Told)
  <2>1. told \in [1..n -> Told]
    BY <1>5
  <2>. HIDE DEF told
  <2>. QED
    BY <1>3, <2>1
<1>7. <<PathsMsg(joins)>> \in Seq(Told)
  <2>1. PathsMsg(joins) \in Told
    BY DEF PathsMsg, Told, Inv
  <2>. QED
    BY <2>1
<1>. HIDE DEF told
<1>8. told \o <<PathsMsg(joins)>> \in Seq(Told)
  BY <1>6, <1>7, ConcatProperties
<1>9. coming' \in [Editors -> Seq(Told)]
  BY <1>1, <1>8 DEF Inv, told
<1>10. TypeOK'
  <2>1. coming' \in [Editors -> Seq(Message)]
    BY <1>9, ToldIsMessage, SeqMonotonic
  <2>. QED
    BY <1>2, <2>1 DEF Inv, TypeOK, server
<1>. QED
  BY <1>2, <1>9, <1>10, ListKept DEF Inv, server

LEMMA LoseInv ==
  ASSUME Inv, NEW e \in Editors, Lose(e)
  PROVE  Inv'
<1>. DEFINE pg == page[e]
<1>1. PICK n \in 0..Len(pg.sent) : page' = [page EXCEPT ![e].sent = SubSeq(@, 1, n)]
  BY DEF Lose
<1>. DEFINE s == SubSeq(pg.sent, 1, n)
            r == [pg EXCEPT !.sent = s]
<1>2. PageInv(pg) /\ pg.sent \in Seq(Told) /\ (~pg.overlaid => pg.sent \in Seq(ToldOnce))
  BY DEF Inv, PageInv, Said
<1>3. s \in Seq(Told) /\ (~pg.overlaid => s \in Seq(ToldOnce))
  <2>1. 1 \in Int /\ n \in Int /\ \A k \in 1..n : k \in 1..Len(pg.sent)
    BY <1>2, LenProperties
  <2>2. \A k \in 1..n : pg.sent[k] \in Told /\ (~pg.overlaid => pg.sent[k] \in ToldOnce)
    BY <1>2, <2>1, ElementOfSeq
  <2>. QED
    BY <2>1, <2>2, SubSeqProperties
<1>4. page' = [page EXCEPT ![e] = r]
  BY <1>1 DEF Inv, TypeOK
<1>5. PageInv(r) /\ r.overlaid = pg.overlaid
  BY <1>2, <1>3, SentKeeps
<1>. HIDE DEF r
<1>6. \A x \in Editors : PageInv(page'[x]) /\ (page[x].overlaid => page'[x].overlaid)
  BY <1>4, <1>5 DEF Inv, TypeOK
<1>7. coming' = [coming EXCEPT ![e] = <<>>] /\ coming' \in [Editors -> Seq(Told)]
  BY DEF Lose, Inv
<1>8. TypeOK'
  <2>1. page' \in [Editors -> Page]
    BY <1>4, <1>6 DEF Inv, TypeOK, PageInv
  <2>2. coming' \in [Editors -> Seq(Message)]
    BY <1>7, ToldIsMessage, SeqMonotonic
  <2>. QED
    BY <2>1, <2>2 DEF Lose, Inv, TypeOK, server
<1>9. joins' = joins
  BY DEF Lose, server
<1>. QED
  BY <1>6, <1>7, <1>8, <1>9, ListKept DEF Inv

LEMMA StepInv == Inv /\ [Next]_vars => Inv'
<1>1. ASSUME Inv, UNCHANGED vars PROVE Inv'
  BY <1>1 DEF Inv, vars, server, TypeOK, PortsExclusive
<1>. QED
  BY <1>1, UserInv, ServeInv, ReceiveInv, ConnectInv, LoseInv DEF Next

LEMMA InvAlways == Spec => []Inv
BY InitInv, StepInv, PTL DEF Spec

----------------------------------------------------------------------------
(* Whatever the pages, the server and the network do, each variable keeps its *)
(* type.                                                                      *)
THEOREM TypeCorrect == Spec => []TypeOK
<1>1. Inv => TypeOK
  BY DEF Inv
<1>. QED
  BY InvAlways, <1>1, PTL

(* No page ever draws a path to a module it does not show: neither removeNode *)
(* nor a list that is received leaves one (node_editor.js:251, 332).          *)
THEOREM PathsStayAtNodes == Spec => []PathsAtNodes
<1>1. Inv => PathsAtNodes
  BY DEF Inv, PageInv, Rooted, PathsAtNodes
<1>. QED
  BY InvAlways, <1>1, PTL

(* What a port believes it is connected to ends at it, and every end of a     *)
(* path has its port, unless a path was put on a port that had one            *)
(* (node_editor.js:1200, 1328).                                               *)
THEOREM PortsStayConnected == Spec => []PortsConnected
<1>1. Inv => PortsConnected
  BY DEF Inv, PageInv, Wired, PortsConnected
<1>. QED
  BY InvAlways, <1>1, PTL

(* A page never has a second path that hangs on the mouse                     *)
(* (node_editor.js:1228).                                                     *)
THEOREM OnePathHangs == Spec => []OneLoosePath
<1>1. Inv => OneLoosePath
  BY DEF Inv, PageInv, Hanging, OneLoosePath
<1>. QED
  BY InvAlways, <1>1, PTL

(* What is selected or held is shown, whatever messages take nodes away       *)
(* meanwhile (node_editor.js:110, 126, 252).                                  *)
THEOREM SelectionStaysShown == Spec => []SelectionShown
<1>1. Inv => SelectionShown
  BY DEF Inv, PageInv, Held, SelectionShown
<1>. QED
  BY InvAlways, <1>1, PTL

(* The server's list keeps one path a port as long as no page put one path    *)
(* over another, however many pages edit it and whatever they lose.           *)
THEOREM PortsStayExclusive == Spec => []PortsExclusive
<1>1. Inv => PortsExclusive
  BY DEF Inv
<1>. QED
  BY InvAlways, <1>1, PTL
----------------------------------------------------------------------------
(* From here on: a settled page agrees with the server.  While messages are   *)
(* on their way it need not, and the invariant says what makes up for it.     *)

(* The modules at the ends of a path, and the messages about a module.        *)
Owners(j) == {Owner[j.from], Owner[j.to]}
About(m, x) == m.type = "module" /\ m.id = x

(* What a sequence of messages says of a module, and last of it; and its list. *)
Mentions(ms, x) == \E k \in 1..Len(ms) : About(ms[k], x)
Removes(ms, x) == \E k \in 1..Len(ms) : About(ms[k], x) /\ ms[k].place = Away
LastSaid(ms, x, place) ==
  \E k \in 1..Len(ms) : /\ About(ms[k], x) /\ ms[k].place = place
                        /\ \A l \in 1..Len(ms) : About(ms[l], x) => l <= k
Listed(ms) == \E k \in 1..Len(ms) : ms[k].type = "paths"
LastList(ms, k) ==
  /\ k \in 1..Len(ms) /\ ms[k].type = "paths"
  /\ \A l \in 1..Len(ms) : ms[l].type = "paths" => l <= k

(* A module is placed after message i, and a list comes after that. *)
Restores(ms, i, x) ==
  \E l, k \in 1..Len(ms) : /\ i < l /\ l < k
                           /\ About(ms[l], x) /\ ms[l].place # Away
                           /\ ms[k].type = "paths"

(* The page shows module x as it is at place, which the user may be changing. *)
Shows(pg, x, place) ==
  /\ pg.nodes[x] = Away <=> place = Away
  /\ x # pg.dragged => pg.nodes[x] = place

(* pg: a page; c: what the server told it and it has not handled; mods, J: the *)
(* modules and the paths of the server; st: its strays.                       *)

(* The last word on a module that is on its way is what the server has.       *)
NodesTold(c, mods) == \A x \in Ids : Mentions(c, x) => LastSaid(c, x, mods[x])

(* Of a module no word is on its way about, the page shows what the server    *)
(* has, or what it has said itself, or a module the server no longer has that *)
(* it has just placed or kept over a lost connection.                         *)
NodesFollow(pg, c, mods, st) ==
  \A x \in Ids : ~ Mentions(c, x) =>
    \/ Shows(pg, x, mods[x])
    \/ \E place \in Places \cup {Away} : LastSaid(pg.sent, x, place) /\ Shows(pg, x, place)
    \/ mods[x] = Away /\ x \in st \cup Placed(pg.sent)

(* The last list on its way is the server's.                                  *)
ListTold(c, J) == \A k \in 1..Len(c) : LastList(c, k) => c[k].names = J

(* The ends of the server's paths are on the page, or it has removed them, or *)
(* they are on their way and a list comes after them.                         *)
EndsFollow(pg, c, J) ==
  \A j \in J : \A x \in Owners(j) : x \in Shown(pg) \/ Removes(pg.sent, x) \/ Restores(c, 0, x)

(* A removal on its way of such an end is taken back before another list.     *)
EndsRestored(c, J) ==
  \A j \in J : \A x \in Owners(j) : \A i \in 1..Len(c) :
    About(c[i], x) /\ c[i].place = Away => Restores(c, i, x)

(* No list is on its way: what the page draws and the server does not list is *)
(* at a module that is about to go or a stray; what it lists and the page     *)
(* does not draw is at a module the page has removed.                         *)
PathsHeard(pg, c, J, st) ==
  /\ \A j \in SerializePaths(pg) \ J : \E x \in Owners(j) : Removes(c, x) \/ x \in st
  /\ \A j \in J \ SerializePaths(pg) : \E x \in Owners(j) : Removes(pg.sent, x)

(* Or the page has said a list itself that its later removals alone have left *)
(* behind, and at the ends of which the server has or gets a module.          *)
PathsSaid(pg, c, mods, J, st) ==
  \E k \in 1..Len(pg.sent) :
    /\ LastList(pg.sent, k)
    /\ SerializePaths(pg) \subseteq pg.sent[k].names
    /\ (pg.sent[k].names \ SerializePaths(pg)) \cap J = {}
    /\ \A j \in SerializePaths(pg) : \A x \in Owners(j) :
         \/ mods[x] # Away \/ Removes(c, x) \/ x \in st
         \/ \E i \in 1..(k - 1) : About(pg.sent[i], x) /\ pg.sent[i].place # Away

Follows(pg, c, mods, J, st) ==
  /\ NodesTold(c, mods) /\ NodesFollow(pg, c, mods, st)
  /\ ListTold(c, J) /\ EndsFollow(pg, c, J) /\ EndsRestored(c, J)
  /\ ~ Listed(c) => PathsHeard(pg, c, J, st) \/ PathsSaid(pg, c, mods, J, st)

(* The inductive invariant of Agreement.                                      *)
FollowInv ==
  /\ \A j \in joins : \A x \in Owners(j) : modules[x] # Away
  /\ \A e \in Editors, x \in Sockets : ~ Removes(page[e].sent, x)
  /\ \A e \in Editors : link[e] = "deaf" => page[e].thrown
  /\ \A e \in Editors : link[e] = "up" /\ ~ page[e].thrown =>
       Follows(page[e], coming[e], modules, joins, strays[e])

----------------------------------------------------------------------------
LEMMA AppendSays ==
  ASSUME NEW s \in Seq(Told), NEW m \in Told, NEW x \in Ids
  PROVE  LET t == Append(s, m)
         IN  /\ Mentions(t, x) <=> Mentions(s, x) \/ About(m, x)
             /\ Removes(t, x) <=> Removes(s, x) \/ (About(m, x) /\ m.place = Away)
             /\ x \in Placed(t) <=> x \in Placed(s) \/ (About(m, x) /\ m.place # Away)
             /\ \A place : LastSaid(t, x, place) <=>
                  IF About(m, x) THEN m.place = place ELSE LastSaid(s, x, place)
             /\ \A i : Restores(s, i, x) => Restores(t, i, x)
<1>. DEFINE t == Append(s, m)
            n == Len(s)
<1>1. /\ t \in Seq(Told) /\ Len(t) = n + 1 /\ n \in Nat
      /\ \A k \in 1..n : t[k] = s[k]
      /\ t[n + 1] = m
  BY AppendProperties, LenProperties
<1>. HIDE DEF t, n
<1>2. \A k \in 1..(n + 1) : k \in 1..n \/ k = n + 1
  BY <1>1
<1>3. 1..n \subseteq 1..(n + 1) /\ n + 1 \in 1..(n + 1)
  BY <1>1
<1>4. /\ Mentions(t, x) <=> Mentions(s, x) \/ About(m, x)
      /\ Removes(t, x) <=> Removes(s, x) \/ (About(m, x) /\ m.place = Away)
      /\ x \in Placed(t) <=> x \in Placed(s) \/ (About(m, x) /\ m.place # Away)
  BY <1>1, <1>2, <1>3 DEF Mentions, Removes, Placed, About, n
<1>5. ASSUME NEW place
      PROVE  LastSaid(t, x, place) <=>
                  IF About(m, x) THEN m.place = place ELSE LastSaid(s, x, place)
  <2>1. CASE About(m, x)
    BY <1>1, <1>2, <1>3, <2>1 DEF LastSaid
  <2>2. CASE ~ About(m, x)
    BY <1>1, <1>2, <1>3, <2>2 DEF LastSaid, n
  <2>. QED
    BY <2>1, <2>2
<1>6. ASSUME NEW i, Restores(s, i, x)
      PROVE  Restores(t, i, x)
  BY <1>1, <1>3, <1>6 DEF Restores, n
<1>. QED
  BY <1>4, <1>5, <1>6 DEF t

LEMMA AppendLists ==
  ASSUME NEW s \in Seq(Told), NEW m \in Told
  PROVE  LET t == Append(s, m)
         IN  /\ t \in Seq(Told) /\ Len(t) = Len(s) + 1 /\ Len(s) \in Nat
             /\ \A k \in 1..Len(s) : t[k] = s[k]
             /\ t[Len(s) + 1] = m
             /\ Listed(t) <=> Listed(s) \/ m.type = "paths"
             /\ \A k : LastList(t, k) <=>
                  IF m.type = "paths" THEN k = Len(s) + 1 ELSE LastList(s, k)
<1>. DEFINE t == Append(s, m)
            n == Len(s)
<1>1. /\ t \in Seq(Told) /\ Len(t) = n + 1 /\ n \in Nat
      /\ \A k \in 1..n : t[k] = s[k]
      /\ t[n + 1] = m
  BY AppendProperties, LenProperties
<1>. HIDE DEF t, n
<1>2. \A k \in 1..(n + 1) : k \in 1..n \/ k = n + 1
  BY <1>1
<1>3. 1..n \subseteq 1..(n + 1) /\ n + 1 \in 1..(n + 1)
  BY <1>1
<1>4. Listed(t) <=> Listed(s) \/ m.type = "paths"
  BY <1>1, <1>2, <1>3 DEF Listed, n
<1>5. ASSUME NEW k
      PROVE  LastList(t, k) <=> IF m.type = "paths" THEN k = n + 1 ELSE LastList(s, k)
  <2>1. CASE m.type = "paths"
    BY <1>1, <1>2, <1>3, <2>1 DEF LastList
  <2>2. CASE m.type # "paths"
    BY <1>1, <1>2, <1>3, <2>2 DEF LastList, n
  <2>. QED
    BY <2>1, <2>2
<1>. QED
  BY <1>1, <1>4, <1>5 DEF t, n

LEMMA TailSays ==
  ASSUME NEW s \in Seq(Told), s # <<>>, NEW x \in Ids
  PROVE  LET t == Tail(s)
             m == Head(s)
         IN  /\ Mentions(s, x) <=> Mentions(t, x) \/ About(m, x)
             /\ Removes(s, x) <=> Removes(t, x) \/ (About(m, x) /\ m.place = Away)
             /\ x \in Placed(s) <=> x \in Placed(t) \/ (About(m, x) /\ m.place # Away)
             /\ \A place : LastSaid(s, x, place) <=>
                  IF Mentions(t, x) THEN LastSaid(t, x, place) ELSE About(m, x) /\ m.place = place
             /\ Restores(s, 1, x) <=> Restores(t, 0, x)
             /\ Restores(s, 0, x) => Restores(t, 0, x) \/ (About(m, x) /\ m.place # Away /\ Listed(t))
             /\ \A i \in Nat : Restores(s, i + 1, x) => Restores(t, i, x)
<1>. DEFINE t == Tail(s)
            m == Head(s)
            n == Len(t)
<1>1. /\ t \in Seq(Told) /\ Len(s) = n + 1 /\ n \in Nat
      /\ \A k \in 1..n : t[k] = s[k + 1]
      /\ m = s[1]
  BY HeadTailProperties, LenProperties
<1>. HIDE DEF t, m, n
<1>2. /\ \A k \in 1..(n + 1) : k = 1 \/ (k - 1 \in 1..n /\ s[k] = t[k - 1])
      /\ \A k \in 1..n : k + 1 \in 1..(n + 1)
      /\ 1 \in 1..(n + 1)
  BY <1>1
<1>3. /\ Mentions(s, x) <=> Mentions(t, x) \/ About(m, x)
      /\ Removes(s, x) <=> Removes(t, x) \/ (About(m, x) /\ m.place = Away)
      /\ x \in Placed(s) <=> x \in Placed(t) \/ (About(m, x) /\ m.place # Away)
  <2>1. Mentions(s, x) <=> Mentions(t, x) \/ About(m, x)
    BY <1>1, <1>2 DEF Mentions, n
  <2>2. Removes(s, x) <=> Removes(t, x) \/ (About(m, x) /\ m.place = Away)
    <3>1. ASSUME Removes(s, x) PROVE Removes(t, x) \/ (About(m, x) /\ m.place = Away)
      <4>1. PICK k \in 1..(n + 1) : About(s[k], x) /\ s[k].place = Away
        BY <1>1, <3>1 DEF Removes
      <4>2. CASE k = 1
        BY <1>1, <4>1, <4>2
      <4>3. CASE k # 1
        <5>1. k - 1 \in 1..n /\ About(t[k - 1], x) /\ t[k - 1].place = Away
          BY <1>2, <4>1, <4>3
        <5>. QED
          BY ONLY <5>1, x \in Ids DEF Removes, n
      <4>. QED
        BY <4>2, <4>3
    <3>2. ASSUME Removes(t, x) PROVE Removes(s, x)
      BY <1>1, <1>2, <3>2 DEF Removes, n
    <3>3. ASSUME About(m, x), m.place = Away PROVE Removes(s, x)
      BY <1>1, <1>2, <3>3 DEF Removes
    <3>. QED
      BY <3>1, <3>2, <3>3
  <2>3. x \in Placed(s) <=> x \in Placed(t) \/ (About(m, x) /\ m.place # Away)
    <3>1. ASSUME x \in Placed(s) PROVE x \in Placed(t) \/ (About(m, x) /\ m.place # Away)
      <4>1. PICK k \in 1..(n + 1) : About(s[k], x) /\ s[k].place # Away
        BY <1>1, <3>1 DEF Placed, About
      <4>2. CASE k = 1
        BY <1>1, <4>1, <4>2
      <4>3. CASE k # 1
        <5>1. k - 1 \in 1..n /\ About(t[k - 1], x) /\ t[k - 1].place # Away
          BY <1>2, <4>1, <4>3
        <5>. QED
          BY ONLY <5>1, x \in Ids DEF Placed, About, n
      <4>. QED
        BY <4>2, <4>3
    <3>2. ASSUME x \in Placed(t) PROVE x \in Placed(s)
      BY <1>1, <1>2, <3>2 DEF Placed, n
    <3>3. ASSUME About(m, x), m.place # Away PROVE x \in Placed(s)
      BY <1>1, <1>2, <3>3 DEF Placed, About
    <3>. QED
      BY <3>1, <3>2, <3>3
  <2>. QED
    BY <2>1, <2>2, <2>3
<1>4. ASSUME NEW place
      PROVE  LastSaid(s, x, place) <=>
               IF Mentions(t, x) THEN LastSaid(t, x, place) ELSE About(m, x) /\ m.place = place
  <2>1. CASE ~ Mentions(t, x)
    <3>1. \A k \in 1..(n + 1) : About(s[k], x) => k = 1
      BY <1>2, <2>1 DEF Mentions, n
    <3>2. 1 <= 1
      OBVIOUS
    <3>. QED
      BY <1>1, <1>2, <2>1, <3>1, <3>2 DEF LastSaid
  <2>2. CASE Mentions(t, x)
    <3>1. ASSUME LastSaid(s, x, place) PROVE LastSaid(t, x, place)
      <4>1. PICK k \in 1..(n + 1) : /\ About(s[k], x) /\ s[k].place = place
                                    /\ \A l \in 1..(n + 1) : About(s[l], x) => l <= k
        BY <1>1, <3>1 DEF LastSaid
      <4>2. PICK l \in 1..n : About(t[l], x)
        BY <2>2 DEF Mentions, n
      <4>3. k # 1
        BY <1>1, <1>2, <4>1, <4>2
      <4>4. \A i \in 1..n : About(t[i], x) => i <= k - 1
        BY <1>1, <1>2, <4>1
      <4>. QED
        BY <1>2, <4>1, <4>3, <4>4 DEF LastSaid, n
    <3>2. ASSUME LastSaid(t, x, place) PROVE LastSaid(s, x, place)
      <4>1. PICK k \in 1..n : /\ About(t[k], x) /\ t[k].place = place
                              /\ \A l \in 1..n : About(t[l], x) => l <= k
        BY <3>2 DEF LastSaid, n
      <4>2. \A l \in 1..(n + 1) : About(s[l], x) => l <= k + 1
        BY <1>1, <1>2, <4>1
      <4>. QED
        BY <1>1, <1>2, <4>1, <4>2 DEF LastSaid
    <3>. QED
      BY <2>2, <3>1, <3>2
  <2>. QED
    BY <2>1, <2>2
<1>5. ASSUME NEW i \in Nat, Restores(s, i + 1, x)
      PROVE  Restores(t, i, x)
  <2>1. PICK l \in 1..(n + 1), k \in 1..(n + 1) :
           /\ i + 1 < l /\ l < k /\ About(s[l], x) /\ s[l].place # Away /\ s[k].type = "paths"
    BY <1>1, <1>5 DEF Restores
  <2>2. l # 1 /\ k # 1 /\ i < l - 1 /\ l - 1 < k - 1
    BY <1>1, <2>1
  <2>. QED
    BY <1>2, <2>1, <2>2 DEF Restores, n
<1>6. ASSUME Restores(t, 0, x)
      PROVE  Restores(s, 1, x)
  <2>1. PICK l \in 1..n, k \in 1..n :
           /\ 0 < l /\ l < k /\ About(t[l], x) /\ t[l].place # Away /\ t[k].type = "paths"
    BY <1>6 DEF Restores, n
  <2>2. /\ 1 < l + 1 /\ l + 1 < k + 1 /\ l + 1 \in 1..Len(s) /\ k + 1 \in 1..Len(s)
        /\ s[l + 1] = t[l] /\ s[k + 1] = t[k]
    BY <1>1, <2>1
  <2>. QED
    BY <2>1, <2>2 DEF Restores
<1>7. ASSUME Restores(s, 0, x)
      PROVE  Restores(t, 0, x) \/ (About(m, x) /\ m.place # Away /\ Listed(t))
  <2>1. PICK l \in 1..(n + 1), k \in 1..(n + 1) :
           /\ 0 < l /\ l < k /\ About(s[l], x) /\ s[l].place # Away /\ s[k].type = "paths"
    BY <1>1, <1>7 DEF Restores
  <2>2. k - 1 \in 1..n /\ t[k - 1].type = "paths"
    BY <1>1, <1>2, <2>1
  <2>3. CASE l = 1
    BY <1>1, <2>1, <2>2, <2>3 DEF Listed, n
  <2>4. CASE l # 1
    <3>1. 0 < l - 1 /\ l - 1 < k - 1
      BY <1>1, <2>1, <2>4
    <3>. QED
      BY <1>2, <2>1, <2>2, <2>4, <3>1 DEF Restores, n
  <2>. QED
    BY <2>3, <2>4
<1>8. Restores(s, 1, x) => Restores(t, 0, x)
  BY <1>5
<1>. QED
  BY <1>3, <1>4, <1>5, <1>6, <1>7, <1>8 DEF t, m

LEMMA TailLists ==
  ASSUME NEW s \in Seq(Told), s # <<>>
  PROVE  LET t == Tail(s)
             m == Head(s)
         IN  /\ m \in Told /\ t \in Seq(Told) /\ Len(s) = Len(t) + 1 /\ Len(t) \in Nat
             /\ m = s[1] /\ \A k \in 1..Len(t) : t[k] = s[k + 1]
             /\ \A k \in 1..Len(s) : k = 1 \/ (k - 1 \in 1..Len(t) /\ s[k] = t[k - 1])
             /\ Listed(s) <=> Listed(t) \/ m.type = "paths"
             /\ \A k \in 1..Len(t) : LastList(t, k) <=> LastList(s, k + 1)
             /\ LastList(s, 1) <=> m.type = "paths" /\ ~ Listed(t)
<1>. DEFINE t == Tail(s)
            m == Head(s)
            n == Len(t)
<1>1. /\ m \in Told /\ t \in Seq(Told) /\ Len(s) = n + 1 /\ n \in Nat
      /\ \A k \in 1..n : t[k] = s[k + 1]
      /\ m = s[1]
  BY HeadTailProperties, LenProperties
<1>. HIDE DEF t, m, n
<1>2. /\ \A k \in 1..(n + 1) : k = 1 \/ (k - 1 \in 1..n /\ s[k] = t[k - 1])
      /\ \A k \in 1..n : k + 1 \in 1..(n + 1)
      /\ 1 \in 1..(n + 1)
  BY <1>1
<1>3. Listed(s) <=> Listed(t) \/ m.type = "paths"
  BY <1>1, <1>2 DEF Listed, n
<1>4. ASSUME NEW k \in 1..n PROVE LastList(t, k) <=> LastList(s, k + 1)
  <2>1. k + 1 \in 1..Len(s) /\ s[k + 1] = t[k]
    BY <1>1
  <2>2. (\A l \in 1..n : t[l].type = "paths" => l <= k)
           <=> (\A l \in 1..(n + 1) : s[l].type = "paths" => l <= k + 1)
    <3>1. ASSUME \A l \in 1..n : t[l].type = "paths" => l <= k,
                 NEW l \in 1..(n + 1), s[l].type = "paths"
          PROVE  l <= k + 1
      <4>1. l = 1 \/ (l - 1 \in 1..n /\ t[l - 1].type = "paths")
        BY <1>2, <3>1
      <4>2. l = 1 \/ l - 1 <= k
        BY <3>1, <4>1
      <4>. QED
        BY <1>1, <4>2
    <3>2. ASSUME \A l \in 1..(n + 1) : s[l].type = "paths" => l <= k + 1,
                 NEW l \in 1..n, t[l].type = "paths"
          PROVE  l <= k
      <4>1. l + 1 <= k + 1
        BY <1>1, <1>2, <3>2
      <4>. QED
        BY <1>1, <4>1
    <3>. QED
      BY <3>1, <3>2
  <2>. QED
    BY <1>1, <2>1, <2>2 DEF LastList, n
<1>5. LastList(s, 1) <=> m.type = "paths" /\ ~ Listed(t)
  <2>1. (\A l \in 1..(n + 1) : s[l].type = "paths" => l <= 1) <=> ~ Listed(t)
    <3>1. ASSUME ~ Listed(t), NEW l \in 1..(n + 1), s[l].type = "paths" PROVE l <= 1
      BY <1>1, <1>2, <3>1 DEF Listed, n
    <3>2. ASSUME \A l \in 1..(n + 1) : s[l].type = "paths" => l <= 1,
                 NEW l \in 1..n, t[l].type = "paths"
          PROVE  FALSE
      <4>1. l + 1 <= 1
        BY <1>1, <1>2, <3>2
      <4>. QED
        BY <1>1, <4>1
    <3>. QED
      BY <3>1, <3>2 DEF Listed, n
  <2>. QED
    BY <1>1, <1>2, <2>1 DEF LastList
<1>. QED
  BY <1>1, <1>2, <1>3, <1>4, <1>5 DEF t, m, n
----------------------------------------------------------------------------
(* What the server says is added to what is on its way to a page.             *)

LEMMA AppendPlaces ==
  ASSUME NEW c \in Seq(Told), NEW m \in Told, m.type = "module",
         NEW mods, NEW newMods, NEW pg, NEW st,
         NodesTold(c, mods), NodesFollow(pg, c, mods, st),
         newMods[m.id] = m.place, \A x \in Ids \ {m.id} : newMods[x] = mods[x]
  PROVE  NodesTold(Append(c, m), newMods) /\ NodesFollow(pg, Append(c, m), newMods, st)
<1>. DEFINE d == Append(c, m)
<1>1. \A x \in Ids : /\ Mentions(d, x) <=> Mentions(c, x) \/ About(m, x)
                     /\ \A place : LastSaid(d, x, place) <=>
                          IF About(m, x) THEN m.place = place ELSE LastSaid(c, x, place)
  BY AppendSays
<1>2. \A x \in Ids : About(m, x) <=> x = m.id
  BY DEF About
<1>. HIDE DEF d
<1>. QED
  BY <1>1, <1>2 DEF NodesTold, NodesFollow, d

LEMMA AppendListPlaces ==
  ASSUME NEW c \in Seq(Told), NEW m \in Told, m.type = "paths",
         NEW mods, NEW pg, NEW st,
         NodesTold(c, mods), NodesFollow(pg, c, mods, st)
  PROVE  NodesTold(Append(c, m), mods) /\ NodesFollow(pg, Append(c, m), mods, st)
<1>. DEFINE d == Append(c, m)
<1>1. \A x \in Ids : /\ Mentions(d, x) <=> Mentions(c, x) \/ About(m, x)
                     /\ \A place : LastSaid(d, x, place) <=>
                          IF About(m, x) THEN m.place = place ELSE LastSaid(c, x, place)
  BY AppendSays
<1>2. \A x \in Ids : ~ About(m, x)
  BY DEF About
<1>. HIDE DEF d
<1>. QED
  BY <1>1, <1>2 DEF NodesTold, NodesFollow, d

(* A module that lives is placed by a message that is on its way, or is shown, *)
(* or the page has said that it removes it.                                    *)
LEMMA LiveIsTold ==
  ASSUME NEW c \in Seq(Told), NEW mods, NEW pg, NEW st, NEW x \in Ids,
         NodesTold(c, mods), NodesFollow(pg, c, mods, st), mods[x] # Away
  PROVE  \/ \E k \in 1..Len(c) : About(c[k], x) /\ c[k].place # Away
         \/ x \in Shown(pg) \/ Removes(pg.sent, x)
<1>1. CASE Mentions(c, x)
  BY <1>1 DEF NodesTold, LastSaid
<1>2. CASE ~ Mentions(c, x)
  <2>1. CASE Shows(pg, x, mods[x])
    BY <2>1 DEF Shows, Shown
  <2>2. ASSUME NEW place, LastSaid(pg.sent, x, place), Shows(pg, x, place)
        PROVE  x \in Shown(pg) \/ Removes(pg.sent, x)
    BY <2>2 DEF Shows, Shown, LastSaid, Removes
  <2>. QED
    BY <1>2, <2>1, <2>2 DEF NodesFollow
<1>. QED
  BY <1>1, <1>2

LEMMA OwnersIds ==
  ASSUME NEW j \in Join
  PROVE  Owners(j) \subseteq Ids
BY NodeEditorAssumption DEF Join, Owners

(* The list of the server, at the end of what is on its way. *)
LEMMA AppendList ==
  ASSUME NEW c \in Seq(Told), NEW J \in SUBSET GoodJoin,
         NEW mods, NEW pg, NEW st,
         NodesTold(c, mods), NodesFollow(pg, c, mods, st),
         \A j \in J : \A x \in Owners(j) : mods[x] # Away
  PROVE  LET d == Append(c, PathsMsg(J))
         IN  ListTold(d, J) /\ EndsFollow(pg, d, J) /\ EndsRestored(d, J) /\ Listed(d)
<1>. DEFINE m == PathsMsg(J)
            d == Append(c, m)
            n == Len(c)
<1>1. m \in Told /\ m.type = "paths" /\ m.names = J
  BY DEF PathsMsg, Told
<1>2. \A j \in J : Owners(j) \subseteq Ids
  BY OwnersIds DEF GoodJoin
<1>. HIDE DEF m
<1>3. /\ Len(d) = n + 1 /\ n \in Nat
      /\ \A k \in 1..n : d[k] = c[k]
      /\ d[n + 1] = m
      /\ Listed(d)
      /\ \A k : LastList(d, k) <=> k = n + 1
  BY <1>1, AppendLists
<1>. HIDE DEF d, n
<1>4. ListTold(d, J)
  BY <1>1, <1>3 DEF ListTold
<1>5. n + 1 \in 1..Len(d) /\ \A k \in 1..n : k \in 1..Len(d) /\ 0 < k /\ k < n + 1
  BY <1>3
<1>6. EndsFollow(pg, d, J)
  <2>1. SUFFICES ASSUME NEW j \in J, NEW x \in Owners(j), x \notin Shown(pg), ~ Removes(pg.sent, x)
                 PROVE  Restores(d, 0, x)
    BY DEF EndsFollow
  <2>2. x \in Ids /\ mods[x] # Away
    BY <1>2
  <2>3. PICK k \in 1..n : About(c[k], x) /\ c[k].place # Away
    BY <2>1, <2>2, LiveIsTold DEF n
  <2>. QED
    BY <1>1, <1>3, <1>5, <2>3 DEF Restores
<1>7. EndsRestored(d, J)
  <2>1. SUFFICES ASSUME NEW j \in J, NEW x \in Owners(j), NEW i \in 1..Len(d),
                        About(d[i], x), d[i].place = Away
                 PROVE  Restores(d, i, x)
    BY DEF EndsRestored
  <2>2. x \in Ids /\ mods[x] # Away
    BY <1>2
  <2>3. i \in 1..n /\ About(c[i], x) /\ c[i].place = Away
    <3>1. i # n + 1
      BY <1>1, <1>3, <2>1 DEF About
    <3>. QED
      BY <1>3, <2>1, <3>1
  <2>4. Mentions(c, x)
    BY <2>3 DEF Mentions, n
  <2>5. PICK l \in 1..n : About(c[l], x) /\ c[l].place = mods[x]
                          /\ \A k \in 1..n : About(c[k], x) => k <= l
    BY <2>2, <2>4 DEF NodesTold, LastSaid, n
  <2>6. i < l
    BY <2>2, <2>3, <2>5
  <2>. QED
    BY <1>1, <1>3, <1>5, <2>2, <2>5, <2>6 DEF Restores
<1>. QED
  BY <1>3, <1>4, <1>6, <1>7 DEF d, m

(* A module message leaves what is known of the paths that do not go with it. *)
LEMMA AppendModuleEnds ==
  ASSUME NEW c \in Seq(Told), NEW m \in Told, m.type = "module",
         NEW pg, NEW J \in SUBSET GoodJoin, NEW newJ \in SUBSET J,
         EndsFollow(pg, c, J), EndsRestored(c, J),
         m.place = Away => \A j \in newJ : m.id \notin Owners(j)
  PROVE  EndsFollow(pg, Append(c, m), newJ) /\ EndsRestored(Append(c, m), newJ)
<1>. DEFINE d == Append(c, m)
            n == Len(c)
<1>1. \A j \in J : Owners(j) \subseteq Ids
  BY OwnersIds DEF GoodJoin
<1>2. \A x \in Ids : \A i : Restores(c, i, x) => Restores(d, i, x)
  BY AppendSays
<1>3. /\ Len(d) = n + 1 /\ n \in Nat
      /\ \A k \in 1..n : d[k] = c[k]
      /\ d[n + 1] = m
  BY AppendLists
<1>. HIDE DEF d
<1>4. EndsFollow(pg, d, newJ)
  BY <1>1, <1>2 DEF EndsFollow
<1>5. EndsRestored(d, newJ)
  <2>1. SUFFICES ASSUME NEW j \in newJ, NEW x \in Owners(j), NEW i \in 1..Len(d),
                        About(d[i], x), d[i].place = Away
                 PROVE  Restores(d, i, x)
    BY DEF EndsRestored
  <2>2. i # n + 1
    BY <1>3, <2>1 DEF About
  <2>3. i \in 1..n /\ x \in Ids
    BY <1>1, <1>3, <2>2
  <2>4. Restores(c, i, x)
    BY <1>3, <2>1, <2>3 DEF EndsRestored, n
  <2>. QED
    BY <1>2, <2>3, <2>4
<1>. QED
  BY <1>4, <1>5 DEF d

LEMMA AppendModulePaths ==
  ASSUME NEW c \in Seq(Told), NEW m \in Told, m.type = "module",
         NEW mods, NEW newMods, NEW pg, NEW J \in SUBSET GoodJoin, NEW st,
         SerializePaths(pg) \subseteq GoodJoin,
         newMods[m.id] = m.place, \A x \in Ids \ {m.id} : newMods[x] = mods[x],
         ListTold(c, J),
         ~ Listed(c) => PathsHeard(pg, c, J, st) \/ PathsSaid(pg, c, mods, J, st)
  PROVE  LET d == Append(c, m)
         IN  /\ ListTold(d, J)
             /\ ~ Listed(d) => PathsHeard(pg, d, J, st) \/ PathsSaid(pg, d, newMods, J, st)
<1>. DEFINE d == Append(c, m)
            n == Len(c)
<1>1. \A j \in SerializePaths(pg) : Owners(j) \subseteq Ids
  BY OwnersIds DEF GoodJoin
<1>2. \A x \in Ids : Removes(d, x) <=> Removes(c, x) \/ (About(m, x) /\ m.place = Away)
  BY AppendSays
<1>3. /\ Len(d) = n + 1 /\ n \in Nat
      /\ \A k \in 1..n : d[k] = c[k]
      /\ Listed(d) <=> Listed(c)
      /\ \A k : LastList(d, k) <=> LastList(c, k)
  BY AppendLists
<1>. HIDE DEF d
<1>4. ListTold(d, J)
  BY <1>3 DEF ListTold, LastList, n
<1>5. ASSUME PathsHeard(pg, c, J, st)
      PROVE  PathsHeard(pg, d, J, st)
  BY <1>1, <1>2, <1>5 DEF PathsHeard
<1>6. ASSUME PathsSaid(pg, c, mods, J, st)
      PROVE  PathsSaid(pg, d, newMods, J, st)
  <2>1. \A x \in Ids : mods[x] # Away => newMods[x] # Away \/ Removes(d, x)
    BY <1>2 DEF About
  <2>2. \A x \in Ids : Removes(c, x) => Removes(d, x)
    BY <1>2
  <2>. QED
    BY <1>1, <1>6, <2>1, <2>2 DEF PathsSaid
<1>. QED
  BY <1>3, <1>4, <1>5, <1>6 DEF d

(* The server places a module. *)
LEMMA FollowsPlacing ==
  ASSUME NEW c \in Seq(Told), NEW m \in Told, m.type = "module", m.place # Away,
         NEW mods, NEW newMods, NEW pg, NEW J \in SUBSET GoodJoin, NEW st,
         SerializePaths(pg) \subseteq GoodJoin,
         newMods[m.id] = m.place, \A x \in Ids \ {m.id} : newMods[x] = mods[x],
         Follows(pg, c, mods, J, st)
  PROVE  Follows(pg, Append(c, m), newMods, J, st)
<1>1. NodesTold(Append(c, m), newMods) /\ NodesFollow(pg, Append(c, m), newMods, st)
  BY AppendPlaces DEF Follows
<1>2. EndsFollow(pg, Append(c, m), J) /\ EndsRestored(Append(c, m), J)
  BY AppendModuleEnds DEF Follows
<1>3. /\ ListTold(Append(c, m), J)
      /\ ~ Listed(Append(c, m)) =>
           PathsHeard(pg, Append(c, m), J, st) \/ PathsSaid(pg, Append(c, m), newMods, J, st)
  BY AppendModulePaths DEF Follows
<1>. QED
  BY <1>1, <1>2, <1>3 DEF Follows

(* ... removes one, and with it the paths at it. *)
LEMMA FollowsRemoval ==
  ASSUME NEW c \in Seq(Told), NEW m \in Told, m.type = "module", m.place = Away,
         NEW mods, NEW newMods, NEW pg, NEW J \in SUBSET GoodJoin, NEW newJ \in SUBSET J, NEW st,
         SerializePaths(pg) \subseteq GoodJoin,
         newMods[m.id] = Away, \A x \in Ids \ {m.id} : newMods[x] = mods[x],
         \A j \in newJ : m.id \notin Owners(j),
         \A j \in newJ : \A x \in Owners(j) : newMods[x] # Away,
         Follows(pg, c, mods, J, st)
  PROVE  Follows(pg, IF newJ = J THEN Append(c, m) ELSE Append(Append(c, m), PathsMsg(newJ)),
                 newMods, newJ, st)
<1>. DEFINE d == Append(c, m)
<1>1. NodesTold(d, newMods) /\ NodesFollow(pg, d, newMods, st)
  BY AppendPlaces DEF Follows
<1>2. EndsFollow(pg, d, newJ) /\ EndsRestored(d, newJ)
  BY AppendModuleEnds DEF Follows
<1>3. d \in Seq(Told)
  BY AppendLists
<1>4. CASE newJ = J
  <2>1. /\ ListTold(d, J)
        /\ ~ Listed(d) => PathsHeard(pg, d, J, st) \/ PathsSaid(pg, d, newMods, J, st)
    BY AppendModulePaths DEF Follows
  <2>. HIDE DEF d
  <2>2. Follows(pg, d, newMods, J, st)
    BY <1>1, <1>2, <1>4, <2>1 DEF Follows
  <2>. QED
    BY <1>4, <2>2 DEF d
<1>5. CASE newJ # J
  <2>. HIDE DEF d
  <2>. DEFINE m2 == PathsMsg(newJ)
              d2 == Append(d, m2)
  <2>1. m2 \in Told /\ m2.type = "paths"
    BY DEF PathsMsg, Told
  <2>2. ListTold(d2, newJ) /\ EndsFollow(pg, d2, newJ) /\ EndsRestored(d2, newJ) /\ Listed(d2)
    BY <1>1, <1>3, AppendList
  <2>. HIDE DEF m2
  <2>3. NodesTold(d2, newMods) /\ NodesFollow(pg, d2, newMods, st)
    BY <1>1, <1>3, <2>1, AppendListPlaces
  <2>. HIDE DEF d2
  <2>4. Follows(pg, d2, newMods, newJ, st)
    BY <2>2, <2>3 DEF Follows
  <2>. QED
    BY <1>5, <2>4 DEF d2, m2, d
<1>. QED
  BY <1>4, <1>5

(* ... or takes a list. *)
LEMMA FollowsList ==
  ASSUME NEW c \in Seq(Told), NEW mods, NEW pg, NEW J, NEW newJ \in SUBSET GoodJoin, NEW st,
         \A j \in newJ : \A x \in Owners(j) : mods[x] # Away,
         Follows(pg, c, mods, J, st)
  PROVE  Follows(pg, Append(c, PathsMsg(newJ)), mods, newJ, st)
<1>. DEFINE m == PathsMsg(newJ)
            d == Append(c, m)
<1>1. m \in Told /\ m.type = "paths"
  BY DEF PathsMsg, Told
<1>2. ListTold(d, newJ) /\ EndsFollow(pg, d, newJ) /\ EndsRestored(d, newJ) /\ Listed(d)
  BY AppendList DEF Follows
<1>. HIDE DEF m
<1>3. NodesTold(d, mods) /\ NodesFollow(pg, d, mods, st)
  BY <1>1, AppendListPlaces DEF Follows
<1>. HIDE DEF d
<1>4. Follows(pg, d, mods, newJ, st)
  BY <1>2, <1>3 DEF Follows
<1>. QED
  BY <1>4 DEF d, m
----------------------------------------------------------------------------
(* The first of what a page has sent has been served.                         *)

LEMMA DropModule ==
  ASSUME NEW pg, NEW r, NEW c \in Seq(Told), NEW mods, NEW J \in SUBSET GoodJoin, NEW st,
         pg.sent \in Seq(Told), pg.sent # <<>>, r.sent = Tail(pg.sent),
         r.nodes = pg.nodes, r.dragged = pg.dragged, SerializePaths(r) = SerializePaths(pg),
         SerializePaths(pg) \subseteq GoodJoin,
         Follows(pg, c, mods, J, st),
         \A j \in J : \A x \in Owners(j) : mods[x] # Away,
         Head(pg.sent).type = "module", mods[Head(pg.sent).id] = Head(pg.sent).place
  PROVE  Follows(r, c, mods, J, st)
<1>. DEFINE s == pg.sent
            m == Head(s)
            t == Tail(s)
            n == Len(t)
<1>1. /\ m \in Told /\ t \in Seq(Told) /\ Len(s) = n + 1 /\ n \in Nat
      /\ m = s[1] /\ \A k \in 1..n : t[k] = s[k + 1]
      /\ \A k \in 1..Len(s) : k = 1 \/ (k - 1 \in 1..n /\ s[k] = t[k - 1])
      /\ \A k \in 1..n : LastList(t, k) <=> LastList(s, k + 1)
  BY TailLists
<1>2. \A x \in Ids :
        /\ Removes(s, x) <=> Removes(t, x) \/ (About(m, x) /\ m.place = Away)
        /\ x \in Placed(s) <=> x \in Placed(t) \/ (About(m, x) /\ m.place # Away)
        /\ \A place : LastSaid(s, x, place) <=>
             IF Mentions(t, x) THEN LastSaid(t, x, place) ELSE About(m, x) /\ m.place = place
  BY TailSays
<1>3. \A x \in Ids : About(m, x) => mods[x] = m.place
  BY DEF About
<1>4. \A j \in J \cup SerializePaths(pg) : Owners(j) \subseteq Ids
  BY OwnersIds DEF GoodJoin
<1>5. m.type = "module" /\ r.sent = t /\ \A x : Shows(r, x, mods[x]) <=> Shows(pg, x, mods[x])
  BY DEF Shows
<1>6. Shown(r) = Shown(pg) /\ \A x, place : Shows(r, x, place) <=> Shows(pg, x, place)
  BY DEF Shows, Shown
<1>. HIDE DEF m, t, n
<1>7. NodesFollow(r, c, mods, st)
  <2>1. SUFFICES ASSUME NEW x \in Ids, ~ Mentions(c, x), ~ Shows(pg, x, mods[x]),
                        ~ (mods[x] = Away /\ x \in st \cup Placed(t))
                 PROVE  \E place \in Places \cup {Away} : LastSaid(t, x, place) /\ Shows(pg, x, place)
    BY <1>5, <1>6 DEF NodesFollow
  <2>2. CASE mods[x] = Away /\ x \in st \cup Placed(s)
    BY <1>2, <1>3, <2>1, <2>2
  <2>3. ASSUME NEW place \in Places \cup {Away}, LastSaid(s, x, place), Shows(pg, x, place)
        PROVE  LastSaid(t, x, place)
    BY <1>2, <1>3, <2>1, <2>3
  <2>. QED
    BY <2>1, <2>2, <2>3 DEF Follows, NodesFollow
<1>8. EndsFollow(r, c, J)
  BY <1>2, <1>3, <1>4, <1>5, <1>6 DEF Follows, EndsFollow
<1>9. ASSUME PathsHeard(pg, c, J, st)
      PROVE  PathsHeard(r, c, J, st)
  BY <1>2, <1>3, <1>4, <1>5, <1>9 DEF PathsHeard
<1>10. ASSUME PathsSaid(pg, c, mods, J, st)
       PROVE  PathsSaid(r, c, mods, J, st)
  <2>1. PICK k \in 1..(n + 1) :
          /\ LastList(s, k)
          /\ SerializePaths(pg) \subseteq s[k].names
          /\ (s[k].names \ SerializePaths(pg)) \cap J = {}
          /\ \A j \in SerializePaths(pg) : \A x \in Owners(j) :
               \/ mods[x] # Away \/ Removes(c, x) \/ x \in st
               \/ \E i \in 1..(k - 1) : About(s[i], x) /\ s[i].place # Away
    BY <1>1, <1>10 DEF PathsSaid
  <2>2. k # 1 /\ s[k].type = "paths"
    BY <1>1, <1>5, <2>1 DEF LastList
  <2>3. k - 1 \in 1..n /\ s[k] = t[k - 1] /\ LastList(t, k - 1)
    <3>1. k - 1 \in 1..n /\ s[k] = t[k - 1] /\ (k - 1) + 1 = k
      BY <1>1, <2>2
    <3>. QED
      BY <1>1, <2>1, <3>1
  <2>4. ASSUME NEW j \in SerializePaths(pg), NEW x \in Owners(j),
               NEW i \in 1..(k - 1), About(s[i], x), s[i].place # Away
        PROVE  mods[x] # Away \/ \E l \in 1..(k - 1 - 1) : About(t[l], x) /\ t[l].place # Away
    <3>1. CASE i = 1
      BY <1>1, <1>3, <1>4, <2>4, <3>1
    <3>2. CASE i # 1
      <4>1. i - 1 \in 1..(k - 1 - 1) /\ i \in 1..Len(s)
        BY <1>1, <3>2, <2>1
      <4>. QED
        BY <1>1, <2>4, <3>2, <4>1
    <3>. QED
      BY <3>1, <3>2
  <2>. QED
    BY <1>5, <2>1, <2>3, <2>4 DEF PathsSaid, n
<1>. QED
  BY <1>7, <1>8, <1>9, <1>10 DEF Follows

LEMMA DropList ==
  ASSUME NEW pg, NEW r, NEW c \in Seq(Told), NEW mods, NEW J \in SUBSET GoodJoin, NEW st,
         pg.sent \in Seq(Told), pg.sent # <<>>, r.sent = Tail(pg.sent),
         r.nodes = pg.nodes, r.dragged = pg.dragged, SerializePaths(r) = SerializePaths(pg),
         SerializePaths(pg) \subseteq GoodJoin,
         Follows(pg, c, mods, J, st),
         Head(pg.sent).type = "paths",
         J = {j \in Head(pg.sent).names : \A x \in Owners(j) : mods[x] # Away}
  PROVE  Follows(r, c, mods, J, st)
<1>. DEFINE s == pg.sent
            m == Head(s)
            t == Tail(s)
            n == Len(t)
<1>1. /\ m \in Told /\ t \in Seq(Told) /\ Len(s) = n + 1 /\ n \in Nat
      /\ m = s[1] /\ \A k \in 1..n : t[k] = s[k + 1]
      /\ \A k \in 1..Len(s) : k = 1 \/ (k - 1 \in 1..n /\ s[k] = t[k - 1])
      /\ \A k \in 1..n : LastList(t, k) <=> LastList(s, k + 1)
  BY TailLists
<1>2. \A x \in Ids :
        /\ Removes(s, x) <=> Removes(t, x) \/ (About(m, x) /\ m.place = Away)
        /\ x \in Placed(s) <=> x \in Placed(t) \/ (About(m, x) /\ m.place # Away)
        /\ \A place : LastSaid(s, x, place) <=>
             IF Mentions(t, x) THEN LastSaid(t, x, place) ELSE About(m, x) /\ m.place = place
  BY TailSays
<1>3. \A x \in Ids : ~ About(m, x)
  BY DEF About
<1>4. \A j \in J \cup SerializePaths(pg) : Owners(j) \subseteq Ids
  BY OwnersIds DEF GoodJoin
<1>5. r.sent = t /\ J = {j \in m.names : \A x \in Owners(j) : mods[x] # Away}
  OBVIOUS
<1>6. Shown(r) = Shown(pg) /\ \A x, place : Shows(r, x, place) <=> Shows(pg, x, place)
  BY DEF Shows, Shown
<1>. HIDE DEF m, t, n
<1>7. NodesFollow(r, c, mods, st)
  <2>1. \A x \in Ids : \A place : LastSaid(s, x, place) => LastSaid(t, x, place)
    BY <1>2, <1>3
  <2>. QED
    BY <1>2, <1>3, <1>5, <1>6, <2>1 DEF Follows, NodesFollow
<1>8. EndsFollow(r, c, J)
  BY <1>2, <1>3, <1>4, <1>5, <1>6 DEF Follows, EndsFollow
<1>9. ASSUME PathsHeard(pg, c, J, st)
      PROVE  PathsHeard(r, c, J, st)
  BY <1>2, <1>3, <1>4, <1>5, <1>9 DEF PathsHeard
<1>10. ASSUME PathsSaid(pg, c, mods, J, st)
       PROVE  PathsHeard(r, c, J, st) \/ PathsSaid(r, c, mods, J, st)
  <2>1. PICK k \in 1..(n + 1) :
          /\ LastList(s, k)
          /\ SerializePaths(pg) \subseteq s[k].names
          /\ (s[k].names \ SerializePaths(pg)) \cap J = {}
          /\ \A j \in SerializePaths(pg) : \A x \in Owners(j) :
               \/ mods[x] # Away \/ Removes(c, x) \/ x \in st
               \/ \E i \in 1..(k - 1) : About(s[i], x) /\ s[i].place # Away
    BY <1>1, <1>10 DEF PathsSaid
  <2>2. CASE k = 1
    <3>1. s[k] = m /\ ~ \E i \in 1..(k - 1) : TRUE
      BY <1>1, <2>2
    <3>2. J \ SerializePaths(pg) = {}
      BY <1>5, <2>1, <3>1
    <3>3. \A j \in SerializePaths(pg) \ J : \E x \in Owners(j) : Removes(c, x) \/ x \in st
      BY <1>5, <2>1, <3>1
    <3>. QED
      BY <3>2, <3>3 DEF PathsHeard
  <2>3. CASE k # 1
    <3>1. k - 1 \in 1..n /\ s[k] = t[k - 1] /\ LastList(t, k - 1)
      <4>1. k - 1 \in 1..n /\ s[k] = t[k - 1] /\ (k - 1) + 1 = k
        BY <1>1, <2>3
      <4>. QED
        BY <1>1, <2>1, <4>1
    <3>2. ASSUME NEW j \in SerializePaths(pg), NEW x \in Owners(j),
                 NEW i \in 1..(k - 1), About(s[i], x), s[i].place # Away
          PROVE  \E l \in 1..(k - 1 - 1) : About(t[l], x) /\ t[l].place # Away
      <4>1. i # 1
        BY <1>1, <1>3, <1>4, <3>2
      <4>2. i - 1 \in 1..(k - 1 - 1) /\ i \in 1..Len(s)
        BY <1>1, <4>1, <2>1
      <4>3. s[i] = t[i - 1]
        BY <1>1, <4>1, <4>2
      <4>. QED
        BY ONLY <3>2, <4>2, <4>3
    <3>3. PathsSaid(r, c, mods, J, st)
      <4>1. /\ SerializePaths(pg) \subseteq t[k - 1].names
            /\ (t[k - 1].names \ SerializePaths(pg)) \cap J = {}
            /\ \A j \in SerializePaths(pg) : \A x \in Owners(j) :
                 \/ mods[x] # Away \/ Removes(c, x) \/ x \in st
                 \/ \E i \in 1..(k - 1 - 1) : About(t[i], x) /\ t[i].place # Away
        BY <2>1, <3>1, <3>2
      <4>2. k - 1 \in 1..Len(t)
        BY <3>1 DEF n
      <4>3. \E l \in 1..Len(t) :
              /\ LastList(t, l)
              /\ SerializePaths(pg) \subseteq t[l].names
              /\ (t[l].names \ SerializePaths(pg)) \cap J = {}
              /\ \A j \in SerializePaths(pg) : \A x \in Owners(j) :
                   \/ mods[x] # Away \/ Removes(c, x) \/ x \in st
                   \/ \E i \in 1..(l - 1) : About(t[i], x) /\ t[i].place # Away
        BY ONLY <3>1, <4>1, <4>2, Zenon
      <4>4. r.sent = t /\ SerializePaths(r) = SerializePaths(pg)
        BY <1>5
      <4>. QED
        BY ONLY <4>3, <4>4 DEF PathsSaid
    <3>. QED
      BY <3>3
  <2>. QED
    BY <2>2, <2>3
<1>. QED
  BY <1>7, <1>8, <1>9, <1>10 DEF Follows

----------------------------------------------------------------------------
(* The page handles the first message on its way.                             *)

(* A module message, the handler not having thrown. *)
LEMMA HeardModule ==
  ASSUME NEW pg, NEW r, NEW c \in Seq(Told), c # <<>>, NEW mods, NEW J \in SUBSET GoodJoin,
         NEW st, pg.nodes \in [Ids -> Places \cup {Away}],
         SerializePaths(pg) \subseteq GoodJoin, Follows(pg, c, mods, J, st),
         NEW m, m = Head(c), m.type = "module", m.id \in Ids,
         r.sent = pg.sent,
         r.nodes[m.id] = m.place, \A x \in Ids \ {m.id} : r.nodes[x] = pg.nodes[x],
         r.dragged = pg.dragged \/ (pg.dragged = m.id /\ r.dragged = NoId),
         \A j : j \in SerializePaths(r) <=>
           j \in SerializePaths(pg) /\ (m.place = Away => m.id \notin Owners(j))
  PROVE  Follows(r, Tail(c), mods, J, st)
<1>. DEFINE t == Tail(c)
            n == Len(t)
<1>1. /\ m \in Told /\ t \in Seq(Told) /\ Len(c) = n + 1 /\ n \in Nat
      /\ m = c[1] /\ \A k \in 1..n : t[k] = c[k + 1]
      /\ \A k \in 1..Len(c) : k = 1 \/ (k - 1 \in 1..n /\ c[k] = t[k - 1])
      /\ \A k \in 1..n : LastList(t, k) <=> LastList(c, k + 1)
      /\ Listed(c) <=> Listed(t)
  BY TailLists
<1>2. \A x \in Ids :
        /\ Mentions(c, x) <=> Mentions(t, x) \/ About(m, x)
        /\ Removes(c, x) <=> Removes(t, x) \/ (About(m, x) /\ m.place = Away)
        /\ \A place : LastSaid(c, x, place) <=>
             IF Mentions(t, x) THEN LastSaid(t, x, place) ELSE About(m, x) /\ m.place = place
        /\ Restores(c, 1, x) <=> Restores(t, 0, x)
        /\ Restores(c, 0, x) => Restores(t, 0, x) \/ (About(m, x) /\ m.place # Away /\ Listed(t))
        /\ \A i \in Nat : Restores(c, i + 1, x) => Restores(t, i, x)
  BY TailSays
<1>3. \A x \in Ids : About(m, x) <=> x = m.id
  BY DEF About
<1>4. \A j \in J \cup SerializePaths(pg) : Owners(j) \subseteq Ids
  BY OwnersIds DEF GoodJoin
<1>5. /\ r.nodes[m.id] = m.place
      /\ \A x \in Ids \ {m.id} : r.nodes[x] = pg.nodes[x]
  OBVIOUS
<1>6. \A x \in Ids \ {m.id} : x # r.dragged => x # pg.dragged
  OBVIOUS
<1>. HIDE DEF t, n
<1>7. NodesTold(t, mods)
  BY <1>2 DEF Follows, NodesTold
<1>8. NodesFollow(r, t, mods, st)
  <2>1. SUFFICES ASSUME NEW x \in Ids, ~ Mentions(t, x)
                 PROVE  \/ Shows(r, x, mods[x])
                        \/ \E place \in Places \cup {Away} :
                             LastSaid(r.sent, x, place) /\ Shows(r, x, place)
                        \/ mods[x] = Away /\ x \in st \cup Placed(r.sent)
    BY DEF NodesFollow
  <2>2. CASE x = m.id
    <3>1. Mentions(c, x)
      BY <1>2, <1>3, <2>2
    <3>2. LastSaid(c, x, mods[x])
      BY <3>1 DEF Follows, NodesTold
    <3>3. m.place = mods[x]
      BY <1>2, <2>1, <3>2
    <3>. QED
      BY <1>5, <2>2, <3>3 DEF Shows
  <2>3. CASE x # m.id
    <3>1. ~ Mentions(c, x)
      BY <1>2, <1>3, <2>1, <2>3
    <3>2. \A place : Shows(pg, x, place) => Shows(r, x, place)
      BY <1>5, <1>6, <2>3 DEF Shows
    <3>. QED
      BY <3>1, <3>2 DEF Follows, NodesFollow
  <2>. QED
    BY <2>2, <2>3
<1>9. ListTold(t, J)
  <2>1. \A k \in 1..n : k + 1 \in 1..Len(c)
    BY <1>1
  <2>. QED
    BY <1>1, <2>1 DEF Follows, ListTold, n
<1>10. ASSUME NEW j \in J, m.id \in Owners(j), m.place = Away
       PROVE  Restores(t, 0, m.id)
  <2>1. 1 \in 1..Len(c) /\ About(c[1], m.id) /\ c[1].place = Away
    BY <1>1, <1>3, <1>10
  <2>2. Restores(c, 1, m.id)
    BY <1>10, <2>1 DEF Follows, EndsRestored
  <2>. QED
    BY <1>2, <2>2
<1>11. EndsFollow(r, t, J)
  <2>1. SUFFICES ASSUME NEW j \in J, NEW x \in Owners(j), x \notin Shown(r), ~ Removes(r.sent, x)
                 PROVE  Restores(t, 0, x)
    BY DEF EndsFollow
  <2>2. x \in Ids
    BY <1>4
  <2>3. CASE x = m.id
    BY <1>5, <1>10, <2>1, <2>2, <2>3 DEF Shown
  <2>4. CASE x # m.id
    <3>1. x \notin Shown(pg)
      BY <1>5, <2>1, <2>2, <2>4 DEF Shown
    <3>2. Restores(c, 0, x)
      BY <2>1, <3>1 DEF Follows, EndsFollow
    <3>. QED
      BY <1>2, <1>3, <2>2, <2>4, <3>2
  <2>. QED
    BY <2>3, <2>4
<1>12. EndsRestored(t, J)
  <2>1. SUFFICES ASSUME NEW j \in J, NEW x \in Owners(j), NEW i \in 1..n,
                        About(t[i], x), t[i].place = Away
                 PROVE  Restores(t, i, x)
    BY DEF EndsRestored, n
  <2>2. x \in Ids /\ i \in Nat /\ i + 1 \in 1..Len(c) /\ c[i + 1] = t[i]
    BY <1>1, <1>4
  <2>3. Restores(c, i + 1, x)
    BY <2>1, <2>2 DEF Follows, EndsRestored
  <2>. QED
    BY <1>2, <2>2, <2>3
<1>13. ~ Listed(t) => J \ SerializePaths(r) = J \ SerializePaths(pg)
  <2>1. ASSUME NEW j \in J, m.id \in Owners(j), m.place = Away, ~ Listed(t)
        PROVE  FALSE
    <3>1. Restores(t, 0, m.id)
      BY <1>10, <2>1
    <3>. QED
      BY <2>1, <3>1 DEF Restores, Listed
  <2>. QED
    BY <2>1
<1>14. \A j \in SerializePaths(r) : \A x \in Owners(j) : Removes(c, x) => Removes(t, x)
  BY <1>2, <1>3, <1>4
<1>15. ASSUME ~ Listed(t), PathsHeard(pg, c, J, st)
       PROVE  PathsHeard(r, t, J, st)
  BY <1>13, <1>14, <1>15 DEF PathsHeard
<1>16. ASSUME ~ Listed(t), PathsSaid(pg, c, mods, J, st)
       PROVE  PathsSaid(r, t, mods, J, st)
  <2>1. PICK k \in 1..Len(pg.sent) :
          /\ LastList(pg.sent, k)
          /\ SerializePaths(pg) \subseteq pg.sent[k].names
          /\ (pg.sent[k].names \ SerializePaths(pg)) \cap J = {}
          /\ \A j \in SerializePaths(pg) : \A x \in Owners(j) :
               \/ mods[x] # Away \/ Removes(c, x) \/ x \in st
               \/ \E i \in 1..(k - 1) : About(pg.sent[i], x) /\ pg.sent[i].place # Away
    BY <1>16 DEF PathsSaid
  <2>2. (pg.sent[k].names \ SerializePaths(r)) \cap J = {}
    BY <1>13, <1>16, <2>1
  <2>. QED
    BY <1>14, <2>1, <2>2 DEF PathsSaid
<1>. QED
  BY <1>1, <1>7, <1>8, <1>9, <1>11, <1>12, <1>15, <1>16 DEF Follows, t

(* A list. *)
LEMMA HeardList ==
  ASSUME NEW pg, NEW r, NEW c \in Seq(Told), c # <<>>, NEW mods, NEW J \in SUBSET GoodJoin,
         NEW st, Follows(pg, c, mods, J, st),
         NEW m, m = Head(c), m.type = "paths",
         r.sent = pg.sent, r.nodes = pg.nodes, r.dragged = pg.dragged,
         SerializePaths(r) = {j \in m.names : Owners(j) \subseteq Shown(pg)}
  PROVE  Follows(r, Tail(c), mods, J, st)
<1>. DEFINE t == Tail(c)
            n == Len(t)
<1>1. /\ m \in Told /\ t \in Seq(Told) /\ Len(c) = n + 1 /\ n \in Nat
      /\ m = c[1] /\ \A k \in 1..n : t[k] = c[k + 1]
      /\ \A k \in 1..n : LastList(t, k) <=> LastList(c, k + 1)
      /\ LastList(c, 1) <=> ~ Listed(t)
  BY TailLists
<1>2. \A x \in Ids :
        /\ Mentions(c, x) <=> Mentions(t, x)
        /\ \A place : LastSaid(c, x, place) <=> Mentions(t, x) /\ LastSaid(t, x, place)
        /\ Restores(c, 0, x) => Restores(t, 0, x)
        /\ \A i \in Nat : Restores(c, i + 1, x) => Restores(t, i, x)
  BY TailSays DEF About
<1>3. \A j \in J : Owners(j) \subseteq Ids
  BY OwnersIds DEF GoodJoin
<1>4. Shown(r) = Shown(pg) /\ \A x, place : Shows(r, x, place) <=> Shows(pg, x, place)
  BY DEF Shows, Shown
<1>. HIDE DEF t, n
<1>5. NodesTold(t, mods)
  BY <1>2 DEF Follows, NodesTold
<1>6. NodesFollow(r, t, mods, st)
  BY <1>2, <1>4 DEF Follows, NodesFollow
<1>7. ListTold(t, J)
  <2>1. \A k \in 1..n : k + 1 \in 1..Len(c)
    BY <1>1
  <2>. QED
    BY <1>1, <2>1 DEF Follows, ListTold, n
<1>8. EndsFollow(r, t, J)
  BY <1>2, <1>3, <1>4 DEF Follows, EndsFollow
<1>9. EndsRestored(t, J)
  <2>1. SUFFICES ASSUME NEW j \in J, NEW x \in Owners(j), NEW i \in 1..n,
                        About(t[i], x), t[i].place = Away
                 PROVE  Restores(t, i, x)
    BY DEF EndsRestored, n
  <2>2. x \in Ids /\ i \in Nat /\ i + 1 \in 1..Len(c) /\ c[i + 1] = t[i]
    BY <1>1, <1>3
  <2>3. Restores(c, i + 1, x)
    BY <2>1, <2>2 DEF Follows, EndsRestored
  <2>. QED
    BY <1>2, <2>2, <2>3
<1>10. ASSUME ~ Listed(t)
       PROVE  PathsHeard(r, t, J, st)
  <2>1. m.names = J
    <3>1. 1 \in 1..Len(c) /\ LastList(c, 1)
      BY <1>1, <1>10
    <3>. QED
      BY <1>1, <3>1 DEF Follows, ListTold
  <2>2. SerializePaths(r) \ J = {}
    BY <2>1
  <2>3. ASSUME NEW j \in J \ SerializePaths(r)
        PROVE  \E x \in Owners(j) : Removes(r.sent, x)
    <3>1. PICK x \in Owners(j) : x \notin Shown(pg)
      BY <2>1
    <3>2. ~ Restores(t, 0, x)
      BY <1>10 DEF Restores, Listed
    <3>. QED
      BY <1>8, <1>4, <3>1, <3>2 DEF EndsFollow
  <2>. QED
    BY <2>2, <2>3 DEF PathsHeard
<1>. QED
  BY <1>5, <1>6, <1>7, <1>8, <1>9, <1>10 DEF Follows, t
----------------------------------------------------------------------------
(* A page that is connected again is told all there is. *)
LEMMA FollowsConnected ==
  ASSUME NEW mods, NEW pg, NEW st, NEW n \in Nat, NEW J \in SUBSET GoodJoin,
         NEW live, live = {x \in Ids : mods[x] # Away},
         NEW order \in Bijection(1..n, live),
         NEW told \in Seq(Told), told = [k \in 1..n |-> ModuleMsg(order[k], mods[order[k]])],
         pg.nodes \in [Ids -> Places \cup {Away}],
         Shown(pg) \ live \subseteq st \cup Placed(pg.sent),
         \A j \in J : \A x \in Owners(j) : mods[x] # Away
  PROVE  Follows(pg, told \o <<PathsMsg(J)>>, mods, J, st)
<1>1. /\ order \in [1..n -> live]
      /\ \A k, l \in 1..n : order[k] = order[l] => k = l
      /\ \A x \in live : \E k \in 1..n : order[k] = x
  BY DEF Bijection, Injection, Surjection, IsInjective
<1>2. /\ Len(told) = n
      /\ \A k \in 1..n : /\ told[k].type = "module" /\ told[k].id = order[k]
                         /\ told[k].place = mods[order[k]]
  BY DEF ModuleMsg
<1>3. \A x, k : k \in 1..n => (About(told[k], x) <=> order[k] = x)
  BY <1>2 DEF About
<1>4. NodesTold(told, mods)
  <2>1. SUFFICES ASSUME NEW x \in Ids, Mentions(told, x) PROVE LastSaid(told, x, mods[x])
    BY DEF NodesTold
  <2>2. PICK k \in 1..n : order[k] = x
    BY <1>2, <1>3, <2>1 DEF Mentions
  <2>3. \A l \in 1..n : About(told[l], x) => l = k
    BY <1>1, <1>3, <2>2
  <2>4. \A l \in 1..n : l = k => l <= k
    OBVIOUS
  <2>. QED
    BY <1>2, <1>3, <2>2, <2>3, <2>4 DEF LastSaid
<1>5. ASSUME NEW x \in Ids, ~ Mentions(told, x)
      PROVE  \/ Shows(pg, x, mods[x])
             \/ mods[x] = Away /\ x \in st \cup Placed(pg.sent)
  <2>1. ASSUME x \in live PROVE FALSE
    <3>1. PICK k \in 1..n : order[k] = x
      BY <1>1, <2>1
    <3>2. k \in 1..Len(told) /\ About(told[k], x)
      BY <1>2, <1>3, <3>1
    <3>. QED
      BY <1>5, <3>2 DEF Mentions
  <2>. QED
    BY <2>1 DEF Shows, Shown
<1>6. NodesFollow(pg, told, mods, st)
  BY <1>5 DEF NodesFollow
<1>. DEFINE m == PathsMsg(J)
            d == Append(told, m)
<1>7. m \in Told /\ m.type = "paths"
  BY DEF PathsMsg, Told
<1>8. ListTold(d, J) /\ EndsFollow(pg, d, J) /\ EndsRestored(d, J) /\ Listed(d)
  BY ONLY <1>4, <1>6, AppendList, told \in Seq(Told), J \in SUBSET GoodJoin,
          \A j \in J : \A x \in Owners(j) : mods[x] # Away
<1>. HIDE DEF m
<1>9. NodesTold(d, mods) /\ NodesFollow(pg, d, mods, st)
  BY ONLY <1>4, <1>6, <1>7, AppendListPlaces, told \in Seq(Told)
<1>10. told \o <<m>> = d
  BY ONLY <1>7, told \in Seq(Told), AppendIsConcat
<1>. HIDE DEF d
<1>. QED
  BY <1>8, <1>9, <1>10 DEF Follows, m

----------------------------------------------------------------------------
(* The page does something itself. *)

(* ... and says nothing. *)
LEMMA FollowsQuiet ==
  ASSUME NEW pg, NEW r, NEW c, NEW mods, NEW J, NEW st, Follows(pg, c, mods, J, st),
         r.sent = pg.sent, SerializePaths(r) = SerializePaths(pg), Shown(r) = Shown(pg),
         \A x \in Ids : x # r.dragged => x # pg.dragged /\ r.nodes[x] = pg.nodes[x]
  PROVE  Follows(r, c, mods, J, st)
<1>1. \A x \in Ids : \A place : Shows(pg, x, place) => Shows(r, x, place)
  BY DEF Shows, Shown
<1>. QED
  BY <1>1 DEF Follows, NodesFollow, EndsFollow, PathsHeard, PathsSaid

(* ... and lists its paths, all of them at nodes it shows. *)
LEMMA SaysList ==
  ASSUME NEW pg, NEW r, NEW c, NEW mods, NEW J, NEW st,
         pg.sent \in Seq(Told), SerializePaths(r) \in SUBSET GoodJoin,
         r.sent = Append(pg.sent, PathsMsg(SerializePaths(r))),
         \A j \in SerializePaths(r) : Owners(j) \subseteq Shown(pg),
         NodesTold(c, mods), NodesFollow(pg, c, mods, st)
  PROVE  PathsSaid(r, c, mods, J, st)
<1>. DEFINE m == PathsMsg(SerializePaths(r))
            n == Len(pg.sent)
<1>1. m \in Told /\ m.type = "paths" /\ m.names = SerializePaths(r)
  BY DEF PathsMsg, Told
<1>2. \A j \in SerializePaths(r) : Owners(j) \subseteq Ids
  BY OwnersIds DEF GoodJoin
<1>3. r.sent = Append(pg.sent, m)
  OBVIOUS
<1>. HIDE DEF m
<1>4. /\ Len(r.sent) = n + 1 /\ n \in Nat
      /\ \A k \in 1..n : r.sent[k] = pg.sent[k]
      /\ r.sent[n + 1] = m
      /\ LastList(r.sent, n + 1)
  BY <1>1, <1>3, AppendLists
<1>. HIDE DEF n
<1>5. ASSUME NEW j \in SerializePaths(r), NEW x \in Owners(j)
      PROVE  \/ mods[x] # Away \/ Removes(c, x) \/ x \in st
             \/ \E i \in 1..n : About(pg.sent[i], x) /\ pg.sent[i].place # Away
  <2>1. SUFFICES ASSUME mods[x] = Away, ~ Removes(c, x), x \notin st
                 PROVE  \E i \in 1..n : About(pg.sent[i], x) /\ pg.sent[i].place # Away
    OBVIOUS
  <2>2. x \in Ids /\ x \in Shown(pg)
    BY <1>2
  <2>3. ~ Mentions(c, x)
    BY <2>1, <2>2 DEF NodesTold, LastSaid, Removes
  <2>4. ~ Shows(pg, x, Away)
    BY <2>2 DEF Shows, Shown
  <2>5. \/ \E place \in Places \cup {Away} : LastSaid(pg.sent, x, place) /\ Shows(pg, x, place)
        \/ x \in Placed(pg.sent)
    BY <2>1, <2>2, <2>3, <2>4 DEF NodesFollow
  <2>6. ASSUME NEW place, LastSaid(pg.sent, x, place), Shows(pg, x, place)
        PROVE  \E i \in 1..n : About(pg.sent[i], x) /\ pg.sent[i].place # Away
    BY <2>2, <2>6 DEF LastSaid, Shows, Shown, n
  <2>. QED
    BY <2>5, <2>6 DEF Placed, About, n
<1>6. n + 1 \in 1..Len(r.sent) /\ (n + 1) - 1 = n
  BY <1>4
<1>. QED
  BY <1>1, <1>4, <1>5, <1>6 DEF PathsSaid

LEMMA FollowsListing ==
  ASSUME NEW pg, NEW r, NEW c, NEW mods, NEW J \in SUBSET GoodJoin, NEW st,
         pg.sent \in Seq(Told), SerializePaths(r) \in SUBSET GoodJoin,
         r.sent = Append(pg.sent, PathsMsg(SerializePaths(r))),
         r.nodes = pg.nodes, r.dragged = pg.dragged,
         \A j \in SerializePaths(r) : Owners(j) \subseteq Shown(pg),
         Follows(pg, c, mods, J, st)
  PROVE  Follows(r, c, mods, J, st)
<1>. DEFINE m == PathsMsg(SerializePaths(r))
<1>1. m \in Told /\ m.type = "paths"
  BY DEF PathsMsg, Told
<1>2. r.sent = Append(pg.sent, m)
  OBVIOUS
<1>3. PathsSaid(r, c, mods, J, st)
  BY SaysList DEF Follows
<1>. HIDE DEF m
<1>4. \A x \in Ids :
        /\ Removes(r.sent, x) <=> Removes(pg.sent, x)
        /\ x \in Placed(r.sent) <=> x \in Placed(pg.sent)
        /\ \A place : LastSaid(r.sent, x, place) <=> LastSaid(pg.sent, x, place)
  BY <1>1, <1>2, AppendSays DEF About
<1>5. Shown(r) = Shown(pg) /\ \A x, place : Shows(r, x, place) <=> Shows(pg, x, place)
  BY DEF Shows, Shown
<1>6. \A j \in J : Owners(j) \subseteq Ids
  BY OwnersIds DEF GoodJoin
<1>7. NodesFollow(r, c, mods, st)
  BY <1>4, <1>5 DEF Follows, NodesFollow
<1>8. EndsFollow(r, c, J)
  BY <1>4, <1>5, <1>6 DEF Follows, EndsFollow
<1>. QED
  BY <1>3, <1>7, <1>8 DEF Follows

(* ... and says something of a module. *)
LEMMA SaidStays ==
  ASSUME NEW pg, NEW r, NEW c, NEW mods, NEW J, NEW st, NEW m \in Told, m.type = "module",
         pg.sent \in Seq(Told), r.sent = Append(pg.sent, m),
         SerializePaths(r) = SerializePaths(pg), PathsSaid(pg, c, mods, J, st)
  PROVE  PathsSaid(r, c, mods, J, st)
<1>1. /\ Len(r.sent) = Len(pg.sent) + 1 /\ Len(pg.sent) \in Nat
      /\ \A k \in 1..Len(pg.sent) : r.sent[k] = pg.sent[k]
      /\ \A k : LastList(r.sent, k) <=> LastList(pg.sent, k)
  BY AppendLists
<1>2. PICK k \in 1..Len(pg.sent) :
          /\ LastList(pg.sent, k)
          /\ SerializePaths(pg) \subseteq pg.sent[k].names
          /\ (pg.sent[k].names \ SerializePaths(pg)) \cap J = {}
          /\ \A j \in SerializePaths(pg) : \A x \in Owners(j) :
               \/ mods[x] # Away \/ Removes(c, x) \/ x \in st
               \/ \E i \in 1..(k - 1) : About(pg.sent[i], x) /\ pg.sent[i].place # Away
  BY DEF PathsSaid
<1>3. /\ k \in 1..Len(r.sent) /\ r.sent[k] = pg.sent[k]
      /\ \A i \in 1..(k - 1) : r.sent[i] = pg.sent[i]
  BY <1>1
<1>. QED
  BY <1>1, <1>2, <1>3 DEF PathsSaid

LEMMA FollowsSaying ==
  ASSUME NEW pg, NEW r, NEW c, NEW mods, NEW J \in SUBSET GoodJoin, NEW st,
         NEW id \in Ids, NEW place \in Places,
         pg.sent \in Seq(Told), r.sent = Append(pg.sent, ModuleMsg(id, place)),
         r.nodes[id] = place, \A x \in Ids \ {id} : r.nodes[x] = pg.nodes[x] /\ x # pg.dragged,
         SerializePaths(r) = SerializePaths(pg), SerializePaths(pg) \subseteq GoodJoin,
         Follows(pg, c, mods, J, st)
  PROVE  Follows(r, c, mods, J, st)
<1>. DEFINE m == ModuleMsg(id, place)
<1>1. m \in Told /\ m.type = "module" /\ m.place = place /\ place # Away
      /\ \A x : About(m, x) <=> x = id
  BY NodeEditorAssumption DEF ModuleMsg, Told, ModuleMessage, About
<1>2. r.sent = Append(pg.sent, m)
  OBVIOUS
<1>. HIDE DEF m
<1>3. \A x \in Ids :
        /\ Removes(r.sent, x) <=> Removes(pg.sent, x)
        /\ x \in Placed(pg.sent) => x \in Placed(r.sent)
        /\ \A p : LastSaid(r.sent, x, p) <=> IF x = id THEN p = place ELSE LastSaid(pg.sent, x, p)
  BY <1>1, <1>2, AppendSays
<1>4. /\ \A x \in Ids \ {id} : \A p : Shows(pg, x, p) => Shows(r, x, p)
      /\ Shows(r, id, place)
      /\ \A x \in Shown(pg) : x \in Shown(r)
  BY <1>1 DEF Shows, Shown
<1>5. \A j \in J \cup SerializePaths(pg) : Owners(j) \subseteq Ids
  BY OwnersIds DEF GoodJoin
<1>6. NodesFollow(r, c, mods, st)
  BY <1>3, <1>4 DEF Follows, NodesFollow
<1>7. EndsFollow(r, c, J)
  BY <1>3, <1>4, <1>5 DEF Follows, EndsFollow
<1>8. ASSUME PathsHeard(pg, c, J, st)
      PROVE  PathsHeard(r, c, J, st)
  BY <1>3, <1>5, <1>8 DEF PathsHeard
<1>9. ASSUME PathsSaid(pg, c, mods, J, st)
      PROVE  PathsSaid(r, c, mods, J, st)
  BY <1>1, <1>2, <1>9, SaidStays
<1>. QED
  BY <1>6, <1>7, <1>8, <1>9 DEF Follows

(* ... and removes a module, its paths first. *)
LEMMA FollowsRemoving ==
  ASSUME NEW pg, NEW q, NEW r, NEW c, NEW mods, NEW J \in SUBSET GoodJoin, NEW st, NEW id \in Ids,
         pg.sent \in Seq(Told), SerializePaths(r) \in SUBSET GoodJoin,
         SerializePaths(q) = SerializePaths(r),
         q.sent = Append(pg.sent, PathsMsg(SerializePaths(r))),
         r.sent = Append(q.sent, ModuleMsg(id, Away)),
         r.nodes[id] = Away, \A x \in Ids \ {id} : r.nodes[x] = pg.nodes[x],
         \A x \in Ids \ {id} : x # r.dragged => x # pg.dragged,
         \A j \in SerializePaths(r) : Owners(j) \subseteq Shown(pg),
         Follows(pg, c, mods, J, st)
  PROVE  Follows(r, c, mods, J, st)
<1>. DEFINE l == PathsMsg(SerializePaths(r))
            m == ModuleMsg(id, Away)
<1>1. /\ l \in Told /\ l.type = "paths"
      /\ m \in Told /\ m.type = "module" /\ m.place = Away
      /\ \A x : About(m, x) <=> x = id
  BY DEF PathsMsg, ModuleMsg, Told, ModuleMessage, About
<1>2. q.sent = Append(pg.sent, l) /\ r.sent = Append(q.sent, m)
  OBVIOUS
<1>3. PathsSaid(q, c, mods, J, st)
  BY SaysList DEF Follows
<1>. HIDE DEF l, m
<1>4. q.sent \in Seq(Told)
  BY <1>1, <1>2, AppendLists
<1>5. PathsSaid(r, c, mods, J, st)
  BY <1>1, <1>2, <1>3, <1>4, SaidStays
<1>6. \A x \in Ids :
        /\ Removes(q.sent, x) <=> Removes(pg.sent, x)
        /\ x \in Placed(q.sent) <=> x \in Placed(pg.sent)
        /\ \A p : LastSaid(q.sent, x, p) <=> LastSaid(pg.sent, x, p)
  BY <1>1, <1>2, AppendSays DEF About
<1>7. \A x \in Ids :
        /\ Removes(r.sent, x) <=> Removes(pg.sent, x) \/ x = id
        /\ x \in Placed(pg.sent) => x \in Placed(r.sent)
        /\ \A p : LastSaid(r.sent, x, p) <=> IF x = id THEN p = Away ELSE LastSaid(pg.sent, x, p)
  <2>1. \A x \in Ids :
          /\ Removes(r.sent, x) <=> Removes(q.sent, x) \/ x = id
          /\ x \in Placed(q.sent) => x \in Placed(r.sent)
          /\ \A p : LastSaid(r.sent, x, p) <=> IF x = id THEN p = Away ELSE LastSaid(q.sent, x, p)
    <3>1. /\ m \in Told /\ q.sent \in Seq(Told) /\ r.sent = Append(q.sent, m)
          /\ m.place = Away /\ \A x : About(m, x) <=> x = id
      BY <1>1, <1>2, <1>4
    <3>. QED
      BY ONLY <3>1, AppendSays
  <2>. QED
    BY <1>6, <2>1
<1>8. /\ \A x \in Ids \ {id} : \A p : Shows(pg, x, p) => Shows(r, x, p)
      /\ Shows(r, id, Away)
      /\ \A x \in Shown(pg) : x = id \/ x \in Shown(r)
  BY DEF Shows, Shown
<1>9. \A j \in J : Owners(j) \subseteq Ids
  BY OwnersIds DEF GoodJoin
<1>10. NodesFollow(r, c, mods, st)
  BY <1>7, <1>8 DEF Follows, NodesFollow
<1>11. EndsFollow(r, c, J)
  BY <1>7, <1>8, <1>9 DEF Follows, EndsFollow
<1>. QED
  BY <1>5, <1>10, <1>11 DEF Follows
----------------------------------------------------------------------------
(* The paths a page lists, and what the handlers make of them.                *)

LEMMA ListsShown ==
  ASSUME NEW pg, PageInv(pg)
  PROVE  /\ SerializePaths(pg) \in SUBSET GoodJoin
         /\ \A j \in SerializePaths(pg) : Owners(j) \subseteq Shown(pg)
<1>1. SerializePaths(pg) \in SUBSET GoodJoin
  BY DEF PageInv, Fitting, SerializePaths
<1>2. ASSUME NEW j \in SerializePaths(pg)
      PROVE  Owners(j) \subseteq Shown(pg)
  <2>1. PICK i \in Slots : pg.paths[i] = j
    BY DEF SerializePaths
  <2>2. j.from \in Ends(j) /\ j.to \in Ends(j)
    BY NodeEditorAssumption DEF SerializePaths, Join, Ends
  <2>. QED
    BY <2>1, <2>2 DEF PageInv, Rooted, Owners
<1>. QED
  BY <1>1, <1>2

(* removePath of every path at a node, which is let go. *)
LEMMA UnlinkMakes ==
  ASSUME NEW pg, PageInv(pg), NEW id \in Ids
  PROVE  LET u == RemovePaths(LetGo(pg, id), At(pg, id))
         IN  /\ PageInv(u)
             /\ u.nodes = pg.nodes /\ u.sent = pg.sent /\ u.thrown = pg.thrown
             /\ u.dragged = IF pg.dragged = id THEN NoId ELSE pg.dragged
             /\ SerializePaths(u) = {j \in SerializePaths(pg) : id \notin Owners(j)}
<1>. DEFINE free == LetGo(pg, id)
            u == RemovePaths(free, At(pg, id))
<1>1. PageInv(free)
  BY LetGoKeeps
<1>2. /\ free.nodes = pg.nodes /\ free.sent = pg.sent /\ free.thrown = pg.thrown
      /\ free.paths = pg.paths
      /\ free.dragged = IF pg.dragged = id THEN NoId ELSE pg.dragged
  BY DEF LetGo, PageInv, Page
<1>3. At(pg, id) \in SUBSET Slots
  BY DEF At
<1>. HIDE DEF free
<1>4. PageInv(u)
  BY <1>1, <1>3, RemovePathsKeeps
<1>5. /\ u.nodes = free.nodes /\ u.sent = free.sent /\ u.thrown = free.thrown
      /\ u.dragged = free.dragged
      /\ \A i \in Slots : u.paths[i] = IF i \in At(pg, id) THEN NoPath ELSE free.paths[i]
  BY <1>1, <1>3, RemovePathsFields DEF PageInv
<1>. HIDE DEF u
<1>6. \A j \in Join : id \in Owners(j) <=> \E p \in Ends(j) : Owner[p] = id
  BY NodeEditorAssumption DEF Join, Ends, Owners
<1>7. NoPath \notin Join
  BY NodeEditorAssumption DEF Join, NoPath
<1>8. SerializePaths(u) = {j \in SerializePaths(pg) : id \notin Owners(j)}
  BY <1>2, <1>5, <1>6, <1>7 DEF SerializePaths, At
<1>. QED
  BY <1>2, <1>4, <1>5, <1>8 DEF u, free

LEMMA VanishMakes ==
  ASSUME NEW pg \in Page, NEW id \in Ids, NEW place
  PROVE  LET r == [pg EXCEPT !.nodes[id] = place]
         IN  /\ r.nodes = [pg.nodes EXCEPT ![id] = place]
             /\ r.sent = pg.sent /\ r.dragged = pg.dragged /\ r.thrown = pg.thrown
             /\ SerializePaths(r) = SerializePaths(pg)
BY DEF Page, SerializePaths

(* removeNode on being told, to its end. *)
LEMMA ToldRemovalMakes ==
  ASSUME NEW pg, PageInv(pg), NEW id \in Ids, NEW r \in RemoveNode(pg, id, TRUE)
  PROVE  /\ pg.thrown \/ Throws(pg, id) => r.thrown
         /\ ~ r.thrown =>
              /\ r.nodes = [pg.nodes EXCEPT ![id] = Away] /\ r.sent = pg.sent
              /\ r.dragged = IF pg.dragged = id THEN NoId ELSE pg.dragged
              /\ SerializePaths(r) = {j \in SerializePaths(pg) : id \notin Owners(j)}
<1>. DEFINE u == RemovePaths(LetGo(pg, id), At(pg, id))
<1>1. CASE Throws(pg, id)
  <2>1. PICK S \in SUBSET Slots : r = [RemovePaths(LetGo(pg, id), S) EXCEPT !.thrown = TRUE]
    BY <1>1 DEF RemoveNode, At
  <2>2. RemovePaths(LetGo(pg, id), S) \in Page
    BY LetGoKeeps, RemovePathsKeeps DEF PageInv
  <2>3. r.thrown = TRUE
    BY <2>1, <2>2 DEF Page
  <2>. QED
    BY <2>3
<1>2. CASE ~ Throws(pg, id)
  <2>1. r = [u EXCEPT !.nodes[id] = Away]
    BY <1>2 DEF RemoveNode
  <2>2. /\ u \in Page
        /\ u.nodes = pg.nodes /\ u.sent = pg.sent /\ u.thrown = pg.thrown
        /\ u.dragged = IF pg.dragged = id THEN NoId ELSE pg.dragged
        /\ SerializePaths(u) = {j \in SerializePaths(pg) : id \notin Owners(j)}
    BY UnlinkMakes DEF PageInv
  <2>. HIDE DEF u
  <2>. QED
    BY <1>2, <2>1, <2>2, VanishMakes
<1>. QED
  BY <1>1, <1>2

(* What the handler of a module message leaves. *)
LEMMA HandleModuleMakes ==
  ASSUME NEW pg, PageInv(pg), NEW m \in Told, m.type = "module", NEW rs \in BOOLEAN, NEW r \in Handle(pg, m, rs)
  PROVE  /\ pg.thrown \/ HandlerThrows(pg, m, rs) => r.thrown
         /\ ~ r.thrown =>
              /\ r.sent = pg.sent
              /\ r.nodes = [pg.nodes EXCEPT ![m.id] = m.place]
              /\ r.dragged = pg.dragged \/ (pg.dragged = m.id /\ r.dragged = NoId)
              /\ SerializePaths(r) =
                   {j \in SerializePaths(pg) : m.place = Away => m.id \notin Owners(j)}
<1>1. m.id \in Ids /\ m.place \in Places \cup {Away} /\ pg \in Page
  BY DEF Told, ModuleMessage, PageInv
<1>2. pg.nodes \in [Ids -> Places \cup {Away}]
  BY <1>1 DEF Page
<1>3. CASE m.id \in Shown(pg) /\ m.place = Away
  <2>1. r \in RemoveNode(pg, m.id, TRUE)
    BY <1>3 DEF Handle
  <2>2. HandlerThrows(pg, m, rs) => Throws(pg, m.id)
    BY DEF HandlerThrows
  <2>3. /\ pg.thrown \/ Throws(pg, m.id) => r.thrown
        /\ ~ r.thrown =>
             /\ r.nodes = [pg.nodes EXCEPT ![m.id] = Away] /\ r.sent = pg.sent
             /\ r.dragged = IF pg.dragged = m.id THEN NoId ELSE pg.dragged
             /\ SerializePaths(r) = {j \in SerializePaths(pg) : m.id \notin Owners(j)}
    BY ONLY PageInv(pg), <1>1, <2>1, ToldRemovalMakes, ZenonT(40)
  <2>4. {j \in SerializePaths(pg) : m.place = Away => m.id \notin Owners(j)} =
          {j \in SerializePaths(pg) : m.id \notin Owners(j)}
    BY <1>3
  <2>5. [pg.nodes EXCEPT ![m.id] = m.place] = [pg.nodes EXCEPT ![m.id] = Away]
    BY <1>3
  <2>. QED
    BY ONLY <2>2, <2>3, <2>4, <2>5
<1>4. CASE m.id \in Shown(pg) /\ m.place # Away
  <2>. DEFINE moved == [pg EXCEPT !.nodes[m.id] = m.place]
              b == pg.thrown \/ ((pg.nodes[m.id] # m.place \/ rs) /\ Throws(pg, m.id))
  <2>1. r = [moved EXCEPT !.thrown = b]
    <3>1. r = UpdateNode(pg, m.id, m.place, rs)
      BY <1>4 DEF Handle
    <3>. QED
      BY <3>1 DEF UpdateNode
  <2>2. /\ moved.nodes = [pg.nodes EXCEPT ![m.id] = m.place]
        /\ moved.sent = pg.sent /\ moved.dragged = pg.dragged
        /\ SerializePaths(moved) = SerializePaths(pg)
    BY <1>1, VanishMakes
  <2>3. DOMAIN moved = DOMAIN pg
    OBVIOUS
  <2>4. b <=> pg.thrown \/ HandlerThrows(pg, m, rs)
    BY <1>4 DEF HandlerThrows
  <2>. HIDE DEF moved, b
  <2>5. /\ r.nodes = moved.nodes /\ r.sent = moved.sent /\ r.dragged = moved.dragged
        /\ r.thrown = b /\ SerializePaths(r) = SerializePaths(moved)
    BY <1>1, <2>1, <2>3 DEF Page, SerializePaths
  <2>. QED
    BY <1>4, <2>2, <2>4, <2>5
<1>5. CASE m.id \notin Shown(pg) /\ m.place = Away
  <2>1. r = pg
    BY <1>5 DEF Handle
  <2>2. pg.nodes = [pg.nodes EXCEPT ![m.id] = m.place]
    BY <1>1, <1>2, <1>5 DEF Shown
  <2>3. \A j \in SerializePaths(pg) : m.id \notin Owners(j)
    BY <1>5, ListsShown
  <2>. QED
    BY <1>5, <2>1, <2>2, <2>3 DEF HandlerThrows
<1>6. CASE m.id \notin Shown(pg) /\ m.place # Away
  <2>1. r = [pg EXCEPT !.nodes[m.id] = m.place]
    BY <1>6 DEF Handle, AddNode
  <2>. QED
    BY <1>1, <1>6, <2>1, VanishMakes DEF HandlerThrows
<1>. QED
  BY <1>3, <1>4, <1>5, <1>6

(* What the handler of a list leaves: the paths of it whose nodes are there. *)
LEMMA HandleListMakes ==
  ASSUME NEW pg, PageInv(pg), NEW m \in Told, m.type = "paths", NEW rs \in BOOLEAN, NEW r \in Handle(pg, m, rs)
  PROVE  /\ r.sent = pg.sent /\ r.nodes = pg.nodes /\ r.dragged = pg.dragged
         /\ r.thrown = pg.thrown
         /\ SerializePaths(r) = {j \in m.names : Owners(j) \subseteq Shown(pg)}
<1>1. m.names \in SUBSET GoodJoin
  BY DEF Told, ModuleMessage
<1>. DEFINE gone == {i \in Slots : pg.paths[i] \in Join \ m.names}
            kept == RemovePaths(pg, gone)
            J == Missing(kept, m.names)
<1>2. PICK new \in Placements(kept, J) : r = AddPaths(kept, new)
  BY DEF Handle, UpdatePaths
<1>3. /\ kept \in Page
      /\ kept.nodes = pg.nodes /\ kept.sent = pg.sent /\ kept.dragged = pg.dragged
      /\ kept.thrown = pg.thrown
      /\ \A i \in Slots : kept.paths[i] = IF i \in gone THEN NoPath ELSE pg.paths[i]
  BY RemovePathsFields DEF PageInv
<1>. HIDE DEF kept
<1>4. J \in SUBSET GoodJoin
  BY <1>1 DEF Missing
<1>5. NoPath \notin Join
  BY NodeEditorAssumption DEF Join, NoPath
<1>6. SerializePaths(kept) = SerializePaths(pg) \cap m.names
  BY <1>3, <1>5 DEF SerializePaths
<1>7. Shown(kept) = Shown(pg)
  BY <1>3 DEF Shown
<1>8. J = {j \in m.names \ SerializePaths(kept) : Owners(j) \subseteq Shown(pg)}
  BY <1>1, <1>7 DEF Missing, GoodJoin, Owners
<1>. HIDE DEF J
<1>9. /\ r.nodes = kept.nodes /\ r.sent = kept.sent /\ r.dragged = kept.dragged
      /\ r.thrown = kept.thrown
      /\ DOMAIN new \subseteq Free(kept) /\ \A i \in DOMAIN new : new[i] \in J
      /\ \A i \in Slots : r.paths[i] = IF i \in DOMAIN new THEN new[i] ELSE kept.paths[i]
  BY <1>2, <1>3, <1>4, AddPathsFields
<1>10. \A j \in J : \E i \in DOMAIN new : new[i] = j
  BY <1>2 DEF Placements, Bijection, Surjection
<1>11. /\ DOMAIN new \subseteq Slots
       /\ \A i \in DOMAIN new : kept.paths[i] \notin Join
  BY <1>5, <1>9 DEF Free, Drawn
<1>12. SerializePaths(r) = SerializePaths(kept) \cup J
  BY <1>4, <1>9, <1>10, <1>11 DEF SerializePaths, GoodJoin
<1>13. \A j \in SerializePaths(pg) : Owners(j) \subseteq Shown(pg)
  BY ListsShown
<1>. QED
  BY <1>3, <1>6, <1>8, <1>9, <1>12, <1>13
----------------------------------------------------------------------------
(* A page that follows the server goes on doing so, whatever its user does.   *)

Goes(pg, r) ==
  /\ pg.thrown => r.thrown
  /\ \A x \in Sockets : Removes(r.sent, x) => Removes(pg.sent, x)
  /\ \A c \in Seq(Told), mods \in [Ids -> Places \cup {Away}],
        J \in SUBSET GoodJoin, st \in SUBSET Ids :
       ~ r.thrown /\ Follows(pg, c, mods, J, st) => Follows(r, c, mods, J, st)

LEMMA SocketsAreIds == Sockets \subseteq Ids
BY NodeEditorAssumption

LEMMA QuietGoes ==
  ASSUME NEW pg, NEW r, r.sent = pg.sent, SerializePaths(r) = SerializePaths(pg),
         Shown(r) = Shown(pg), pg.thrown => r.thrown,
         \A x \in Ids : x # r.dragged => x # pg.dragged /\ r.nodes[x] = pg.nodes[x]
  PROVE  Goes(pg, r)
BY FollowsQuiet DEF Goes

(* A list that is published, and what is loose then. *)
LEMMA ListingGoes ==
  ASSUME NEW pg, PageInv(pg), NEW q \in Page, NEW l, NEW r,
         r = [PublishPaths(q) EXCEPT !.loose = l], PageInv(r),
         q.nodes = pg.nodes, q.dragged = pg.dragged, q.sent = pg.sent, q.thrown = pg.thrown
  PROVE  Goes(pg, r)
<1>1. /\ r.nodes = q.nodes /\ r.dragged = q.dragged /\ r.thrown = q.thrown /\ r.paths = q.paths
      /\ r.sent = Append(q.sent, PathsMsg(SerializePaths(q)))
  BY DEF PublishPaths, Publish, Page
<1>2. SerializePaths(r) = SerializePaths(q)
  BY <1>1 DEF SerializePaths
<1>3. r.sent = Append(pg.sent, PathsMsg(SerializePaths(r)))
  BY <1>1, <1>2
<1>4. /\ SerializePaths(r) \in SUBSET GoodJoin
      /\ \A j \in SerializePaths(r) : Owners(j) \subseteq Shown(r)
  BY ListsShown
<1>5. Shown(r) = Shown(pg) /\ pg.sent \in Seq(Told)
  BY <1>1 DEF Shown, PageInv, Said
<1>6. \A x \in Sockets : Removes(r.sent, x) => Removes(pg.sent, x)
  <2>. DEFINE m == PathsMsg(SerializePaths(r))
  <2>1. m \in Told /\ \A x : ~ About(m, x)
    BY <1>4 DEF PathsMsg, Told, About
  <2>2. r.sent = Append(pg.sent, m)
    BY <1>3
  <2>. HIDE DEF m
  <2>. QED
    BY ONLY <1>5, <2>1, <2>2, AppendSays, SocketsAreIds
<1>7. ASSUME NEW c \in Seq(Told), NEW mods, NEW J \in SUBSET GoodJoin, NEW st,
             Follows(pg, c, mods, J, st)
      PROVE  Follows(r, c, mods, J, st)
  <2>1. r.nodes = pg.nodes /\ r.dragged = pg.dragged
    BY <1>1
  <2>2. \A j \in SerializePaths(r) : Owners(j) \subseteq Shown(pg)
    BY <1>4, <1>5
  <2>. QED
    BY ONLY <1>3, <1>4, <1>5, <1>7, <2>1, <2>2, FollowsListing
<1>. QED
  BY <1>1, <1>6, <1>7 DEF Goes

LEMMA PortDownGoes ==
  ASSUME NEW pg, PageInv(pg), NEW p \in Ports, Owner[p] \in Shown(pg),
         NEW r \in PortDown(pg, p)
  PROVE  Goes(pg, r)
<1>0. pg \in Page /\ PageInv(r)
  BY PortDownKeeps DEF PageInv
<1>1. CASE r = pg
  BY <1>1, QuietGoes DEF Goes
<1>2. ASSUME NEW i \in Free(pg), r = StartPath(pg, p, i)
      PROVE  Goes(pg, r)
  <2>1. i \in Slots /\ pg.paths[i] = NoPath
    BY DEF Free, Drawn
  <2>. DEFINE x == WithEnd(pg.paths[i], "from", p)
  <2>2. r = Changed(pg, i, x, p, i, i)
    <3>1. "from" \in {"from", "to"}
      OBVIOUS
    <3>. QED
      BY <1>0, <1>2, <2>1, <3>1, AttachIsChange DEF StartPath
  <2>3. x \in Path /\ x \notin Join /\ NoPath \notin Join
    BY <2>1, NodeEditorAssumption DEF WithEnd, NoPath, Path, Join
  <2>. HIDE DEF x
  <2>4. /\ r.nodes = pg.nodes /\ r.dragged = pg.dragged
        /\ r.sent = pg.sent /\ r.thrown = pg.thrown
        /\ \A k \in Slots : r.paths[k] = IF k = i THEN x ELSE pg.paths[k]
    BY <1>0, <2>1, <2>2, <2>3, ChangedFields
  <2>5. SerializePaths(r) = SerializePaths(pg)
    BY <2>1, <2>3, <2>4 DEF SerializePaths
  <2>6. Shown(r) = Shown(pg)
    BY <2>4 DEF Shown
  <2>. QED
    BY <2>4, <2>5, <2>6, QuietGoes
<1>3. CASE pg.loose # Undefined /\ r = EndPath(pg, p)
  <2>. DEFINE end == IF pg.paths[pg.loose].from = NoPort THEN "from" ELSE "to"
              q == Attach(pg, pg.loose, end, p)
  <2>1. pg.loose \in Slots /\ end \in {"from", "to"}
    BY <1>0, <1>3 DEF Page
  <2>2. r = [PublishPaths(q) EXCEPT !.loose = Undefined]
    BY <1>3 DEF EndPath
  <2>. HIDE DEF end
  <2>3. q \in Page
    BY <1>0, <2>1, AttachInPage
  <2>4. q.nodes = pg.nodes /\ q.dragged = pg.dragged /\ q.sent = pg.sent /\ q.thrown = pg.thrown
    BY <1>0 DEF Attach, Page
  <2>. HIDE DEF q
  <2>. QED
    BY <1>0, <2>2, <2>3, <2>4, ListingGoes
<1>4. CASE pg.connected[p] # Undefined /\ r = TakePath(pg, p)
  <2>. DEFINE i == pg.connected[p]
              end == IF pg.paths[i].from = p THEN "from" ELSE "to"
              q == Detach(pg, i, end)
  <2>1. i \in Slots /\ end \in {"from", "to"}
    BY <1>0, <1>4 DEF Page
  <2>2. pg.paths[i][end] \in Ports
    BY <1>0, <1>4, <2>1 DEF PageInv, Wired, Ends, Page, Path
  <2>3. r = [PublishPaths(q) EXCEPT !.loose = i]
    BY <1>4 DEF TakePath
  <2>. HIDE DEF end, i
  <2>4. q \in Page
    BY <1>0, <2>1, <2>2, DetachInPage
  <2>5. q.nodes = pg.nodes /\ q.dragged = pg.dragged /\ q.sent = pg.sent /\ q.thrown = pg.thrown
    BY <1>0 DEF Detach, Page
  <2>. HIDE DEF q
  <2>. QED
    BY <1>0, <2>3, <2>4, <2>5, ListingGoes
<1>. QED
  BY <1>1, <1>2, <1>3, <1>4 DEF PortDown

LEMMA NodeDownGoes ==
  ASSUME NEW pg \in Page, NEW id, pg.dragged = NoId
  PROVE  Goes(pg, NodeDown(pg, id))
<1>. DEFINE r == NodeDown(pg, id)
<1>1. /\ r.nodes = pg.nodes /\ r.paths = pg.paths /\ r.sent = pg.sent /\ r.thrown = pg.thrown
      /\ r.dragged = id
  BY DEF NodeDown, Page
<1>. HIDE DEF r
<1>2. SerializePaths(r) = SerializePaths(pg) /\ Shown(r) = Shown(pg)
  BY <1>1 DEF SerializePaths, Shown
<1>3. Goes(pg, r)
  BY <1>1, <1>2, QuietGoes, NodeEditorAssumption
<1>. QED
  BY <1>3 DEF r

(* The loose path is in no list. *)
LEMMA WindowDownGoes ==
  ASSUME NEW pg, PageInv(pg)
  PROVE  Goes(pg, WindowDown(pg))
<1>. DEFINE S == {pg.loose} \ {Undefined}
            u == RemovePaths(pg, S)
            r == WindowDown(pg)
<1>1. S \in SUBSET Slots /\ pg \in Page
  BY DEF PageInv, Page
<1>2. /\ u \in Page
      /\ u.nodes = pg.nodes /\ u.sent = pg.sent /\ u.dragged = pg.dragged /\ u.thrown = pg.thrown
      /\ \A i \in Slots : u.paths[i] = IF i \in S THEN NoPath ELSE pg.paths[i]
  BY <1>1, RemovePathsFields
<1>3. r = [u EXCEPT !.selected = NoId]
  BY DEF WindowDown
<1>. HIDE DEF u, r
<1>4. /\ r.nodes = u.nodes /\ r.sent = u.sent /\ r.dragged = u.dragged /\ r.thrown = u.thrown
      /\ r.paths = u.paths
  BY <1>2, <1>3 DEF Page
<1>5. \A i \in S : pg.paths[i] \notin Join
  BY <1>1, NodeEditorAssumption DEF PageInv, Hanging, Join
<1>6. NoPath \notin Join
  BY NodeEditorAssumption DEF NoPath, Join
<1>7. SerializePaths(r) = SerializePaths(pg)
  BY <1>1, <1>2, <1>4, <1>5, <1>6 DEF SerializePaths
<1>8. Shown(r) = Shown(pg)
  BY <1>2, <1>4 DEF Shown
<1>9. Goes(pg, r)
  BY <1>2, <1>4, <1>7, <1>8, QuietGoes
<1>. QED
  BY <1>9 DEF r

LEMMA DragGoes ==
  ASSUME NEW pg, PageInv(pg), NEW place \in Places, pg.dragged # NoId
  PROVE  Goes(pg, Drag(pg, place))
<1>. DEFINE r == Drag(pg, place)
<1>1. pg \in Page /\ pg.dragged \in Ids /\ pg.nodes[pg.dragged] # Away
  BY DEF PageInv, Held, Shown, Page
<1>2. /\ r.nodes = [pg.nodes EXCEPT ![pg.dragged] = place]
      /\ r.sent = pg.sent /\ r.dragged = pg.dragged /\ r.thrown = pg.thrown
      /\ SerializePaths(r) = SerializePaths(pg)
  BY <1>1, VanishMakes DEF Drag
<1>. HIDE DEF r
<1>3. pg.nodes \in [Ids -> Places \cup {Away}]
  BY <1>1 DEF Page
<1>4. /\ r.nodes[pg.dragged] = place /\ place # Away
      /\ \A x \in Ids \ {pg.dragged} : r.nodes[x] = pg.nodes[x]
  BY <1>1, <1>2, <1>3, NodeEditorAssumption
<1>5. Shown(r) = Shown(pg)
  BY <1>1, <1>4 DEF Shown
<1>6. \A x \in Ids : x # r.dragged => x # pg.dragged /\ r.nodes[x] = pg.nodes[x]
  BY <1>2, <1>4
<1>7. Goes(pg, r)
  <2>1. r.sent = pg.sent /\ SerializePaths(r) = SerializePaths(pg) /\ (pg.thrown => r.thrown)
    BY <1>2
  <2>. QED
    BY ONLY <1>5, <1>6, <2>1, QuietGoes
<1>. QED
  BY <1>7 DEF r

(* What is said of a module that is there. *)
LEMMA SayingGoes ==
  ASSUME NEW pg, PageInv(pg), NEW r, NEW id \in Ids, NEW place \in Places,
         r.sent = Append(pg.sent, ModuleMsg(id, place)), r.thrown = pg.thrown,
         r.nodes[id] = place, \A x \in Ids \ {id} : r.nodes[x] = pg.nodes[x] /\ x # pg.dragged,
         SerializePaths(r) = SerializePaths(pg)
  PROVE  Goes(pg, r)
<1>1. pg.sent \in Seq(Told) /\ SerializePaths(pg) \subseteq GoodJoin
  BY ListsShown DEF PageInv, Said
<1>2. \A x \in Sockets : Removes(r.sent, x) => Removes(pg.sent, x)
  <2>. DEFINE m == ModuleMsg(id, place)
  <2>1. m \in Told /\ m.place # Away /\ r.sent = Append(pg.sent, m)
    BY NodeEditorAssumption DEF ModuleMsg, Told, ModuleMessage
  <2>. HIDE DEF m
  <2>. QED
    BY ONLY <1>1, <2>1, AppendSays, SocketsAreIds
<1>3. ASSUME NEW c \in Seq(Told), NEW mods, NEW J \in SUBSET GoodJoin, NEW st,
             Follows(pg, c, mods, J, st)
      PROVE  Follows(r, c, mods, J, st)
  BY <1>1, <1>3, FollowsSaying
<1>. QED
  BY <1>2, <1>3 DEF Goes

LEMMA MouseUpGoes ==
  ASSUME NEW pg, PageInv(pg), pg.dragged # NoId
  PROVE  Goes(pg, MouseUp(pg))
<1>. DEFINE r == MouseUp(pg)
            id == pg.dragged
            place == pg.nodes[id]
<1>1. pg \in Page /\ id \in Ids /\ place \in Places
  BY DEF PageInv, Held, Shown, Page
<1>2. /\ r.nodes = pg.nodes /\ r.paths = pg.paths /\ r.thrown = pg.thrown
      /\ r.sent = Append(pg.sent, ModuleMsg(id, place))
  BY <1>1 DEF MouseUp, Publish, Page
<1>. HIDE DEF r
<1>3. SerializePaths(r) = SerializePaths(pg)
  BY <1>2 DEF SerializePaths
<1>4. r.nodes[id] = place /\ \A x \in Ids \ {id} : r.nodes[x] = pg.nodes[x] /\ x # pg.dragged
  BY <1>2
<1>5. Goes(pg, r)
  BY <1>1, <1>2, <1>3, <1>4, SayingGoes
<1>. QED
  BY <1>5 DEF r

LEMMA CreateGoes ==
  ASSUME NEW pg, PageInv(pg), NEW id \in Ids, NEW place \in Places, pg.dragged = NoId
  PROVE  Goes(pg, Create(pg, id, place))
<1>. DEFINE r == Create(pg, id, place)
<1>1. pg \in Page /\ pg.nodes \in [Ids -> Places \cup {Away}]
  BY DEF PageInv, Page
<1>2. /\ r.nodes = [pg.nodes EXCEPT ![id] = place] /\ r.paths = pg.paths /\ r.thrown = pg.thrown
      /\ r.sent = Append(pg.sent, ModuleMsg(id, place))
  BY <1>1 DEF Create, NodeDown, AddNode, Publish, Page
<1>. HIDE DEF r
<1>3. SerializePaths(r) = SerializePaths(pg)
  BY <1>2 DEF SerializePaths
<1>4. r.nodes[id] = place /\ \A x \in Ids \ {id} : r.nodes[x] = pg.nodes[x] /\ x # pg.dragged
  BY <1>1, <1>2, NodeEditorAssumption
<1>5. Goes(pg, r)
  <2>1. r.sent = Append(pg.sent, ModuleMsg(id, place)) /\ r.thrown = pg.thrown
    BY <1>2
  <2>. QED
    BY ONLY <1>3, <1>4, <2>1, PageInv(pg), id \in Ids, place \in Places, SayingGoes
<1>. QED
  BY <1>5 DEF r

(* removeNode, when the user deletes a node. *)
LEMMA RemoveNodeGoes ==
  ASSUME NEW pg, PageInv(pg), NEW id \in Ids, id \notin Sockets,
         NEW r \in RemoveNode(pg, id, FALSE)
  PROVE  Goes(pg, r)
<1>. DEFINE u == RemovePaths(LetGo(pg, id), At(pg, id))
            q == PublishPaths(u)
            m == ModuleMsg(id, Away)
<1>1. pg \in Page /\ pg.sent \in Seq(Told) /\ pg.nodes \in [Ids -> Places \cup {Away}]
  BY DEF PageInv, Page, Said
<1>2. CASE Throws(pg, id)
  <2>1. PICK S \in SUBSET Slots : r = [RemovePaths(LetGo(pg, id), S) EXCEPT !.thrown = TRUE]
    BY <1>2 DEF RemoveNode, At
  <2>. DEFINE v == RemovePaths(LetGo(pg, id), S)
  <2>2. v \in Page /\ v.sent = pg.sent
    <3>1. PageInv(LetGo(pg, id)) /\ LetGo(pg, id).sent = pg.sent
      BY <1>1, LetGoKeeps DEF LetGo, Page
    <3>. QED
      BY <3>1, RemovePathsFields DEF PageInv
  <2>. HIDE DEF v
  <2>3. r.thrown = TRUE /\ r.sent = pg.sent
    BY <2>1, <2>2 DEF Page, v
  <2>. QED
    BY <2>3 DEF Goes
<1>3. CASE ~ Throws(pg, id)
  <2>1. r = [Publish(q, m) EXCEPT !.nodes[id] = Away]
    BY <1>3 DEF RemoveNode
  <2>2. /\ PageInv(u) /\ u \in Page
        /\ u.nodes = pg.nodes /\ u.sent = pg.sent /\ u.thrown = pg.thrown
        /\ u.dragged = IF pg.dragged = id THEN NoId ELSE pg.dragged
        /\ SerializePaths(u) = {j \in SerializePaths(pg) : id \notin Owners(j)}
    BY UnlinkMakes DEF PageInv
  <2>. HIDE DEF u, m
  <2>3. q \in Page
    BY <2>2, PublishPathsKeeps DEF PageInv
  <2>4. /\ q.nodes = u.nodes /\ q.paths = u.paths /\ q.thrown = u.thrown /\ q.dragged = u.dragged
        /\ q.sent = Append(u.sent, PathsMsg(SerializePaths(u)))
    BY <2>2 DEF PublishPaths, Publish, Page
  <2>. HIDE DEF q
  <2>5. /\ r.nodes = [q.nodes EXCEPT ![id] = Away] /\ r.paths = q.paths
        /\ r.thrown = q.thrown /\ r.dragged = q.dragged /\ r.sent = Append(q.sent, m)
    BY <2>1, <2>3 DEF Publish, Page
  <2>6. SerializePaths(q) = SerializePaths(u) /\ SerializePaths(r) = SerializePaths(u)
    BY <2>4, <2>5 DEF SerializePaths
  <2>7. /\ SerializePaths(r) \in SUBSET GoodJoin
        /\ \A j \in SerializePaths(r) : Owners(j) \subseteq Shown(pg)
    BY <2>2, <2>6, ListsShown
  <2>8. /\ q.sent = Append(pg.sent, PathsMsg(SerializePaths(r)))
        /\ r.sent = Append(q.sent, ModuleMsg(id, Away))
    BY <2>2, <2>4, <2>5, <2>6 DEF m
  <2>9. /\ r.nodes[id] = Away /\ \A x \in Ids \ {id} : r.nodes[x] = pg.nodes[x]
        /\ \A x \in Ids \ {id} : x # r.dragged => x # pg.dragged
    BY <1>1, <2>2, <2>4, <2>5
  <2>10. \A x \in Sockets : Removes(r.sent, x) => Removes(pg.sent, x)
    <3>. DEFINE l == PathsMsg(SerializePaths(r))
    <3>1. /\ l \in Told /\ \A x : ~ About(l, x)
          /\ m \in Told /\ \A x \in Sockets : ~ About(m, x)
      BY <2>7 DEF PathsMsg, ModuleMsg, Told, ModuleMessage, About, m
    <3>2. q.sent = Append(pg.sent, l) /\ r.sent = Append(q.sent, m)
      BY <2>5, <2>8
    <3>. HIDE DEF l
    <3>3. q.sent \in Seq(Told)
      BY <1>1, <3>1, <3>2, AppendLists
    <3>4. \A x \in Sockets : Removes(q.sent, x) => Removes(pg.sent, x)
      BY ONLY <1>1, <3>1, <3>2, AppendSays, SocketsAreIds
    <3>5. \A x \in Sockets : Removes(r.sent, x) => Removes(q.sent, x)
      <4>1. r.sent = Append(q.sent, m)
        BY <3>2
      <4>. QED
        BY ONLY <3>1, <3>3, <4>1, AppendSays, SocketsAreIds
    <3>. QED
      BY <3>4, <3>5
  <2>11. ASSUME NEW c \in Seq(Told), NEW mods, NEW J \in SUBSET GoodJoin, NEW st,
                Follows(pg, c, mods, J, st)
         PROVE  Follows(r, c, mods, J, st)
    BY ONLY <1>1, <2>6, <2>7, <2>8, <2>9, <2>11, id \in Ids, FollowsRemoving
  <2>12. r.thrown = pg.thrown
    BY <2>2, <2>4, <2>5
  <2>. QED
    BY <2>10, <2>11, <2>12 DEF Goes
<1>. QED
  BY <1>2, <1>3
----------------------------------------------------------------------------
(* The pages and the server. *)

LEMMA ConcatForms ==
  ASSUME NEW c \in Seq(Told), NEW m \in Told, NEW l \in Told
  PROVE  c \o <<>> = c /\ c \o <<m>> = Append(c, m) /\ c \o (<<m>> \o <<>>) = Append(c, m)
         /\ c \o (<<m>> \o <<l>>) = Append(Append(c, m), l)
<1>1. c \o <<>> = c
  BY ConcatEmptySeq
<1>2. \A s \in Seq(Told), y \in Told : s \o <<y>> = Append(s, y) /\ Append(s, y) \in Seq(Told)
  BY AppendIsConcat, AppendProperties
<1>3. <<m>> \o <<>> = <<m>>
  <2>1. <<m>> \in Seq(Told)
    OBVIOUS
  <2>. QED
    BY <2>1, ConcatEmptySeq
<1>4. c \o (<<m>> \o <<l>>) = (c \o <<m>>) \o <<l>>
  <2>1. <<m>> \in Seq(Told) /\ <<l>> \in Seq(Told)
    OBVIOUS
  <2>. QED
    BY <2>1, ConcatAssociative
<1>. QED
  BY <1>1, <1>2, <1>3, <1>4

LEMMA GestureFollows ==
  ASSUME Inv, FollowInv, NEW e \in Editors, NEW pages, Does(e, pages),
         \A r \in pages : Goes(page[e], r)
  PROVE  FollowInv'
<1>1. PICK r \in pages : page' = [page EXCEPT ![e] = r]
  BY DEF Does
<1>2. UNCHANGED <<link, coming, modules, joins, strays>>
  BY DEF Does, server
<1>3. /\ page'[e] = r /\ Goes(page[e], r)
      /\ \A x \in Editors \ {e} : page'[x] = page[x]
  BY <1>1 DEF Inv, TypeOK
<1>4. \A x \in Editors : coming[x] \in Seq(Told) /\ strays[x] \in SUBSET Ids
  BY DEF Inv, TypeOK
<1>5. modules \in [Ids -> Places \cup {Away}] /\ joins \in SUBSET GoodJoin
  BY DEF Inv, TypeOK
<1>6. \A x \in Editors : Goes(page[x], page'[x]) \/ page'[x] = page[x]
  BY <1>3
<1>7. \A y \in Editors, x \in Sockets : ~ Removes(page'[y].sent, x)
  BY <1>6 DEF FollowInv, Goes
<1>8. \A x \in Editors : link'[x] = "deaf" => page'[x].thrown
  BY <1>2, <1>6 DEF FollowInv, Goes
<1>9. ASSUME NEW x \in Editors, link'[x] = "up", ~ page'[x].thrown
      PROVE  Follows(page'[x], coming[x], modules, joins, strays[x])
  <2>1. ~ page[x].thrown
    BY <1>6, <1>9 DEF Goes
  <2>2. Follows(page[x], coming[x], modules, joins, strays[x])
    BY <1>2, <1>9, <2>1 DEF FollowInv
  <2>. QED
    BY <1>4, <1>5, <1>6, <1>9, <2>2 DEF Goes
<1>10. \A j \in joins : \A x \in Owners(j) : modules[x] # Away
  BY DEF FollowInv
<1>. QED
  BY <1>2, <1>7, <1>8, <1>9, <1>10 DEF FollowInv

(* Each action of EditorSync keeps the invariant.                             *)
LEMMA UserFollows ==
  ASSUME Inv, FollowInv, NEW e \in Editors, Press(e) \/ Hold(e) \/ Delete(e)
  PROVE  FollowInv'
<1>. DEFINE pg == page[e]
<1>1. PageInv(pg) /\ pg \in Page
  BY DEF Inv, PageInv
<1>. HIDE DEF pg
<1>2. CASE Press(e)
  <2>0. pg.dragged = NoId
    BY <1>2 DEF Press, FreeHand, pg
  <2>1. ASSUME NEW p \in Ports, Owner[p] \in Shown(pg), Does(e, PortDown(pg, p))
        PROVE  FollowInv'
    BY <1>1, <2>1, PortDownGoes, GestureFollows DEF pg
  <2>2. ASSUME NEW id \in Shown(pg), Does(e, {NodeDown(pg, id)})
        PROVE  FollowInv'
    BY <1>1, <2>0, <2>2, NodeDownGoes, GestureFollows DEF pg
  <2>3. ASSUME Does(e, {WindowDown(pg)})
        PROVE  FollowInv'
    BY <1>1, <2>3, WindowDownGoes, GestureFollows DEF pg
  <2>4. ASSUME NEW id \in Ids, NEW place \in Places, Does(e, {Create(pg, id, place)})
        PROVE  FollowInv'
    BY <1>1, <2>0, <2>4, CreateGoes, GestureFollows DEF pg
  <2>. QED
    BY <1>2, <2>1, <2>2, <2>3, <2>4 DEF Press, pg
<1>3. CASE Hold(e)
  <2>1. pg.dragged # NoId
    BY <1>3 DEF Hold, FreeHand, pg
  <2>2. ASSUME NEW place \in Places, Does(e, {Drag(pg, place)})
        PROVE  FollowInv'
    BY <1>1, <2>1, <2>2, DragGoes, GestureFollows DEF pg
  <2>3. ASSUME Does(e, {MouseUp(pg)})
        PROVE  FollowInv'
    BY <1>1, <2>1, <2>3, MouseUpGoes, GestureFollows DEF pg
  <2>. QED
    BY <1>3, <2>2, <2>3 DEF Hold, pg
<1>4. CASE Delete(e)
  <2>. DEFINE id == pg.selected
  <2>1. id \in Ids /\ id \notin Sockets /\ Does(e, RemoveNode(pg, id, FALSE))
    BY <1>1, <1>4 DEF Delete, Page, pg
  <2>. HIDE DEF id
  <2>2. \A r \in RemoveNode(pg, id, FALSE) : Goes(pg, r)
    BY <1>1, <2>1, RemoveNodeGoes
  <2>. QED
    BY <2>1, <2>2, GestureFollows DEF pg
<1>. QED
  BY <1>2, <1>3, <1>4

(* What the server makes of a message, and what it says of it to a page. *)
LEMMA ServerFollows ==
  ASSUME Inv, FollowInv, NEW m \in Told,
         IF m.type = "paths" THEN ServePaths(m)
         ELSE ServeModule(m) \/ ServeRemoval(m) \/ ServeUnknown(m),
         m.type = "module" /\ m.place = Away => m.id \notin Sockets
  PROVE  /\ \A j \in joins' : \A y \in Owners(j) : modules'[y] # Away
         /\ m.type = "module" => modules'[m.id] = m.place
         /\ m.type = "paths" =>
              joins' = {j \in m.names : \A y \in Owners(j) : modules'[y] # Away}
         /\ \A x \in Editors : link[x] = "up" /\ ~ page[x].thrown =>
              Follows(page[x], coming'[x], modules', joins', strays[x])
<1>1. /\ modules \in [Ids -> Places \cup {Away}] /\ joins \in SUBSET GoodJoin
      /\ modules' \in [Ids -> Places \cup {Away}] /\ joins' \in SUBSET GoodJoin
  BY ServerKeeps DEF Inv, TypeOK
<1>2. ASSUME NEW x \in Editors, link[x] = "up", ~ page[x].thrown
      PROVE  /\ coming[x] \in Seq(Told)
             /\ SerializePaths(page[x]) \in SUBSET GoodJoin
             /\ Follows(page[x], coming[x], modules, joins, strays[x])
  BY <1>2, ListsShown DEF Inv, FollowInv
<1>3. ASSUME NEW ms, Publishes(ms), NEW x \in Editors, link[x] = "up"
      PROVE  coming'[x] = coming[x] \o ms
  BY <1>3 DEF Publishes
<1>4. \A j \in joins : \A y \in Owners(j) : modules[y] # Away
  BY DEF FollowInv
<1>5. CASE m.type = "paths"
  <2>1. /\ joins' = Accepted(m.names) /\ modules' = modules
        /\ Publishes(IF joins' = joins THEN <<>> ELSE <<PathsMsg(joins')>>)
    BY <1>5 DEF ServePaths
  <2>2. m.names \in SUBSET GoodJoin
    BY <1>5 DEF Told, ModuleMessage
  <2>3. joins' = {j \in m.names : \A y \in Owners(j) : modules'[y] # Away}
    BY <2>1, <2>2 DEF Accepted, GoodJoin, Owners
  <2>4. PICK new \in SUBSET GoodJoin : new = joins'
    BY <1>1
  <2>5. PathsMsg(new) \in Told
    BY DEF PathsMsg, Told
  <2>6. ASSUME NEW x \in Editors, link[x] = "up", ~ page[x].thrown
        PROVE  Follows(page[x], coming'[x], modules', joins', strays[x])
    <3>1. CASE new = joins
      <4>1. Publishes(<<>>)
        BY <2>1, <2>4, <3>1
      <4>2. coming'[x] = coming[x]
        BY <1>2, <1>3, <2>5, <2>6, <4>1, ConcatForms
      <4>. QED
        BY <1>2, <2>1, <2>4, <2>6, <3>1, <4>2
    <3>2. CASE new # joins
      <4>1. Publishes(<<PathsMsg(new)>>)
        BY <2>1, <2>4, <3>2
      <4>2. coming'[x] = Append(coming[x], PathsMsg(new))
        <5>1. coming'[x] = coming[x] \o <<PathsMsg(new)>>
          BY <1>3, <2>6, <4>1
        <5>2. coming[x] \in Seq(Told)
          BY <1>2, <2>6
        <5>. QED
          BY ONLY <2>5, <5>1, <5>2, ConcatForms
      <4>3. \A j \in new : \A y \in Owners(j) : modules[y] # Away
        BY <2>1, <2>3, <2>4
      <4>4. Follows(page[x], Append(coming[x], PathsMsg(new)), modules, new, strays[x])
        <5>1. coming[x] \in Seq(Told) /\ Follows(page[x], coming[x], modules, joins, strays[x])
          BY <1>2, <2>6
        <5>. QED
          BY ONLY <4>3, <5>1, FollowsList, new \in SUBSET GoodJoin
      <4>. QED
        BY <2>1, <2>4, <4>2, <4>4
    <3>. QED
      BY <3>1, <3>2
  <2>. QED
    BY <1>5, <2>3, <2>6
<1>6. CASE m.type # "paths" /\ ServeModule(m)
  <2>1. m.type = "module" /\ m.id \in Ids /\ m.place \in Places \cup {Away}
    BY <1>6 DEF Told, ModuleMessage
  <2>2. /\ m.place # Away /\ modules' = [modules EXCEPT ![m.id] = m.place] /\ joins' = joins
        /\ Publishes(IF modules' = modules THEN <<>> ELSE <<m>>)
    BY <1>6 DEF ServeModule
  <2>3. modules'[m.id] = m.place /\ \A y \in Ids \ {m.id} : modules'[y] = modules[y]
    BY <1>1, <2>1, <2>2
  <2>4. \A j \in joins' : \A y \in Owners(j) : modules'[y] # Away
    BY <1>1, <1>4, <2>2, <2>3, OwnersIds DEF GoodJoin
  <2>5. ASSUME NEW x \in Editors, link[x] = "up", ~ page[x].thrown
        PROVE  Follows(page[x], coming'[x], modules', joins', strays[x])
    <3>1. CASE modules' = modules
      <4>1. Publishes(<<>>)
        BY <2>2, <3>1
      <4>2. coming'[x] = coming[x]
        BY <1>2, <1>3, <2>5, <4>1, ConcatForms
      <4>. QED
        BY <1>2, <2>2, <2>5, <3>1, <4>2
    <3>2. CASE modules' # modules
      <4>1. Publishes(<<m>>)
        BY <2>2, <3>2
      <4>2. coming'[x] = Append(coming[x], m)
        <5>1. coming'[x] = coming[x] \o <<m>>
          BY <1>3, <2>5, <4>1
        <5>2. coming[x] \in Seq(Told)
          BY <1>2, <2>5
        <5>. QED
          BY ONLY <5>1, <5>2, m \in Told, ConcatForms
      <4>3. PICK new \in [Ids -> Places \cup {Away}] : new = modules'
        BY <1>1
      <4>4. new[m.id] = m.place /\ \A y \in Ids \ {m.id} : new[y] = modules[y]
        BY <2>3, <4>3
      <4>5. Follows(page[x], Append(coming[x], m), new, joins, strays[x])
        <5>1. /\ coming[x] \in Seq(Told) /\ Follows(page[x], coming[x], modules, joins, strays[x])
              /\ SerializePaths(page[x]) \subseteq GoodJoin
          BY <1>2, <2>5
        <5>. QED
          BY ONLY <1>1, <2>1, <2>2, <4>4, <5>1, m \in Told, FollowsPlacing
      <4>. QED
        BY <2>2, <4>2, <4>3, <4>5
    <3>. QED
      BY <3>1, <3>2
  <2>. QED
    BY <2>1, <2>3, <2>4, <2>5
<1>7. CASE m.type # "paths" /\ (ServeRemoval(m) \/ ServeUnknown(m))
  <2>1. m.type = "module" /\ m.id \in Ids
    BY <1>7 DEF Told, ModuleMessage
  <2>2. m.place = Away /\ m.id \notin Sockets
    BY <1>7, <2>1 DEF ServeRemoval, ServeUnknown
  <2>3. CASE ServeUnknown(m)
    <3>1. /\ modules[m.id] = Away /\ modules' = modules /\ joins' = joins
          /\ Publishes(IF m.id \in published THEN <<>> ELSE <<m>>)
      BY <2>3 DEF ServeUnknown
    <3>2. \A j \in joins : m.id \notin Owners(j)
      BY <1>4, <3>1
    <3>3. ASSUME NEW x \in Editors, link[x] = "up", ~ page[x].thrown
          PROVE  Follows(page[x], coming'[x], modules', joins', strays[x])
      <4>1. CASE m.id \in published
        <5>1. coming'[x] = coming[x]
          BY <1>2, <1>3, <3>1, <3>3, <4>1, ConcatForms
        <5>. QED
          BY <1>2, <3>1, <3>3, <5>1
      <4>2. CASE m.id \notin published
        <5>1. /\ coming[x] \in Seq(Told) /\ Follows(page[x], coming[x], modules, joins, strays[x])
              /\ SerializePaths(page[x]) \subseteq GoodJoin
          BY <1>2, <3>3
        <5>2. coming'[x] = Append(coming[x], m)
          <6>1. coming'[x] = coming[x] \o <<m>>
            BY <1>3, <3>1, <3>3, <4>2
          <6>. QED
            BY ONLY <5>1, <6>1, m \in Told, ConcatForms
        <5>3. joins \in SUBSET GoodJoin /\ joins \in SUBSET joins
          BY <1>1
        <5>4. Follows(page[x], IF joins = joins THEN Append(coming[x], m)
                               ELSE Append(Append(coming[x], m), PathsMsg(joins)),
                      modules, joins, strays[x])
          BY ONLY <1>4, <2>1, <2>2, <3>1, <3>2, <5>1, <5>3, m \in Told,
                  FollowsRemoval, ZenonT(40)
        <5>. QED
          BY <3>1, <5>2, <5>4
      <4>. QED
        BY <4>1, <4>2
    <3>. QED
      BY <1>4, <2>1, <2>2, <3>1, <3>3
  <2>4. CASE ServeRemoval(m)
    <3>1. /\ modules' = [modules EXCEPT ![m.id] = Away]
          /\ joins' = {j \in joins : m.id \notin {Owner[j.from], Owner[j.to]}}
          /\ Publishes(<<m>> \o IF joins' = joins THEN <<>> ELSE <<PathsMsg(joins')>>)
      BY <2>2, <2>4 DEF ServeRemoval
    <3>2. PICK new \in [Ids -> Places \cup {Away}] : new = modules'
      BY <1>1
    <3>3. PICK rest \in SUBSET joins : rest = joins'
      BY <3>1
    <3>4. new[m.id] = Away /\ \A y \in Ids \ {m.id} : new[y] = modules[y]
      BY <1>1, <2>1, <3>1, <3>2
    <3>5. \A j \in rest : m.id \notin Owners(j)
      BY <3>1, <3>3 DEF Owners
    <3>6. \A j \in rest : \A y \in Owners(j) : new[y] # Away
      BY <1>1, <1>4, <3>4, <3>5, OwnersIds DEF GoodJoin
    <3>7. PathsMsg(rest) \in Told
      BY <1>1 DEF PathsMsg, Told
    <3>8. ASSUME NEW x \in Editors, link[x] = "up", ~ page[x].thrown
          PROVE  Follows(page[x], coming'[x], modules', joins', strays[x])
      <4>. DEFINE d == IF rest = joins THEN Append(coming[x], m)
                                       ELSE Append(Append(coming[x], m), PathsMsg(rest))
      <4>1. coming'[x] = coming[x] \o (<<m>> \o IF rest = joins THEN <<>> ELSE <<PathsMsg(rest)>>)
        BY <1>3, <3>1, <3>3, <3>8
      <4>2. coming'[x] = d
        <5>1. CASE rest = joins
          BY <1>2, <3>7, <3>8, <4>1, <5>1, ConcatForms
        <5>2. CASE rest # joins
          BY <1>2, <3>7, <3>8, <4>1, <5>2, ConcatForms
        <5>. QED
          BY <5>1, <5>2
      <4>3. Follows(page[x], d, new, rest, strays[x])
        <5>1. /\ coming[x] \in Seq(Told) /\ Follows(page[x], coming[x], modules, joins, strays[x])
              /\ SerializePaths(page[x]) \subseteq GoodJoin
          BY <1>2, <3>8
        <5>2. joins \in SUBSET GoodJoin
          BY <1>1
        <5>3. Follows(page[x], IF rest = joins THEN Append(coming[x], m)
                               ELSE Append(Append(coming[x], m), PathsMsg(rest)),
                      new, rest, strays[x])
          BY ONLY <2>1, <2>2, <3>4, <3>5, <3>6, <5>1, <5>2, m \in Told,
                  rest \in SUBSET joins, FollowsRemoval, ZenonT(40)
        <5>. QED
          BY <5>3
      <4>. QED
        BY <3>2, <3>3, <4>2, <4>3
    <3>. QED
      BY <2>1, <2>2, <3>2, <3>3, <3>4, <3>6, <3>8
  <2>. QED
    BY <1>7, <2>3, <2>4
<1>. QED
  BY <1>5, <1>6, <1>7
LEMMA ServeFollows ==
  ASSUME Inv, FollowInv, NEW e \in Editors, Serve(e)
  PROVE  FollowInv'
<1>. DEFINE pg == page[e]
            m == Head(pg.sent)
            r == [pg EXCEPT !.sent = Tail(pg.sent)]
<1>1. PageInv(pg) /\ pg \in Page /\ pg.sent # <<>> /\ pg.sent \in Seq(Told)
  BY DEF Inv, Serve, PageInv, Said
<1>2. m \in Told
  BY <1>1, HeadTailProperties
<1>3. /\ IF m.type = "paths" THEN ServePaths(m)
         ELSE ServeModule(m) \/ ServeRemoval(m) \/ ServeUnknown(m)
      /\ page' = [page EXCEPT ![e] = r]
      /\ UNCHANGED <<link, strays>>
  BY DEF Serve, Inv, TypeOK
<1>4. /\ r.sent = Tail(pg.sent) /\ r.nodes = pg.nodes /\ r.dragged = pg.dragged
      /\ r.thrown = pg.thrown /\ r.paths = pg.paths
  BY <1>1 DEF Page
<1>5. SerializePaths(r) = SerializePaths(pg) /\ SerializePaths(pg) \in SUBSET GoodJoin
  BY <1>1, <1>4, ListsShown DEF SerializePaths
<1>6. /\ page'[e] = r
      /\ \A x \in Editors \ {e} : page'[x] = page[x]
  BY <1>3 DEF Inv, TypeOK
<1>. HIDE DEF m, r
<1>7. \A x \in Sockets : ~ (About(m, x) /\ m.place = Away) /\ ~ Removes(r.sent, x)
  <2>1. \A x \in Sockets : ~ Removes(pg.sent, x)
    BY DEF FollowInv
  <2>. HIDE DEF pg
  <2>. QED
    BY ONLY <1>1, <1>4, <2>1, TailSays, SocketsAreIds DEF m
<1>8. m.type = "module" /\ m.place = Away => m.id \notin Sockets
  BY <1>7 DEF About
<1>9. /\ \A j \in joins' : \A y \in Owners(j) : modules'[y] # Away
      /\ m.type = "module" => modules'[m.id] = m.place
      /\ m.type = "paths" =>
           joins' = {j \in m.names : \A y \in Owners(j) : modules'[y] # Away}
      /\ \A x \in Editors : link[x] = "up" /\ ~ page[x].thrown =>
           Follows(page[x], coming'[x], modules', joins', strays[x])
  BY <1>2, <1>3, <1>8, ServerFollows
<1>10. coming'[e] \in Seq(Told) /\ joins' \in SUBSET GoodJoin
  BY <1>2, <1>3, ServerKeeps
<1>11. ASSUME link[e] = "up", ~ r.thrown
       PROVE  Follows(r, coming'[e], modules', joins', strays[e])
  <2>1. Follows(pg, coming'[e], modules', joins', strays[e])
    BY <1>4, <1>9, <1>11
  <2>. HIDE DEF pg
  <2>2. CASE m.type = "module"
    <3>1. Head(pg.sent).type = "module" /\ modules'[Head(pg.sent).id] = Head(pg.sent).place
      BY <1>9, <2>2 DEF m
    <3>. QED
      BY ONLY <1>1, <1>4, <1>5, <1>9, <1>10, <2>1, <3>1, DropModule
  <2>3. CASE m.type = "paths"
    <3>1. /\ Head(pg.sent).type = "paths"
          /\ joins' = {j \in Head(pg.sent).names : \A y \in Owners(j) : modules'[y] # Away}
      BY <1>9, <2>3 DEF m
    <3>. QED
      BY ONLY <1>1, <1>4, <1>5, <1>10, <2>1, <3>1, DropList
  <2>. QED
    BY <1>2, <2>2, <2>3 DEF Told, ModuleMessage
<1>12. ASSUME NEW x \in Editors, link'[x] = "up", ~ page'[x].thrown
       PROVE  Follows(page'[x], coming'[x], modules', joins', strays'[x])
  BY <1>3, <1>6, <1>9, <1>11, <1>12
<1>13. \A x \in Editors : link'[x] = "deaf" => page'[x].thrown
  BY <1>3, <1>4, <1>6 DEF FollowInv
<1>14. \A y \in Editors, x \in Sockets : ~ Removes(page'[y].sent, x)
  BY <1>6, <1>7 DEF FollowInv
<1>. QED
  BY <1>9, <1>12, <1>13, <1>14 DEF FollowInv

(* An update is not published again by the page it reaches. *)
LEMMA HandleSaysNothing ==
  ASSUME NEW pg, PageInv(pg), NEW m \in Told, NEW rs \in BOOLEAN, NEW r \in Handle(pg, m, rs)
  PROVE  r.sent = pg.sent
<1>1. pg \in Page
  BY DEF PageInv
<1>2. CASE m.type = "paths"
  BY <1>2, HandleListMakes
<1>3. CASE m.type # "paths"
  <2>1. m.id \in Ids
    BY <1>3 DEF Told, ModuleMessage
  <2>2. CASE r \in RemoveNode(pg, m.id, TRUE)
    <3>. DEFINE free == LetGo(pg, m.id)
    <3>1. free \in Page /\ free.sent = pg.sent
      <4>1. PageInv(free)
        BY <2>1, LetGoKeeps
      <4>2. free.sent = pg.sent
        BY <1>1 DEF LetGo, Page
      <4>. QED
        BY <4>1, <4>2 DEF PageInv
    <3>. HIDE DEF free
    <3>2. \A S \in SUBSET Slots : RemovePaths(free, S) \in Page /\ RemovePaths(free, S).sent = pg.sent
      BY <3>1, RemovePathsFields
    <3>3. \E S \in SUBSET Slots :
            \/ r = [RemovePaths(free, S) EXCEPT !.thrown = TRUE]
            \/ r = [RemovePaths(free, S) EXCEPT !.nodes[m.id] = Away]
      BY <2>2 DEF RemoveNode, At, free
    <3>. QED
      BY <3>2, <3>3 DEF Page
  <2>3. CASE r \notin RemoveNode(pg, m.id, TRUE)
    BY <1>1, <1>3, <2>3 DEF Handle, UpdateNode, AddNode, Page
  <2>. QED
    BY <2>2, <2>3
<1>. QED
  BY <1>2, <1>3

LEMMA ReceiveFollows ==
  ASSUME Inv, FollowInv, NEW e \in Editors, Receive(e)
  PROVE  FollowInv'
<1>. DEFINE m == Head(coming[e])
            pg == page[e]
<1>1. coming[e] \in Seq(Told) /\ coming[e] # <<>> /\ link[e] = "up"
  BY DEF Inv, Receive
<1>2. m \in Told
  BY <1>1, HeadTailProperties
<1>0. PICK rs \in BOOLEAN :
        /\ \E q \in Handle(pg, m, rs) : page' = [page EXCEPT ![e] = q]
        /\ link' = [link EXCEPT ![e] = IF HandlerThrows(pg, m, rs) THEN "deaf" ELSE "up"]
  BY DEF Receive
<1>3. PICK r \in Handle(pg, m, rs) : page' = [page EXCEPT ![e] = r]
  BY <1>0
<1>4. /\ coming' = [coming EXCEPT ![e] = Tail(coming[e])]
      /\ UNCHANGED <<modules, joins, strays>>
  BY DEF Receive, server
<1>5. /\ page'[e] = r /\ coming'[e] = Tail(coming[e])
      /\ link'[e] = IF HandlerThrows(pg, m, rs) THEN "deaf" ELSE "up"
      /\ \A x \in Editors \ {e} :
           page'[x] = page[x] /\ coming'[x] = coming[x] /\ link'[x] = link[x]
  BY <1>0, <1>3, <1>4 DEF Inv, TypeOK
<1>6. PageInv(pg) /\ pg.nodes \in [Ids -> Places \cup {Away}] /\ joins \in SUBSET GoodJoin
      /\ SerializePaths(pg) \in SUBSET GoodJoin
  BY ListsShown DEF Inv, PageInv, Page
<1>7. ~ pg.thrown => Follows(pg, coming[e], modules, joins, strays[e])
  BY <1>1 DEF FollowInv
<1>. HIDE DEF m, pg
<1>8. /\ pg.thrown \/ HandlerThrows(pg, m, rs) => r.thrown
      /\ ~ r.thrown => r.sent = pg.sent /\ Follows(r, Tail(coming[e]), modules, joins, strays[e])
  <2>1. CASE m.type = "module"
    <3>1. /\ pg.thrown \/ HandlerThrows(pg, m, rs) => r.thrown
          /\ ~ r.thrown =>
              /\ r.sent = pg.sent
              /\ r.nodes = [pg.nodes EXCEPT ![m.id] = m.place]
              /\ r.dragged = pg.dragged \/ (pg.dragged = m.id /\ r.dragged = NoId)
              /\ SerializePaths(r) =
                   {j \in SerializePaths(pg) : m.place = Away => m.id \notin Owners(j)}
      BY <1>2, <1>3, <1>6, <2>1, HandleModuleMakes
    <3>2. m.id \in Ids /\ m = Head(coming[e])
      BY <1>2, <2>1 DEF Told, ModuleMessage, m
    <3>3. ASSUME ~ r.thrown
          PROVE  Follows(r, Tail(coming[e]), modules, joins, strays[e])
      <4>1. /\ Follows(pg, coming[e], modules, joins, strays[e])
            /\ r.sent = pg.sent
            /\ r.nodes[m.id] = m.place /\ \A x \in Ids \ {m.id} : r.nodes[x] = pg.nodes[x]
            /\ r.dragged = pg.dragged \/ (pg.dragged = m.id /\ r.dragged = NoId)
            /\ \A j : j \in SerializePaths(r) <=>
                 j \in SerializePaths(pg) /\ (m.place = Away => m.id \notin Owners(j))
        BY <1>6, <1>7, <3>1, <3>2, <3>3
      <4>. QED
        BY ONLY <1>1, <1>6, <2>1, <3>2, <4>1, HeardModule
    <3>. QED
      BY <3>1, <3>3
  <2>2. CASE m.type = "paths"
    <3>1. /\ r.sent = pg.sent /\ r.nodes = pg.nodes /\ r.dragged = pg.dragged
          /\ r.thrown = pg.thrown
          /\ SerializePaths(r) = {j \in m.names : Owners(j) \subseteq Shown(pg)}
      BY <1>2, <1>3, <1>6, <2>2, HandleListMakes
    <3>2. ASSUME ~ r.thrown
          PROVE  Follows(r, Tail(coming[e]), modules, joins, strays[e])
      <4>1. m = Head(coming[e]) /\ Follows(pg, coming[e], modules, joins, strays[e])
        BY <1>7, <3>1, <3>2 DEF m
      <4>. QED
        BY ONLY <1>1, <1>6, <2>2, <3>1, <4>1, HeardList
    <3>. QED
      BY <2>2, <3>1, <3>2 DEF HandlerThrows
  <2>. QED
    BY <1>2, <2>1, <2>2 DEF Told, ModuleMessage
<1>9. \A y \in Editors, x \in Sockets : ~ Removes(page'[y].sent, x)
  <2>1. r.sent = pg.sent
    BY <1>2, <1>3, <1>6, HandleSaysNothing
  <2>. QED
    BY <1>5, <2>1 DEF FollowInv, pg
<1>10. \A x \in Editors : link'[x] = "deaf" => page'[x].thrown
  BY <1>5, <1>8 DEF FollowInv
<1>11. ASSUME NEW x \in Editors, link'[x] = "up", ~ page'[x].thrown
       PROVE  Follows(page'[x], coming'[x], modules, joins, strays[x])
  BY <1>5, <1>8, <1>11 DEF FollowInv
<1>. QED
  BY <1>4, <1>9, <1>10, <1>11 DEF FollowInv

LEMMA ConnectFollows ==
  ASSUME Inv, FollowInv, NEW e \in Editors, Connect(e)
  PROVE  FollowInv'
<1>. DEFINE live == {id \in Ids : modules[id] # Away}
            n == Cardinality(live)
            pg == page[e]
            told(order) == [k \in 1..n |-> ModuleMsg(order[k], modules[order[k]])]
<1>1. PICK order \in Retained[live] :
        coming' = [coming EXCEPT ![e] = told(order) \o <<PathsMsg(joins)>>]
  BY DEF Connect
<1>2. /\ link' = [link EXCEPT ![e] = "up"]
      /\ strays' = [strays EXCEPT ![e] = strays[e] \cup ((Shown(pg) \ live) \ Placed(pg.sent))]
      /\ UNCHANGED <<page, modules, joins>>
  BY DEF Connect, server, Inv, TypeOK
<1>3. /\ coming'[e] = told(order) \o <<PathsMsg(joins)>>
      /\ Shown(pg) \ live \subseteq strays'[e] \cup Placed(pg.sent)
      /\ \A x \in Editors \ {e} :
           coming'[x] = coming[x] /\ link'[x] = link[x] /\ strays'[x] = strays[x]
  BY <1>1, <1>2 DEF Inv, TypeOK
<1>4. live \in SUBSET Ids /\ n \in Nat /\ order \in Bijection(1..n, live)
  BY <1>1, FS_Subset, FS_CardinalityType, NodeEditorAssumption, EditorSyncAssumption
<1>5. pg.nodes \in [Ids -> Places \cup {Away}] /\ joins \in SUBSET GoodJoin
      /\ modules \in [Ids -> Places \cup {Away}]
  BY DEF Inv, TypeOK, Page
<1>. HIDE DEF n
<1>6. told(order) \in Seq(Told)
  <2>1. order \in [1..n -> live]
    BY <1>4 DEF Bijection, Injection
  <2>2. told(order) \in [1..n -> Told]
    BY <1>5, <2>1 DEF ModuleMsg, Told, ModuleMessage
  <2>. QED
    BY <1>4, <2>2
<1>7. \A j \in joins : \A x \in Owners(j) : modules[x] # Away
  BY DEF FollowInv
<1>8. Follows(pg, coming'[e], modules, joins, strays'[e])
  <2>1. PICK all : all = live
    OBVIOUS
  <2>2. PICK s : s = told(order)
    OBVIOUS
  <2>3. /\ all = {x \in Ids : modules[x] # Away}
        /\ order \in Bijection(1..n, all)
        /\ s \in Seq(Told) /\ s = [k \in 1..n |-> ModuleMsg(order[k], modules[order[k]])]
        /\ Shown(pg) \ all \subseteq strays'[e] \cup Placed(pg.sent)
        /\ n \in Nat
    BY <1>3, <1>4, <1>6, <2>1, <2>2
  <2>. HIDE DEF pg
  <2>4. Follows(pg, s \o <<PathsMsg(joins)>>, modules, joins, strays'[e])
    BY ONLY <1>5, <1>7, <2>3, FollowsConnected
  <2>. QED
    BY <1>3, <2>2, <2>4
<1>9. ASSUME NEW x \in Editors, link'[x] = "up", ~ page[x].thrown
      PROVE  Follows(page[x], coming'[x], modules, joins, strays'[x])
  BY <1>3, <1>8, <1>9 DEF FollowInv
<1>10. \A x \in Editors : link'[x] = "deaf" => page[x].thrown
  BY <1>2 DEF FollowInv, Inv, TypeOK
<1>. QED
  BY <1>2, <1>7, <1>9, <1>10 DEF FollowInv

LEMMA LoseFollows ==
  ASSUME Inv, FollowInv, NEW e \in Editors, Lose(e)
  PROVE  FollowInv'
<1>. DEFINE pg == page[e]
<1>1. PICK n \in 0..Len(pg.sent) : page' = [page EXCEPT ![e].sent = SubSeq(@, 1, n)]
  BY DEF Lose
<1>. DEFINE s == SubSeq(pg.sent, 1, n)
<1>2. /\ page' = [page EXCEPT ![e] = [pg EXCEPT !.sent = s]]
      /\ coming' = [coming EXCEPT ![e] = <<>>] /\ link' = [link EXCEPT ![e] = "down"]
      /\ UNCHANGED <<modules, joins, strays>>
  BY <1>1 DEF Lose, Inv, TypeOK, server
<1>3. /\ page'[e].sent = s /\ link'[e] = "down"
      /\ \A x \in Editors \ {e} :
           page'[x] = page[x] /\ coming'[x] = coming[x] /\ link'[x] = link[x]
  BY <1>2 DEF Inv, TypeOK, Page
<1>4. \A x \in Sockets : Removes(s, x) => Removes(pg.sent, x)
  <2>1. pg.sent \in Seq(Told)
    BY DEF Inv, PageInv, Said
  <2>2. Len(s) = n /\ \A k \in 1..n : s[k] = pg.sent[k] /\ k \in 1..Len(pg.sent)
    BY <2>1, LenProperties
  <2>. HIDE DEF s
  <2>. QED
    BY <2>2 DEF Removes
<1>5. \A y \in Editors, x \in Sockets : ~ Removes(page'[y].sent, x)
  BY <1>3, <1>4 DEF FollowInv
<1>6. \A x \in Editors : link'[x] = "deaf" => page'[x].thrown
  BY <1>3 DEF FollowInv
<1>7. ASSUME NEW x \in Editors, link'[x] = "up", ~ page'[x].thrown
      PROVE  Follows(page'[x], coming'[x], modules, joins, strays[x])
  BY <1>3, <1>7 DEF FollowInv
<1>. QED
  BY <1>2, <1>5, <1>6, <1>7 DEF FollowInv

LEMMA InitFollows == Init => FollowInv
<1>. SUFFICES ASSUME Init PROVE FollowInv
  OBVIOUS
<1>. USE NodeEditorAssumption, EditorSyncAssumption
<1>. DEFINE pg == [Blank EXCEPT !.nodes = StartModules]
            new == CHOOSE f \in Placements(Blank, StartPaths) : TRUE
<1>1. /\ pg \in Page /\ pg.nodes = StartModules /\ pg.paths = Blank.paths
      /\ pg.sent = <<>> /\ \A i \in Slots : pg.paths[i] = NoPath
  <2>1. Blank \in Page
    BY DEF Blank, Page, NoPath, Path, Undefined
  <2>2. Blank.sent = <<>> /\ \A i \in Slots : Blank.paths[i] = NoPath
    BY DEF Blank
  <2>. QED
    BY <2>1, <2>2 DEF Page
<1>2. StartPaths \in SUBSET GoodJoin
  BY DEF GoodJoin
<1>3. new \in Placements(Blank, StartPaths)
  OBVIOUS
<1>4. Showing = AddPaths(pg, new)
  BY DEF Showing
<1>. HIDE DEF pg, new
<1>5. new \in Placements(pg, StartPaths)
  BY <1>1, <1>3 DEF Placements, Free, Drawn
<1>6. /\ Showing.nodes = StartModules /\ Showing.sent = <<>>
      /\ DOMAIN new \subseteq Free(pg) /\ \A i \in DOMAIN new : new[i] \in StartPaths
      /\ \A i \in Slots : Showing.paths[i] = IF i \in DOMAIN new THEN new[i] ELSE pg.paths[i]
  BY <1>1, <1>2, <1>4, <1>5, AddPathsFields
<1>7. \A j \in StartPaths : \E i \in DOMAIN new : new[i] = j
  BY <1>5 DEF Placements, Bijection, Surjection
<1>8. SerializePaths(Showing) = StartPaths
  <2>1. NoPath \notin Join /\ DOMAIN new \subseteq Slots
    BY <1>6 DEF Join, NoPath, Free
  <2>2. StartPaths \subseteq Join
    OBVIOUS
  <2>3. \A i \in Slots : Showing.paths[i] \in StartPaths \/ Showing.paths[i] = NoPath
    BY <1>1, <1>6
  <2>4. \A j \in StartPaths : \E i \in Slots : Showing.paths[i] = j
    BY <1>6, <1>7, <2>1
  <2>. QED
    BY ONLY <2>1, <2>2, <2>3, <2>4 DEF SerializePaths
<1>9. \A j \in StartPaths : \A x \in Owners(j) : x \in Ids /\ StartModules[x] # Away
  BY DEF Owners, Ends, Join
<1>10. \A x \in Ids : ~ Mentions(<<>>, x) /\ ~ Removes(<<>>, x)
  BY DEF Mentions, Removes
<1>11. Follows(Showing, <<>>, StartModules, StartPaths, {})
  <2>1. NodesTold(<<>>, StartModules)
    BY <1>10 DEF NodesTold
  <2>2. NodesFollow(Showing, <<>>, StartModules, {})
    BY <1>6 DEF NodesFollow, Shows
  <2>3. ListTold(<<>>, StartPaths) /\ EndsRestored(<<>>, StartPaths)
    BY DEF ListTold, EndsRestored
  <2>4. EndsFollow(Showing, <<>>, StartPaths)
    BY <1>6, <1>9 DEF EndsFollow, Shown
  <2>5. PathsHeard(Showing, <<>>, StartPaths, {})
    BY <1>8 DEF PathsHeard
  <2>. QED
    BY <2>1, <2>2, <2>3, <2>4, <2>5 DEF Follows
<1>12. \A e \in Editors : page[e].sent = <<>>
  BY <1>6 DEF Init, Blank
<1>13. \A e \in Editors, x \in Sockets : ~ Removes(page[e].sent, x)
  BY <1>10, <1>12
<1>14. ASSUME NEW e \in Editors, link[e] = "up"
       PROVE  Follows(page[e], coming[e], modules, joins, strays[e])
  <2>1. page[e] = Showing /\ coming[e] = <<>> /\ modules = StartModules /\ joins = StartPaths
        /\ strays[e] = {}
    BY <1>14 DEF Init
  <2>. QED
    BY <1>11, <2>1
<1>. QED
  BY <1>9, <1>13, <1>14 DEF Init, FollowInv

LEMMA StepFollows == Inv /\ FollowInv /\ [Next]_vars => FollowInv'
<1>1. ASSUME FollowInv, UNCHANGED vars PROVE FollowInv'
  BY <1>1 DEF FollowInv, vars, server
<1>. QED
  BY <1>1, UserFollows, ServeFollows, ReceiveFollows, ConnectFollows, LoseFollows DEF Next

(* A page whose messages are answered and handled, and no handler of which    *)
(* threw, shows the modules and the paths the server has.                     *)
LEMMA SettledAgrees == FollowInv => Agreement
<1>. SUFFICES ASSUME FollowInv, NEW e \in Editors, Settled(e), ~ page[e].thrown
              PROVE  Agrees(e)
  BY DEF Agreement
<1>. DEFINE pg == page[e]
<1>1. /\ Follows(pg, <<>>, modules, joins, strays[e]) /\ pg.sent = <<>>
  BY DEF FollowInv, Settled
<1>2. /\ \A x : ~ Mentions(<<>>, x) /\ ~ Removes(<<>>, x)
      /\ \A x, place : ~ LastSaid(<<>>, x, place)
      /\ ~ Listed(<<>>) /\ Placed(<<>>) = {}
  BY DEF Mentions, Removes, LastSaid, Listed, Placed
<1>. HIDE DEF pg
<1>3. \A x \in Ids : Shows(pg, x, modules[x]) \/ (modules[x] = Away /\ x \in strays[e])
  BY <1>1, <1>2 DEF Follows, NodesFollow
<1>4. ~ PathsSaid(pg, <<>>, modules, joins, strays[e])
  BY <1>1 DEF PathsSaid
<1>5. /\ \A j \in SerializePaths(pg) \ joins : \E x \in Owners(j) : x \in strays[e]
      /\ joins \subseteq SerializePaths(pg)
  BY <1>1, <1>2, <1>4 DEF Follows, PathsHeard
<1>. QED
  BY <1>3, <1>5 DEF Agrees, Shows, Shown, Owners, pg

(* However many pages edit the graph at once, whatever messages cross and     *)
(* connections break: a page that has heard all and has been heard, and no    *)
(* handler of which threw, shows what the server has, but for modules that    *)
(* were gone when it was connected again (index.html:79-139,                  *)
(* node_editor.js:177-390).                                                   *)
THEOREM AgreementHolds == Spec => []Agreement
BY InvAlways, InitFollows, StepFollows, SettledAgrees, PTL DEF Spec
=============================================================================
