---------------------------- MODULE GraphHistory ----------------------------
(* FlowGraph with a history of what was asked of it: whether a list with two  *)
(* paths on one port has ever been wanted.                                    *)
EXTENDS FlowGraph

(* The editor's rule (node_editor.js, Port): a port has one path at most. *)
Ends(j) == {j.from, j.to}
Matching(R) == \A i, j \in R : i # j => Ends(i) \cap Ends(j) = {}

(* history: a list with two paths on one port has been asked for *)
VARIABLE shared
HistoryInit == Init /\ shared = FALSE
HistoryNext == Next /\ shared' = (shared \/ ~Matching(wanted'))
HistorySpec == HistoryInit /\ [][HistoryNext]_<<vars, shared>>

(* Until two paths have been asked for on one port, which no page does that
   never put one over another, a listed path is one packets can take: its two
   ports point at each other (ModuleManager.cpp:385, Port.hpp). *)
PathsWiredUnlessShared ==
  ~shared => PathsWired
=============================================================================
