---------------------------- MODULE MCFlowGraph ----------------------------
(* FlowGraph with the two sockets of main and one more id, which may be a     *)
(* queue or a rate module: paths to it, past it and from it, which compete    *)
(* for the ports of the sockets.                                              *)
EXTENDS GraphHistory, TLC

CONSTANTS src, snk, q, o1, o2, o3, o4, raw, queue, rate, in, out, size, bitrate

MCKind ==
  (raw   :> (in :> "receiving"  @@ out :> "sending")) @@
  (queue :> (in :> "receiving"  @@ out :> "responding")) @@
  (rate  :> (in :> "requesting" @@ out :> "sending"))

MCParams == (raw :> {}) @@ (queue :> {size}) @@ (rate :> {bitrate})

Edge(a, ap, b, bp) == [from |-> <<a, ap>>, to |-> <<b, bp>>]

Ingress  == Edge(src, out, q, in)
Egress   == Edge(q, out, snk, in)     \* made if q is a rate module
Bypass   == Edge(src, out, snk, in)   \* shares a port with Ingress and with Egress
Backward == Edge(q, in, src, out)     \* Ingress, named from its other end
Mismatch == Edge(src, out, q, out)    \* sending to responding: refused

EditorPaths == {R \in SUBSET {Ingress, Egress, Bypass} : Matching(R)}
AnyPaths == EditorPaths \cup
  {{Ingress, Bypass}, {Ingress, Backward}, {Bypass, Backward}, {Ingress, Mismatch}}

Doc(types, joins) ==
  [modules |-> [id \in Ids |-> IF id \in DOMAIN types THEN types[id] ELSE NoType],
   paths |-> joins]

ends == src :> raw @@ snk :> raw

(* Files that name the sockets: one with two paths on one port, one whose id q is
   a rate module; and one that does not name them. *)
Files == { Doc(ends @@ q :> queue, {Ingress, Backward}),
           Doc(ends @@ q :> rate, {Bypass}) }
SocketlessFile == Doc(q :> queue, {Ingress})
AnyFiles == Files \cup {SocketlessFile}

FewPaths == {{}, {Ingress}, {Ingress, Bypass, Mismatch}}

Symmetric == Permutations(Objects)
=============================================================================
