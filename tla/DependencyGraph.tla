--------------------------- MODULE DependencyGraph ---------------------------
(***************************************************************************)
(* The graph that buildSegments() builds of segments, and that tarjanSCC() *)
(* and assignWaves() work on.  An edge leads from a prerequisite to its    *)
(* dependent; edges have an identity, since the adjacency lists repeat a   *)
(* neighbour for every edge of the input.                                  *)
(***************************************************************************)
EXTENDS Items

CONSTANT Edge

ASSUME GraphAssumption == IsFiniteSet(Edge)

VARIABLE graph   \* nodes, edges, and the two ends of an edge

Graphs == [nodes : SUBSET Node, edges : SUBSET Edge, pre : [Edge -> Node], dep : [Edge -> Node]]

EdgesJoinNodes(g) == \A e \in g.edges : g.pre[e] \in g.nodes /\ g.dep[e] \in g.nodes

GraphTypeOK == graph \in Graphs /\ EdgesJoinNodes(graph)

InEdges(g, n) == {e \in g.edges : g.dep[e] = n}
OutEdges(g, n) == {e \in g.edges : g.pre[e] = n}

\* Sets that contain whatever depends on their nodes.
Closed(g) == {S \in SUBSET g.nodes : \A e \in g.edges : g.pre[e] \in S => g.dep[e] \in S}

\* y can be reached from x.
Reach(g, x, y) == \A S \in Closed(g) : x \in S => y \in S

InOneCycle(g, x, y) == Reach(g, x, y) /\ Reach(g, y, x)
=============================================================================
