------------------------------ MODULE Segmenter ------------------------------
(***************************************************************************)
(* segment(): the partition of a graph of configuration items into the     *)
(* segments of a migration, and the order of the segments.  Items joined   *)
(* by a strong edge share a segment (UnionFind); segments whose ordering   *)
(* edges form a cycle (StrongComponents) are merged; the rest is put into  *)
(* waves (WaveOrder).                                                      *)
(*                                                                         *)
(* Init ranges over the graphs.  Edges of the type "triggers" and edges to *)
(* items outside of the graph influence neither segments nor waves and are *)
(* left out, and so are labels, weights, hashes, samples and diagnostics.  *)
(***************************************************************************)
EXTENDS UnionFind, StrongComponents, WaveOrder

CONSTANT StrongPair   \* the strong edges to choose from

ASSUME SegmenterAssumption ==
  /\ Edge \subseteq Node \X Node
  /\ StrongPair \subseteq Node \X Node

VARIABLES
  strong,      \* input: the strong edges
  ordering,    \* input: the ordering edges, <<source, target>>
  left,        \* pairs of items that are still to be united
  passes,      \* merge passes that have found a cycle
  phase        \* "unite", "components", "waves"

inputVars == <<strong, ordering>>
forestVars == <<parent, rank>>
vars == <<inputVars, left, forestVars, passes, phase, graph, sccVars, waveVars>>

TypeOK ==
  /\ strong \subseteq StrongPair /\ ordering \subseteq Edge
  /\ left \subseteq Node \X Node
  /\ parent \in [Node -> Node] /\ rank \in [Node -> Nat]
  /\ passes \in Nat
  /\ phase \in {"unite", "components", "waves"}
  /\ GraphTypeOK /\ SccTypeOK /\ WaveTypeOK

NoGraph == [nodes |-> {}, edges |-> {}, pre |-> [e \in Edge |-> e[1]], dep |-> [e \in Edge |-> e[2]]]

Init ==
  /\ strong \in SUBSET StrongPair /\ ordering \in SUBSET Edge
  /\ left = strong
  /\ parent = [n \in Node |-> n] /\ rank = [n \in Node |-> 0]
  /\ passes = 0 /\ phase = "unite"
  /\ graph = NoGraph
  /\ index = 0 /\ onStack = {} /\ calls = {} /\ todo = {} /\ sccs = {}
  /\ num = [n \in Node |-> -1] /\ low = [n \in Node |-> -1]
  /\ inDegree = [n \in Node |-> 0]
  /\ currentWave = {} /\ nextWave = {} /\ wave = 0
  /\ order = [n \in Node |-> -1] /\ waves = "idle"

-----------------------------------------------------------------------------
(* The unions, first of the strong edges, then of the cycles.              *)

Unite(e) ==
  /\ phase = "unite" /\ e \in left
  /\ LET s == Union(Forest, e[1], e[2]) IN parent' = s.parent /\ rank' = s.rank
  /\ left' = left \ {e}
  /\ UNCHANGED <<inputVars, passes, phase, graph, sccVars, waveVars>>

-----------------------------------------------------------------------------
(* The merge loop of buildSegments().                                      *)

\* Mutant: what depends on an item is migrated before it.
PrerequisiteIsSource(e) == e[1]

\* getOrderingDirection(): the target of an edge is the prerequisite, for all types.
Prerequisite(e) == e[2]
Dependent(e) == IF Prerequisite(e) = e[1] THEN e[2] ELSE e[1]

\* Mutant: the edges are not lifted from items to segments.
GraphOfItems(roots) ==
  [nodes |-> {roots[n] : n \in Node},
   edges |-> {e \in ordering : roots[e[1]] # roots[e[2]]},
   pre |-> [e \in Edge |-> Prerequisite(e)],
   dep |-> [e \in Edge |-> Dependent(e)]]

SegmentGraph(roots) ==
  [nodes |-> {roots[n] : n \in Node},
   edges |-> {e \in ordering : roots[e[1]] # roots[e[2]]},
   pre |-> [e \in Edge |-> roots[Prerequisite(e)]],
   dep |-> [e \in Edge |-> roots[Dependent(e)]]]

\* The loop finds every node's root first, which compresses all paths.
BuildGraph ==
  /\ phase = "unite" /\ left = {} /\ phase' = "components"
  /\ LET roots == [n \in Node |-> Root(parent, n)]
     IN  parent' = roots /\ BeginScc(SegmentGraph(roots))
  /\ UNCHANGED <<inputVars, left, rank, passes, waveVars>>

SearchStep ==
  /\ phase = "components" /\ SccNext
  /\ UNCHANGED <<inputVars, left, forestVars, passes, phase, waveVars>>

Cycles == {C \in sccs : Cardinality(C) > 1}

Least(S) == CHOOSE n \in S : \A m \in S : n <= m
Greatest(S) == CHOOSE n \in S : \A m \in S : m <= n

\* Mutant: the last segment of a cycle is forgotten.
AllButLastOf(C) == {<<Least(C), n>> : n \in C \ {Least(C), Greatest(C)}}

\* The first segment of a cycle is united with each of the others.
PairsOf(C) == {<<Least(C), n>> : n \in C \ {Least(C)}}

MergeCycles ==
  /\ phase = "components" /\ SccDone /\ Cycles # {}
  /\ left' = UNION {PairsOf(C) : C \in Cycles}
  /\ passes' = passes + 1
  /\ EndScc /\ phase' = "unite"
  /\ UNCHANGED <<inputVars, forestVars, graph, waveVars>>

-----------------------------------------------------------------------------
(* assignWaves(), and materializeSegments(): the segments are the          *)
(* components of the forest.                                               *)

NoCycles ==
  /\ phase = "components" /\ SccDone /\ Cycles = {}
  /\ EndScc /\ BeginWaves /\ phase' = "waves"
  /\ UNCHANGED <<inputVars, left, forestVars, passes>>

WaveStep ==
  /\ phase = "waves" /\ WaveNext
  /\ UNCHANGED <<inputVars, left, forestVars, passes, phase, sccVars>>

SameSegment(x, y) == Root(parent, x) = Root(parent, y)
MigrationOrder(n) == IF order[Root(parent, n)] = -1 THEN 0 ELSE order[Root(parent, n)]

Next ==
  \/ \E e \in left : Unite(e)
  \/ BuildGraph \/ SearchStep \/ MergeCycles \/ NoCycles
  \/ WaveStep

\* segment() is one synchronous computation, and stops.
Ended == waves \in {"done", "threw"} /\ UNCHANGED vars

Spec == Init /\ [][Next \/ Ended]_vars

-----------------------------------------------------------------------------
(* Properties.                                                             *)

\* What may have been migrated when a migration pauses: the prerequisites of everything
\* that has been migrated, and of items joined by a strong edge both or none.
Stages ==
  {S \in SUBSET Node : /\ \A e \in strong : e[1] \in S <=> e[2] \in S
                       /\ \A e \in ordering : e[1] \in S => e[2] \in S}

Inseparable(x, y) == \A S \in Stages : x \in S <=> y \in S

\* The segments are exactly the classes of items that no stage of a migration separates:
\* union-find and Tarjan's algorithm, on graphs of representatives that change from pass to
\* pass, neither split nor join more.
SegmentsAreExact ==
  phase = "waves" => \A x, y \in Node : SameSegment(x, y) <=> Inseparable(x, y)

\* "Run Tarjan SCC exactly once": one merge pass leaves an acyclic graph, so that neither
\* the circuit breaker of the loop nor the error of assignWaves() can occur.
OneMergePass == passes <= 1 /\ waves # "threw"

\* In the end what an item refers to or depends on is in an earlier wave or migrated
\* together with it, although merging goes on after the first roots were chosen.
ReferencedFirst ==
  waves = "done" =>
    \A e \in ordering : \/ SameSegment(e[1], e[2])
                        \/ MigrationOrder(e[2]) < MigrationOrder(e[1])
=============================================================================
