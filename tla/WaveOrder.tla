------------------------------ MODULE WaveOrder ------------------------------
(***************************************************************************)
(* assignWaves(): Kahn's algorithm on the graph of segments.  The order    *)
(* within a wave is open: it is the order of the ids.                      *)
(*                                                                         *)
(* Segmenter uses the steps of this module as its last phase.              *)
(***************************************************************************)
EXTENDS DependencyGraph

VARIABLES
  inDegree,    \* edges to a node from nodes that have no wave yet
  currentWave, \* nodes of the present wave that are still to be processed
  nextWave,    \* nodes that became ready in the present wave
  wave,        \* number of the present wave
  order,       \* waveAssignment, -1 for a node without
  waves        \* "idle", "running", "done", or "threw"

waveVars == <<inDegree, currentWave, nextWave, wave, order, waves>>

WaveTypeOK ==
  /\ inDegree \in [Node -> Nat]
  /\ currentWave \subseteq graph.nodes /\ nextWave \subseteq graph.nodes
  /\ wave \in Nat
  /\ order \in [Node -> Nat \cup {-1}]
  /\ waves \in {"idle", "running", "done", "threw"}

-----------------------------------------------------------------------------
Between(n, m) == {e \in graph.edges : graph.pre[e] = n /\ graph.dep[e] = m}

\* The in-degrees, and the first wave.
BeginWaves ==
  /\ inDegree' = [n \in Node |-> Cardinality(InEdges(graph, n))]
  /\ currentWave' = {n \in graph.nodes : InEdges(graph, n) = {}}
  /\ nextWave' = {} /\ wave' = 0
  /\ order' = [n \in Node |-> -1] /\ waves' = "running"
  /\ UNCHANGED graph

\* Mutant: a dependent is ready when its first prerequisite is.
ReadyEarly(n) == {m \in graph.nodes : Between(n, m) # {}}

\* The dependents of n whose in-degree becomes 0.
Ready(n) == {m \in graph.nodes : /\ Between(n, m) # {}
                               /\ inDegree[m] = Cardinality(Between(n, m))}

\* Mutant: the wave is counted up with every node.
ProcessNodeCounting(n) ==
  /\ waves = "running" /\ n \in currentWave
  /\ order' = [order EXCEPT ![n] = wave]
  /\ inDegree' = [m \in Node |-> inDegree[m] - Cardinality(Between(n, m))]
  /\ nextWave' = nextWave \cup Ready(n)
  /\ currentWave' = currentWave \ {n}
  /\ wave' = wave + 1
  /\ UNCHANGED <<graph, waves>>

ProcessNode(n) ==
  /\ waves = "running" /\ n \in currentWave
  /\ order' = [order EXCEPT ![n] = wave]
  /\ inDegree' = [m \in Node |-> inDegree[m] - Cardinality(Between(n, m))]
  /\ nextWave' = nextWave \cup Ready(n)
  /\ currentWave' = currentWave \ {n}
  /\ UNCHANGED <<graph, wave, waves>>

NextWave ==
  /\ waves = "running" /\ currentWave = {} /\ nextWave # {}
  /\ currentWave' = nextWave /\ nextWave' = {} /\ wave' = wave + 1
  /\ UNCHANGED <<graph, inDegree, order, waves>>

Assigned == {n \in graph.nodes : order[n] # -1}

\* Nodes that are left over are taken for a cycle.
FinishWaves ==
  /\ waves = "running" /\ currentWave = {} /\ nextWave = {}
  /\ waves' = IF Assigned = graph.nodes THEN "done" ELSE "threw"
  /\ UNCHANGED <<graph, inDegree, currentWave, nextWave, wave, order>>

\* The algorithm on any graph, with cycles or without.
WaveInit ==
  /\ GraphTypeOK
  /\ inDegree = [n \in Node |-> Cardinality(InEdges(graph, n))]
  /\ currentWave = {n \in graph.nodes : InEdges(graph, n) = {}}
  /\ nextWave = {} /\ wave = 0
  /\ order = [n \in Node |-> -1] /\ waves = "running"

WaveNext == (\E n \in Node : ProcessNode(n)) \/ NextWave \/ FinishWaves

WaveSpec == WaveInit /\ [][WaveNext]_<<graph, waveVars>>

-----------------------------------------------------------------------------
(* Properties.                                                             *)

\* A segment has a wave only after all its prerequisites, and a later one (S5), although
\* the waves of different prerequisites are decremented one by one and edges are repeated.
WavesRespectEdges ==
  \A e \in graph.edges : order[graph.dep[e]] # -1 =>
    order[graph.pre[e]] # -1 /\ order[graph.pre[e]] < order[graph.dep[e]]

\* No segment waits longer than it must: it follows a prerequisite of the wave before.
WavesAreEarliest ==
  \A n \in graph.nodes : order[n] > 0 =>
    \E e \in graph.edges : graph.dep[e] = n /\ order[graph.pre[e]] = order[n] - 1

\* The error of a cycle is no false alarm: every node that is left over waits for another
\* one that is left over.
ThrowsOnlyForCycles ==
  waves = "threw" =>
    /\ graph.nodes \ Assigned # {}
    /\ \A n \in graph.nodes \ Assigned :
         \E e \in graph.edges : graph.dep[e] = n /\ graph.pre[e] \notin Assigned
=============================================================================
