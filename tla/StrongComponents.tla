-------------------------- MODULE StrongComponents --------------------------
(***************************************************************************)
(* tarjanSCC(): the strongly connected components of the graph, with the   *)
(* calls of strongConnect() as steps.  Nodes are pushed on the stack, and  *)
(* calls are nested, in the order of their index: the array `stack` and    *)
(* the calls under way are sets, whose last element is the one with the    *)
(* greatest index.  The edges of a node are followed in any order, that of *)
(* the input.                                                              *)
(***************************************************************************)
EXTENDS DependencyGraph

VARIABLES
  index,     \* the next index
  num,       \* nodeIndex, -1 for a node without
  low,       \* lowLink
  onStack,
  calls,     \* nodes whose strongConnect() is under way
  todo,      \* edges that are still to be followed
  sccs       \* the components found so far

sccVars == <<index, num, low, onStack, calls, todo, sccs>>

SccTypeOK ==
  /\ index \in Nat
  /\ num \in [Node -> Nat \cup {-1}] /\ low \in [Node -> Nat \cup {-1}]
  /\ onStack \subseteq graph.nodes /\ calls \subseteq onStack
  /\ todo \subseteq graph.edges
  /\ sccs \subseteq SUBSET graph.nodes

-----------------------------------------------------------------------------
\* The variables of tarjanSCC() live as long as its call.
SccLocals(edges) ==
  /\ index' = 0 /\ onStack' = {} /\ calls' = {} /\ sccs' = {}
  /\ num' = [n \in Node |-> -1] /\ low' = [n \in Node |-> -1]
  /\ todo' = edges

BeginScc(g) == graph' = g /\ SccLocals(g.edges)
EndScc == SccLocals({})

IsTop(v) == v \in calls /\ \A u \in calls : num[u] <= num[v]

Enter(w) ==
  /\ num' = [num EXCEPT ![w] = index] /\ low' = [low EXCEPT ![w] = index]
  /\ index' = index + 1
  /\ onStack' = onStack \cup {w} /\ calls' = calls \cup {w}

\* The loop over the sorted nodes.
Visit(v) ==
  /\ calls = {} /\ v \in graph.nodes /\ num[v] = -1
  /\ \A n \in graph.nodes : num[n] = -1 => v <= n
  /\ Enter(v)
  /\ UNCHANGED <<graph, todo, sccs>>

FollowToNew(e) ==
  /\ e \in todo /\ IsTop(graph.pre[e]) /\ num[graph.dep[e]] = -1
  /\ todo' = todo \ {e}
  /\ Enter(graph.dep[e])
  /\ UNCHANGED <<graph, sccs>>

\* Mutant: a node that belongs to a finished component lowers the link, too.
FollowToAny(e) ==
  LET v == graph.pre[e]
      w == graph.dep[e]
  IN  /\ e \in todo /\ IsTop(v) /\ num[w] # -1
      /\ todo' = todo \ {e}
      /\ low' = [low EXCEPT ![v] = Smaller(@, num[w])]
      /\ UNCHANGED <<graph, index, num, onStack, calls, sccs>>

\* A node that was seen before lowers the link if it is on the stack.
FollowToSeen(e) ==
  LET v == graph.pre[e]
      w == graph.dep[e]
  IN  /\ e \in todo /\ IsTop(v) /\ num[w] # -1
      /\ todo' = todo \ {e}
      /\ low' = IF w \in onStack THEN [low EXCEPT ![v] = Smaller(@, num[w])] ELSE low
      /\ UNCHANGED <<graph, index, num, onStack, calls, sccs>>

\* Everything down to v is popped.
Component(v) == {u \in onStack : num[u] >= num[v]}

\* The end of strongConnect(v), and the min() of its caller.
Return(v) ==
  /\ IsTop(v) /\ todo \cap OutEdges(graph, v) = {}
  /\ calls' = calls \ {v}
  /\ low' = [u \in Node |-> IF u \in calls' /\ \A c \in calls' : num[c] <= num[u]
                              THEN Smaller(low[u], low[v]) ELSE low[u]]
  /\ \/ /\ low[v] = num[v]
        /\ onStack' = onStack \ Component(v)
        /\ sccs' = sccs \cup {Component(v)}
     \/ /\ low[v] # num[v]
        /\ UNCHANGED <<onStack, sccs>>
  /\ UNCHANGED <<graph, index, num, todo>>

SccDone == calls = {} /\ \A n \in graph.nodes : num[n] # -1

SccNext ==
  \/ \E v \in Node : Visit(v) \/ Return(v)
  \/ \E e \in Edge : FollowToNew(e) \/ FollowToSeen(e)

-----------------------------------------------------------------------------
(* Properties.                                                             *)

\* What has been popped are whole components and nothing else: low links tell them apart
\* although they are taken from an unfinished search.
ComponentsAreExact ==
  \A C \in sccs : C # {} /\ \A x \in C, y \in graph.nodes : y \in C <=> InOneCycle(graph, x, y)
=============================================================================
