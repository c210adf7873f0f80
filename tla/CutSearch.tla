------------------------------ MODULE CutSearch ------------------------------
(***************************************************************************)
(* findArticulationHints(): the nodes whose removal would split a segment, *)
(* by a depth-first search over the strong edges between its members.      *)
(* Frames are pushed in the order of disc, so that the array `stack` is a  *)
(* set whose last element has the greatest disc.  The neighbours of a node *)
(* are tried in any order, that of the input.  A frame counts its          *)
(* children; here they are the nodes that were reached from it.            *)
(***************************************************************************)
EXTENDS Items

VARIABLES
  members,   \* the segment
  adj,       \* adjacency, as pairs in both directions
  timer,
  disc,      \* -1 for a node that has not been reached
  lowDisc,   \* low
  from,      \* parent; the node itself for the root of a search
  frames,    \* the nodes on the stack
  untried,   \* entries of the adjacency lists that are still to be tried
  cut        \* articulationSet

cutVars == <<members, adj, timer, disc, lowDisc, from, frames, untried, cut>>

CutTypeOK ==
  /\ members \subseteq Node /\ adj \subseteq members \X members
  /\ timer \in Nat
  /\ disc \in [Node -> Nat \cup {-1}] /\ lowDisc \in [Node -> Nat \cup {-1}]
  /\ from \in [Node -> Node]
  /\ frames \subseteq members /\ untried \subseteq adj /\ cut \subseteq members

-----------------------------------------------------------------------------
\* The lists have an entry for each end of an edge, and none for a self-loop.
Adjacency(S, edges) ==
  {p \in S \X S : p[1] # p[2] /\ (p \in edges \/ <<p[2], p[1]>> \in edges)}

BeginCut(S, edges) ==
  /\ members' = S /\ adj' = Adjacency(S, edges) /\ untried' = Adjacency(S, edges)
  /\ timer' = 0 /\ frames' = {} /\ cut' = {}
  /\ disc' = [n \in Node |-> -1] /\ lowDisc' = [n \in Node |-> -1]
  /\ from' = [n \in Node |-> n]

Idle == members = {}
EndCut == BeginCut({}, {})

Last(F, n) == n \in F /\ \A f \in F : disc[f] <= disc[n]

Discover(n, p) ==
  /\ disc' = [disc EXCEPT ![n] = timer] /\ lowDisc' = [lowDisc EXCEPT ![n] = timer]
  /\ timer' = timer + 1
  /\ from' = [from EXCEPT ![n] = p]
  /\ frames' = frames \cup {n}

\* The loop over the sorted members.
StartAt(n) ==
  /\ frames = {} /\ n \in members /\ disc[n] = -1
  /\ \A m \in members : disc[m] = -1 => n <= m
  /\ Discover(n, n)
  /\ UNCHANGED <<members, adj, untried, cut>>

AdvanceTo(n, m) ==
  /\ <<n, m>> \in untried /\ Last(frames, n) /\ disc[m] = -1
  /\ untried' = untried \ {<<n, m>>}
  /\ Discover(m, n)
  /\ UNCHANGED <<members, adj, cut>>

\* A node that was reached before, other than by this edge.
LookAt(n, m) ==
  /\ <<n, m>> \in untried /\ Last(frames, n) /\ disc[m] # -1
  /\ untried' = untried \ {<<n, m>>}
  /\ lowDisc' = IF m # from[n] THEN [lowDisc EXCEPT ![n] = Smaller(@, disc[m])] ELSE lowDisc
  /\ UNCHANGED <<members, adj, timer, disc, from, frames, cut>>

Finished(n) == Last(frames, n) /\ \A m \in members : <<n, m>> \notin untried

\* Mutant: the root of the search is treated like every other node.
CutsOffAnyRoot(up, n) == lowDisc[n] >= disc[up]

\* A node that is not the root cuts off a child that reaches nothing above it.
CutsOff(up, n) == from[up] # up /\ lowDisc[n] >= disc[up]

Retreat(n, up) ==
  /\ Finished(n) /\ Last(frames \ {n}, up)
  /\ frames' = frames \ {n}
  /\ lowDisc' = [lowDisc EXCEPT ![up] = Smaller(@, lowDisc[n])]
  /\ cut' = cut \cup {m \in {up} : CutsOff(m, n)}
  /\ UNCHANGED <<members, adj, timer, disc, from, untried>>

Children(n) == {m \in members \ {n} : from[m] = n}

\* The root cuts if the search has left it more than once.
LeaveRoot(n) ==
  /\ Finished(n) /\ frames = {n} /\ frames' = {}
  /\ cut' = cut \cup {m \in {n} : Cardinality(Children(m)) > 1}
  /\ UNCHANGED <<members, adj, timer, disc, lowDisc, from, untried>>

CutDone == frames = {} /\ \A n \in members : disc[n] # -1

CutNext ==
  \/ \E n \in Node : StartAt(n) \/ LeaveRoot(n)
  \/ \E n, m \in Node : AdvanceTo(n, m) \/ LookAt(n, m) \/ Retreat(n, m)

-----------------------------------------------------------------------------
(* Properties.                                                             *)

\* Edges inside of S hold x and y together.
Together(edges, S, x, y) ==
  \A U \in SUBSET S :
    (\A e \in edges : {e[1], e[2]} \subseteq S => (e[1] \in U <=> e[2] \in U)) => (x \in U <=> y \in U)

\* Without n some of the others in S are no longer together.
Splits(edges, S, n) ==
  \E x, y \in S \ {n} : Together(edges, S, x, y) /\ ~Together(edges, S \ {n}, x, y)

\* The search finds the nodes whose removal would split the segment, and no others: low, taken
\* from nodes that may not have been finished, and the count of the root's children suffice.
CutsAreExact == CutDone => cut = {n \in members : Splits(adj, members, n)}
=============================================================================
