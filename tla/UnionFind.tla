------------------------------ MODULE UnionFind ------------------------------
(***************************************************************************)
(* Disjoint sets with path compression and union by rank.                  *)
(***************************************************************************)
EXTENDS Items

VARIABLES parent, rank

Forest == [parent |-> parent, rank |-> rank]

\* The nodes that find(n) walks over: whatever contains n and its parents contains them.
Path(p, n) ==
  LET upward == {S \in SUBSET Node : n \in S /\ \A k \in S : p[k] \in S}
  IN  {m \in Node : \A S \in upward : m \in S}

Root(p, n) == CHOOSE r \in Path(p, n) : p[r] = r

\* find() points the nodes of the path to the root.
Compress(p, x) ==
  LET path == Path(p, x)
      root == Root(p, x)
  IN  [n \in Node |-> IF n \in path THEN root ELSE p[n]]

\* union-by-rank of two different roots.
Link(s, rx, ry) ==
  IF s.rank[rx] < s.rank[ry] THEN [s EXCEPT !.parent[rx] = ry]
  ELSE IF s.rank[rx] > s.rank[ry] THEN [s EXCEPT !.parent[ry] = rx]
  ELSE [s EXCEPT !.parent[ry] = rx, !.rank[rx] = @ + 1]

Union(s, x, y) ==
  LET found == Compress(Compress(s.parent, x), y)
      rx == Root(found, x)
      ry == Root(found, y)
  IN  IF rx = ry THEN [s EXCEPT !.parent = found]
                 ELSE Link([s EXCEPT !.parent = found], rx, ry)

-----------------------------------------------------------------------------
(* Properties.                                                             *)

\* find() ends, and at one root, although unions and compressions change the parents.
FindEnds ==
  \A n \in Node : \E r \in Path(parent, n) :
    parent[r] = r /\ \A s \in Path(parent, n) : parent[s] = s => s = r
=============================================================================
