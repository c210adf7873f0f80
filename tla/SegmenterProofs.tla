--------------------------- MODULE SegmenterProofs ---------------------------
(***************************************************************************)
(* Proofs about the segmenter, for every finite graph of items: about the  *)
(* forest of the union-find, about Tarjan's algorithm, the assignment of   *)
(* waves and the search for cut nodes, each on its own, and about          *)
(* segment(), which runs them on graphs that the forest determines.        *)
(***************************************************************************)
EXTENDS SegmentHints, FiniteSetTheorems, WellFoundedInduction, TLAPS

-----------------------------------------------------------------------------
(* Finite sets.                                                            *)

\* Sets of finite sets have minimal elements.
LEMMA MinimalSet ==
  ASSUME NEW S, IsFiniteSet(S), NEW T, T \subseteq SUBSET S, T # {}
  PROVE  \E U \in T : \A V \in T : V \subseteq U => V = U
<1> DEFINE R == StrictSubsetOrdering(S)
<1>1. IsWellFoundedOn(R, SUBSET S)
  BY FS_StrictSubsetOrderingWellFounded, FS_FiniteSubsetsOfFinite
<1>2. PICK U \in T : \A V \in T : <<V, U>> \notin R
  <2> HIDE DEF R
  <2> QED
    BY <1>1, WFMin
<1>3. \A V \in T : V \subseteq U => V = U
  BY <1>2 DEF StrictSubsetOrdering
<1> QED
  BY <1>3

\* A finite set has an element that no element exceeds.
LEMMA GreatestValue ==
  ASSUME NEW S, IsFiniteSet(S), S # {}, NEW f, \A x \in S : f[x] \in Nat
  PROVE  \E x \in S : \A y \in S : f[y] <= f[x]
<1> DEFINE Above(x) == {y \in S : f[y] > f[x]}
           T == {Above(x) : x \in S}
<1>1. T \subseteq SUBSET S /\ T # {}
  OBVIOUS
<1>2. PICK U \in T : \A V \in T : V \subseteq U => V = U
  <2> HIDE DEF T
  <2> QED
    BY <1>1, MinimalSet
<1>3. PICK x \in S : U = Above(x)
  BY <1>2
<1>4. ASSUME NEW y \in S, f[y] > f[x] PROVE FALSE
  <2>1. Above(y) \subseteq Above(x)
    BY <1>4
  <2>2. y \in Above(x) /\ y \notin Above(y)
    BY <1>4
  <2> QED
    BY <2>1, <2>2, <1>2, <1>3
<1>5. \A y \in S : f[y] <= f[x]
  BY <1>4
<1> QED
  BY <1>5

\* ... and one that exceeds no element.
LEMMA LeastValue ==
  ASSUME NEW S, IsFiniteSet(S), S # {}, NEW f, \A x \in S : f[x] \in Nat
  PROVE  \E x \in S : \A y \in S : f[x] <= f[y]
<1> DEFINE Below(x) == {y \in S : f[y] < f[x]}
           T == {Below(x) : x \in S}
<1>1. T \subseteq SUBSET S /\ T # {}
  OBVIOUS
<1>2. PICK U \in T : \A V \in T : V \subseteq U => V = U
  <2> HIDE DEF T
  <2> QED
    BY <1>1, MinimalSet
<1>3. PICK x \in S : U = Below(x)
  BY <1>2
<1>4. ASSUME NEW y \in S, f[y] < f[x] PROVE FALSE
  <2>1. Below(y) \subseteq Below(x)
    BY <1>4
  <2>2. y \in Below(x) /\ y \notin Below(y)
    BY <1>4
  <2> QED
    BY <2>1, <2>2, <1>2, <1>3
<1>5. \A y \in S : f[x] <= f[y]
  BY <1>4
<1> QED
  BY <1>5

-----------------------------------------------------------------------------
(* Ranked lists.                                                           *)

Outranks(size, a, b) == size[a] > size[b] \/ (size[a] = size[b] /\ a < b)

Ahead(C, size, a) == {b \in C : Outranks(size, b, a)}

\* The elements of a finite set C have places, by size and then by id, of which the first K
\* are those of L.
RankedList(C, K, size, p, L) ==
  /\ C \subseteq Nat /\ IsFiniteSet(C) /\ K \in Nat
  /\ size \in [C -> Nat]
  /\ p \in [C -> Nat] /\ \A a \in C : p[a] = Cardinality(Ahead(C, size, a)) + 1
  /\ L \subseteq C /\ \A a \in C : a \in L <=> p[a] <= K

\* As many are on the list as there are, or K, in their order, and none that is left out ranks
\* before them.
LEMMA Ranking ==
  ASSUME NEW C, NEW K, NEW size, NEW p, NEW L, RankedList(C, K, size, p, L)
  PROVE  /\ \A a \in C : p[a] > 0
         /\ \A a, b \in C : p[a] < p[b] <=> Outranks(size, a, b)
         /\ \A a \in L, b \in C \ L : Outranks(size, a, b)
         /\ Cardinality(L) = Smaller(K, Cardinality(C))
<1> DEFINE B(a) == {b \in C : Outranks(size, b, a)}
<1> USE DEF RankedList
<1>0. \A a \in C : Ahead(C, size, a) = B(a)
  BY DEF Ahead
<1>1. \A a \in C : IsFiniteSet(B(a)) /\ Cardinality(B(a)) \in Nat /\ p[a] = Cardinality(B(a)) + 1
  BY <1>0, FS_Subset, FS_CardinalityType
<1>2. \A a \in C : p[a] \in Nat /\ p[a] > 0
  <2> HIDE DEF B
  <2> QED
    BY <1>1
<1>3. /\ \A a \in C : ~Outranks(size, a, a)
      /\ \A a, b \in C : a = b \/ Outranks(size, a, b) \/ Outranks(size, b, a)
      /\ \A a, b, c \in C : Outranks(size, a, b) /\ Outranks(size, b, c) => Outranks(size, a, c)
  <2>1. \A a \in C : a \in Nat /\ size[a] \in Nat
    OBVIOUS
  <2> QED
    BY ONLY <2>1 DEF Outranks
<1>4. ASSUME NEW a \in C, NEW b \in C, Outranks(size, a, b) PROVE p[a] < p[b]
  <2>1. B(a) \cup {a} \subseteq B(b) /\ a \notin B(a)
    BY <1>3, <1>4
  <2>2. Cardinality(B(a) \cup {a}) = Cardinality(B(a)) + 1
    BY <1>1, <2>1, FS_AddElement
  <2>3. Cardinality(B(a) \cup {a}) <= Cardinality(B(b))
    BY <1>1, <2>1, FS_Subset
  <2> HIDE DEF B
  <2> QED
    BY <1>1, <2>2, <2>3
<1>5. \A a, b \in C : p[a] < p[b] <=> Outranks(size, a, b)
  BY <1>2, <1>3, <1>4
<1>6. \A a \in L, b \in C \ L : Outranks(size, a, b)
  BY <1>2, <1>5
<1>7. /\ L \subseteq C /\ IsFiniteSet(L) /\ Cardinality(L) \in Nat
      /\ Cardinality(C) \in Nat /\ Cardinality(L) <= Cardinality(C)
  BY FS_Subset, FS_CardinalityType
<1>8. Cardinality(L) <= K
  <2>1. CASE L = {}
    BY ONLY <2>1, FS_EmptySet, K \in Nat
  <2>2. CASE L # {}
    <3>1. PICK a \in L : \A b \in L : p[b] <= p[a]
      BY <1>2, <1>7, <2>2, GreatestValue
    <3>2. a \in C /\ a \notin B(a) /\ L \subseteq B(a) \cup {a}
      <4>1. ASSUME NEW b \in L, b # a PROVE Outranks(size, b, a)
        <5>1. ~(p[a] < p[b])
          BY <1>2, <3>1
        <5> QED
          BY <1>3, <1>4, <4>1, <5>1
      <4> QED
        BY <1>3, <4>1
    <3>3. IsFiniteSet(B(a) \cup {a}) /\ Cardinality(B(a) \cup {a}) = Cardinality(B(a)) + 1
      BY <1>1, <3>2, FS_AddElement
    <3>4. Cardinality(L) <= Cardinality(B(a) \cup {a})
      BY <3>2, <3>3, FS_Subset
    <3>5. p[a] <= K
      BY <3>1
    <3> HIDE DEF B
    <3> QED
      BY <1>1, <1>7, <3>2, <3>3, <3>4, <3>5
  <2> QED
    BY <2>1, <2>2
<1>9. CASE C \ L = {}
  <2>1. L = C
    BY <1>9
  <2> QED
    BY <1>2, <1>5, <1>6, <1>7, <1>8, <2>1 DEF Smaller
<1>10. CASE C \ L # {}
  <2>1. IsFiniteSet(C \ L)
    BY FS_Subset
  <2>2. PICK l \in C \ L : \A b \in C \ L : p[l] <= p[b]
    BY <1>2, <1>10, <2>1, LeastValue
  <2>3. B(l) \subseteq L
    <3>1. ASSUME NEW b \in C, Outranks(size, b, l) PROVE b \in L
      <4>1. p[b] < p[l]
        BY <1>4, <3>1
      <4> QED
        BY <1>2, <2>2, <4>1
    <3> QED
      BY <3>1
  <2>4. Cardinality(B(l)) <= Cardinality(L)
    BY <1>7, <2>3, FS_Subset
  <2>5. p[l] > K
    BY <1>2, <2>2
  <2> HIDE DEF B
  <2>6. Cardinality(L) = K
    BY <1>1, <1>7, <1>8, <2>2, <2>4, <2>5
  <2> QED
    BY <1>2, <1>5, <1>6, <1>7, <2>6 DEF Smaller
<1> QED
  BY <1>9, <1>10

-----------------------------------------------------------------------------
(* Paths.                                                                  *)

LEMMA PathFacts ==
  ASSUME NEW p \in [Node -> Node], NEW n \in Node
  PROVE  /\ Path(p, n) \subseteq Node /\ n \in Path(p, n)
         /\ \A m \in Path(p, n) : p[m] \in Path(p, n)
BY DEF Path

\* What contains n and the parents of its nodes contains the path of n.
LEMMA PathStays ==
  ASSUME NEW p, NEW S \in SUBSET Node, NEW n \in S, \A k \in S : p[k] \in S
  PROVE  Path(p, n) \subseteq S
BY DEF Path

LEMMA PathOfParent ==
  ASSUME NEW p \in [Node -> Node], NEW n \in Node, NEW m \in Path(p, n)
  PROVE  m = n \/ m \in Path(p, p[n])
<1> DEFINE S == {n} \cup Path(p, p[n])
<1>1. p[n] \in Node
  OBVIOUS
<1>2. S \in SUBSET Node /\ n \in S /\ \A k \in S : p[k] \in S
  BY <1>1, PathFacts
<1> HIDE DEF S
<1>3. Path(p, n) \subseteq S
  BY <1>2, PathStays
<1> QED
  BY <1>3 DEF S

LEMMA PathOfLater ==
  ASSUME NEW p \in [Node -> Node], NEW n \in Node, NEW m \in Path(p, n)
  PROVE  Path(p, m) \subseteq Path(p, n)
BY PathFacts, PathStays

-----------------------------------------------------------------------------
(* Forests.                                                                *)

\* A node is its own parent or has a smaller rank than its parent: nothing is its own
\* ancestor.
IsForest(p, rk) ==
  /\ p \in [Node -> Node] /\ rk \in [Node -> Nat]
  /\ \A n \in Node : p[n] = n \/ rk[n] < rk[p[n]]

LEMMA RootExists ==
  ASSUME NEW p, NEW rk, IsForest(p, rk), NEW n \in Node
  PROVE  \E r \in Path(p, n) : p[r] = r
<1>1. /\ p \in [Node -> Node] /\ rk \in [Node -> Nat]
      /\ \A m \in Node : p[m] = m \/ rk[m] < rk[p[m]]
  BY DEF IsForest
<1>2. Path(p, n) \subseteq Node /\ n \in Path(p, n) /\ \A m \in Path(p, n) : p[m] \in Path(p, n)
  BY <1>1, PathFacts
<1>3. IsFiniteSet(Path(p, n))
  BY <1>2, ItemsAssumption, FS_Subset
<1>4. PICK r \in Path(p, n) : \A m \in Path(p, n) : rk[m] <= rk[r]
  BY <1>1, <1>2, <1>3, GreatestValue
<1>5. p[r] \in Path(p, n) /\ r \in Node /\ p[r] \in Node
  BY <1>2
<1>6. p[r] = r
  BY <1>1, <1>4, <1>5
<1> QED
  BY <1>6

LEMMA RootIsUnique ==
  ASSUME NEW p, NEW rk, IsForest(p, rk), NEW n \in Node,
         NEW r \in Path(p, n), p[r] = r, NEW s \in Path(p, n), p[s] = s
  PROVE  r = s
<1>1. /\ p \in [Node -> Node] /\ rk \in [Node -> Nat]
      /\ \A m \in Node : p[m] = m \/ rk[m] < rk[p[m]]
  BY DEF IsForest
<1> DEFINE Bad == {m \in Node : r \in Path(p, m) /\ s \in Path(p, m)}
<1>2. SUFFICES ASSUME r # s PROVE FALSE
  OBVIOUS
<1>3. IsFiniteSet(Bad) /\ n \in Bad
  BY ItemsAssumption, FS_Subset
<1>4. PICK m \in Bad : \A k \in Bad : rk[k] <= rk[m]
  <2>1. \A k \in Bad : rk[k] \in Nat
    BY <1>1
  <2> HIDE DEF Bad
  <2> QED
    BY <1>3, <2>1, GreatestValue
<1>5. CASE p[m] = m
  <2>1. {m} \in SUBSET Node /\ \A k \in {m} : p[k] \in {m}
    BY <1>5
  <2>2. Path(p, m) \subseteq {m}
    BY <2>1, PathStays
  <2> QED
    BY <1>2, <2>2
<1>6. CASE p[m] # m
  <2>1. p[m] \in Node
    BY <1>1
  <2>2. r # m /\ s # m
    BY <1>6
  <2>3. p[m] \in Bad
    BY <1>1, <2>1, <2>2, PathOfParent
  <2> QED
    BY <1>1, <1>4, <1>6, <2>1, <2>3
<1> QED
  BY <1>5, <1>6

\* find() ends, at the only root of the path.
LEMMA RootFacts ==
  ASSUME NEW p, NEW rk, IsForest(p, rk), NEW n \in Node
  PROVE  /\ Root(p, n) \in Path(p, n) /\ p[Root(p, n)] = Root(p, n)
         /\ Root(p, n) \in Node
         /\ \A r \in Path(p, n) : p[r] = r => r = Root(p, n)
<1>1. Root(p, n) \in Path(p, n) /\ p[Root(p, n)] = Root(p, n)
  BY RootExists DEF Root
<1>2. Root(p, n) \in Node
  BY <1>1 DEF Path
<1>3. ASSUME NEW r \in Path(p, n), p[r] = r PROVE r = Root(p, n)
  <2> DEFINE s == Root(p, n)
  <2>1. s \in Path(p, n) /\ p[s] = s
    BY <1>1
  <2> HIDE DEF s
  <2>2. r = s
    BY <1>3, <2>1, RootIsUnique
  <2> QED
    BY <2>2 DEF s
<1> QED
  BY <1>1, <1>2, <1>3

LEMMA RootOfPath ==
  ASSUME NEW p, NEW rk, IsForest(p, rk), NEW n \in Node, NEW m \in Path(p, n)
  PROVE  Root(p, m) = Root(p, n)
<1>1. p \in [Node -> Node]
  BY DEF IsForest
<1>2. m \in Node /\ Path(p, m) \subseteq Path(p, n)
  BY <1>1, PathOfLater, PathFacts
<1>3. Root(p, m) \in Path(p, m) /\ p[Root(p, m)] = Root(p, m)
  BY <1>2, RootFacts
<1> QED
  BY <1>2, <1>3, RootFacts

LEMMA RootOfParent ==
  ASSUME NEW p, NEW rk, IsForest(p, rk), NEW n \in Node
  PROVE  Root(p, p[n]) = Root(p, n)
<1>1. p \in [Node -> Node]
  BY DEF IsForest
<1>2. p[n] \in Path(p, n)
  BY <1>1, PathFacts
<1> QED
  BY <1>2, RootOfPath

LEMMA RootOfRoot ==
  ASSUME NEW p, NEW rk, IsForest(p, rk), NEW n \in Node, p[n] = n
  PROVE  Root(p, n) = n
<1>1. p \in [Node -> Node]
  BY DEF IsForest
<1>2. n \in Path(p, n)
  BY <1>1, PathFacts
<1> QED
  BY <1>2, RootFacts

\* What no parent changes no root changes.
LEMMA RootKeeps ==
  ASSUME NEW p, NEW rk, IsForest(p, rk), NEW f, \A k \in Node : f[p[k]] = f[k], NEW n \in Node
  PROVE  f[Root(p, n)] = f[n]
<1> DEFINE S == {k \in Node : f[k] = f[n]}
<1>1. S \in SUBSET Node /\ n \in S /\ \A k \in S : p[k] \in S
  BY DEF IsForest
<1> HIDE DEF S
<1>2. Path(p, n) \subseteq S
  BY <1>1, PathStays
<1>3. Root(p, n) \in S
  BY <1>2, RootFacts
<1> QED
  BY <1>3 DEF S

\* Below its root every node has a smaller rank.
LEMMA RankBelowRoot ==
  ASSUME NEW p, NEW rk, IsForest(p, rk), NEW n \in Node, n # Root(p, n)
  PROVE  rk[n] < rk[Root(p, n)]
<1> DEFINE S == {k \in Node : k = n \/ rk[n] < rk[k]}
<1>1. /\ p \in [Node -> Node] /\ rk \in [Node -> Nat]
      /\ \A m \in Node : p[m] = m \/ rk[m] < rk[p[m]]
  BY DEF IsForest
<1>2. S \in SUBSET Node /\ n \in S
  OBVIOUS
<1>3. ASSUME NEW k \in S PROVE p[k] \in S
  <2>1. k \in Node /\ p[k] \in Node /\ rk[k] \in Nat /\ rk[n] \in Nat /\ rk[p[k]] \in Nat
    BY <1>1
  <2>2. CASE p[k] = k
    BY <2>2
  <2>3. CASE rk[k] < rk[p[k]]
    BY <2>1, <2>3
  <2> QED
    BY <1>1, <2>1, <2>2, <2>3
<1> HIDE DEF S
<1>4. Path(p, n) \subseteq S
  BY <1>2, <1>3, PathStays
<1>5. Root(p, n) \in S
  BY <1>4, RootFacts
<1> QED
  BY <1>5 DEF S

-----------------------------------------------------------------------------
(* Finding and joining.                                                    *)

\* Pointing nodes to their roots changes neither the ranks nor the roots.
LEMMA Shortcuts ==
  ASSUME NEW p, NEW rk, IsForest(p, rk), NEW q \in [Node -> Node],
         \A n \in Node : q[n] = p[n] \/ q[n] = Root(p, n)
  PROVE  IsForest(q, rk) /\ \A n \in Node : Root(q, n) = Root(p, n)
<1>1. /\ p \in [Node -> Node] /\ rk \in [Node -> Nat]
      /\ \A m \in Node : p[m] = m \/ rk[m] < rk[p[m]]
  BY DEF IsForest
<1>2. ASSUME NEW n \in Node PROVE q[n] = n \/ rk[n] < rk[q[n]]
  BY <1>1, <1>2, RankBelowRoot
<1>3. IsForest(q, rk)
  BY <1>1, <1>2 DEF IsForest
<1> DEFINE f == [k \in Node |-> Root(p, k)]
<1>4. ASSUME NEW k \in Node PROVE Root(p, q[k]) = Root(p, k)
  <2>1. CASE q[k] = p[k]
    BY <2>1, RootOfParent
  <2>2. CASE q[k] = Root(p, k)
    <3>1. Root(p, k) \in Node /\ p[Root(p, k)] = Root(p, k)
      BY RootFacts
    <3> QED
      BY <2>2, <3>1, RootOfRoot
  <2> QED
    BY <2>1, <2>2
<1>5. ASSUME NEW n \in Node PROVE Root(q, n) = Root(p, n)
  <2> DEFINE r == Root(q, n)
  <2>1. r \in Node /\ q[r] = r
    BY <1>3, RootFacts
  <2>2. \A k \in Node : q[k] \in Node /\ f[q[k]] = f[k]
    BY <1>4
  <2>3. f[r] = f[n]
    <3> HIDE DEF f
    <3> QED
      BY <1>3, <2>2, RootKeeps
  <2>4. p[r] = r
    BY <1>1, <2>1, RankBelowRoot, RootFacts
  <2>5. Root(p, r) = r
    BY <2>1, <2>4, RootOfRoot
  <2> QED
    BY <2>1, <2>3, <2>5
<1> QED
  BY <1>3, <1>5

\* find() keeps the roots.
LEMMA CompressKeepsRoots ==
  ASSUME NEW p, NEW rk, IsForest(p, rk), NEW x \in Node
  PROVE  IsForest(Compress(p, x), rk) /\ \A n \in Node : Root(Compress(p, x), n) = Root(p, n)
<1>1. p \in [Node -> Node] /\ Root(p, x) \in Node
  BY RootFacts DEF IsForest
<1>2. \A n \in Node : Compress(p, x)[n] = IF n \in Path(p, x) THEN Root(p, x) ELSE p[n]
  BY DEF Compress
<1>3. \A n \in Node : Compress(p, x)[n] = p[n] \/ Compress(p, x)[n] = Root(p, n)
  BY <1>2, RootOfPath
<1>4. Compress(p, x) \in [Node -> Node]
  BY <1>1 DEF Compress
<1> QED
  BY <1>3, <1>4, Shortcuts

\* A root that is pointed to another root takes its nodes along.
LEMMA JoinedRoots ==
  ASSUME NEW p, NEW rk, IsForest(p, rk), NEW a \in Node, NEW b \in Node, a # b,
         p[a] = a, p[b] = b, NEW q, NEW sk, IsForest(q, sk),
         q[a] = b, \A n \in Node : n # a => q[n] = p[n]
  PROVE  \A n \in Node : Root(q, n) = IF Root(p, n) = a THEN b ELSE Root(p, n)
<1>1. p \in [Node -> Node]
  BY DEF IsForest
<1>2. q[a] = b /\ \A n \in Node : n # a => q[n] = p[n]
  OBVIOUS
<1> DEFINE f == [k \in Node |-> IF Root(p, k) = a THEN b ELSE Root(p, k)]
<1>3. ASSUME NEW k \in Node PROVE f[q[k]] = f[k]
  <2>1. CASE k = a
    <3>1. Root(p, a) = a /\ Root(p, b) = b
      BY RootOfRoot
    <3> QED
      BY <1>2, <2>1, <3>1
  <2>2. CASE k # a
    <3>1. Root(p, p[k]) = Root(p, k) /\ p[k] \in Node
      BY <1>1, RootOfParent
    <3> QED
      BY <1>2, <2>2, <3>1
  <2> QED
    BY <2>1, <2>2
<1>4. ASSUME NEW n \in Node PROVE Root(q, n) = f[n]
  <2> DEFINE r == Root(q, n)
  <2>1. r \in Node /\ q[r] = r
    BY RootFacts
  <2>2. f[r] = f[n]
    <3>1. IsForest(q, sk) /\ \A k \in Node : f[q[k]] = f[k]
      BY <1>3
    <3> HIDE DEF f
    <3> QED
      BY <3>1, RootKeeps
  <2>3. r # a /\ p[r] = r
    BY <1>2, <2>1
  <2>4. Root(p, r) = r
    BY <2>1, <2>3, RootOfRoot
  <2>5. f[r] = r
    BY <2>1, <2>3, <2>4
  <2> QED
    BY <2>2, <2>5
<1> QED
  BY <1>4

LEMMA LinkJoins ==
  ASSUME NEW s, s = [parent |-> s.parent, rank |-> s.rank],
         IsForest(s.parent, s.rank), NEW a \in Node, NEW b \in Node, a # b,
         s.parent[a] = a, s.parent[b] = b
  PROVE  LET t == Link(s, a, b)
         IN  /\ IsForest(t.parent, t.rank)
             /\ \/ \A n \in Node : Root(t.parent, n) = IF Root(s.parent, n) = a THEN b ELSE Root(s.parent, n)
                \/ \A n \in Node : Root(t.parent, n) = IF Root(s.parent, n) = b THEN a ELSE Root(s.parent, n)
<1> DEFINE p == s.parent rk == s.rank t == Link(s, a, b)
<1>1. /\ p \in [Node -> Node] /\ rk \in [Node -> Nat]
      /\ \A m \in Node : p[m] = m \/ rk[m] < rk[p[m]]
  BY DEF IsForest
<1>2. rk[a] \in Nat /\ rk[b] \in Nat
  BY <1>1
<1>3. CASE rk[a] < rk[b]
  <2>1. t.parent = [p EXCEPT ![a] = b] /\ t.rank = rk
    BY <1>3 DEF Link
  <2>2. IsForest(t.parent, t.rank)
    <3>1. t.parent \in [Node -> Node] /\ \A m \in Node : t.parent[m] = IF m = a THEN b ELSE p[m]
      BY <1>1, <2>1
    <3> QED
      BY <1>1, <1>3, <2>1, <3>1 DEF IsForest
  <2>3. t.parent[a] = b /\ \A n \in Node : n # a => t.parent[n] = p[n]
    BY <1>1, <2>1
  <2> HIDE DEF t
  <2> QED
    BY <2>2, <2>3, JoinedRoots DEF t
<1>4. CASE rk[b] < rk[a]
  <2>1. t.parent = [p EXCEPT ![b] = a] /\ t.rank = rk
    BY <1>2, <1>4 DEF Link
  <2>2. IsForest(t.parent, t.rank)
    <3>1. t.parent \in [Node -> Node] /\ \A m \in Node : t.parent[m] = IF m = b THEN a ELSE p[m]
      BY <1>1, <2>1
    <3> QED
      BY <1>1, <1>4, <2>1, <3>1 DEF IsForest
  <2>3. t.parent[b] = a /\ \A n \in Node : n # b => t.parent[n] = p[n]
    BY <1>1, <2>1
  <2> HIDE DEF t
  <2> QED
    BY <2>2, <2>3, JoinedRoots DEF t
<1>5. CASE rk[a] = rk[b]
  <2>1. t.parent = [p EXCEPT ![b] = a] /\ t.rank = [rk EXCEPT ![a] = rk[a] + 1]
    BY <1>2, <1>5 DEF Link
  <2>2. IsForest(t.parent, t.rank)
    <3>1. /\ t.parent \in [Node -> Node]
          /\ \A m \in Node : t.parent[m] = IF m = b THEN a ELSE p[m]
          /\ t.rank \in [Node -> Nat]
          /\ \A m \in Node : t.rank[m] = IF m = a THEN rk[a] + 1 ELSE rk[m]
      BY <1>1, <1>2, <2>1
    <3>2. ASSUME NEW m \in Node PROVE t.parent[m] = m \/ t.rank[m] < t.rank[t.parent[m]]
      <4> HIDE DEF t
      <4>1. CASE m = a
        BY <4>1, <3>1
      <4>2. CASE m = b
        BY <4>2, <3>1, <1>1, <1>2, <1>5
      <4>3. CASE m # a /\ m # b
        <5>1. p[m] \in Node /\ rk[m] \in Nat /\ rk[p[m]] \in Nat
          BY <1>1
        <5>2. rk[p[m]] <= t.rank[p[m]] /\ t.rank[p[m]] \in Nat
          BY <5>1, <3>1, <1>2
        <5> QED
          BY <4>3, <5>1, <5>2, <3>1, <1>1
      <4> QED
        BY <4>1, <4>2, <4>3
    <3> HIDE DEF t
    <3> QED
      BY <3>1, <3>2 DEF IsForest
  <2>3. t.parent[b] = a /\ \A n \in Node : n # b => t.parent[n] = p[n]
    BY <1>1, <2>1
  <2> HIDE DEF t
  <2> QED
    BY <2>2, <2>3, JoinedRoots DEF t
<1> QED
  BY <1>2, <1>3, <1>4, <1>5

\* union() joins the two sets, and no others.
LEMMA UnionJoins ==
  ASSUME NEW s, s = [parent |-> s.parent, rank |-> s.rank], IsForest(s.parent, s.rank),
         NEW x \in Node, NEW y \in Node
  PROVE  LET t == Union(s, x, y)
             rx == Root(s.parent, x)
             ry == Root(s.parent, y)
         IN  /\ IsForest(t.parent, t.rank)
             /\ \/ \A n \in Node : Root(t.parent, n) = IF Root(s.parent, n) = rx THEN ry ELSE Root(s.parent, n)
                \/ \A n \in Node : Root(t.parent, n) = IF Root(s.parent, n) = ry THEN rx ELSE Root(s.parent, n)
<1> DEFINE p1 == Compress(s.parent, x)
           p2 == Compress(p1, y)
           u == [s EXCEPT !.parent = p2]
           rx == Root(s.parent, x)
           ry == Root(s.parent, y)
           t == Union(s, x, y)
<1>1. IsForest(p1, s.rank) /\ \A n \in Node : Root(p1, n) = Root(s.parent, n)
  BY CompressKeepsRoots
<1>2. IsForest(p2, s.rank) /\ \A n \in Node : Root(p2, n) = Root(s.parent, n)
  <2> HIDE DEF p1
  <2> QED
    BY <1>1, CompressKeepsRoots
<1>3. u = [parent |-> u.parent, rank |-> u.rank] /\ u.parent = p2 /\ u.rank = s.rank
  <2> HIDE DEF p2
  <2> QED
    OBVIOUS
<1>4. t = IF rx = ry THEN u ELSE Link(u, rx, ry)
  BY <1>2 DEF Union
<1>5. rx \in Node /\ ry \in Node /\ p2[rx] = rx /\ p2[ry] = ry
  <2> HIDE DEF p2
  <2>1. /\ Root(p2, x) \in Node /\ p2[Root(p2, x)] = Root(p2, x)
        /\ Root(p2, y) \in Node /\ p2[Root(p2, y)] = Root(p2, y)
    BY <1>2, RootFacts
  <2> QED
    BY <2>1, <1>2
<1> HIDE DEF p1, p2, u, rx, ry, t
<1>6. CASE rx = ry
  BY <1>2, <1>3, <1>4, <1>6 DEF rx, ry, t
<1>7. CASE rx # ry
  <2>1. IsForest(u.parent, u.rank)
    BY <1>2, <1>3
  <2> DEFINE v == Link(u, rx, ry)
  <2>2. /\ IsForest(v.parent, v.rank)
        /\ \/ \A n \in Node : Root(v.parent, n) = IF Root(u.parent, n) = rx THEN ry ELSE Root(u.parent, n)
           \/ \A n \in Node : Root(v.parent, n) = IF Root(u.parent, n) = ry THEN rx ELSE Root(u.parent, n)
    BY <1>3, <1>5, <1>7, <2>1, LinkJoins
  <2>3. t = v
    BY <1>4, <1>7
  <2> HIDE DEF v
  <2> QED
    BY <1>2, <1>3, <2>2, <2>3 DEF rx, ry, t
<1> QED
  BY <1>6, <1>7

-----------------------------------------------------------------------------
(* The strongly connected components.                                      *)

Visited == {n \in graph.nodes : num[n] # -1}
Done == Visited \ onStack

SccShape ==
  /\ GraphTypeOK /\ SccTypeOK
  /\ onStack \subseteq Visited
  /\ \A n \in Visited : num[n] < index /\ low[n] \in Nat
  /\ \A m, n \in Visited : num[m] = num[n] => m = n

\* Edges are followed by the calls under way and by those that have ended.
EdgesFollowed ==
  /\ \A e \in graph.edges \ todo : graph.pre[e] \in Visited /\ graph.dep[e] \in Visited
  /\ \A e \in todo : graph.pre[e] \in Visited => graph.pre[e] \in calls

\* Nothing leads out of what has been popped.
DoneIsClosed == \A e \in graph.edges : graph.pre[e] \in Done => graph.dep[e] \in Done

\* A call under way leads to all that was pushed after it ...
CallsReachStack ==
  \A g \in calls, x \in onStack : num[g] <= num[x] => Reach(graph, g, x)

\* ... and everything on the stack leads to a call that was made before it.
StackReachesCalls ==
  \A x \in onStack : \E g \in calls : num[g] <= num[x] /\ Reach(graph, x, g)

\* A link is the index of a node on the stack ...
LinksAreTrue ==
  \A v \in onStack : /\ low[v] <= num[v]
                     /\ \E w \in onStack : num[w] = low[v] /\ Reach(graph, v, w)

\* The call on whose behalf x is on the stack.
Owner(g, x) ==
  g \in calls /\ num[g] <= num[x] /\ \A h \in calls : num[h] <= num[x] => num[h] <= num[g]

\* ... and that of a call is as low as whatever its nodes have found.
LinksAreLow ==
  \A e \in graph.edges \ todo : \A g \in calls :
    graph.pre[e] \in onStack /\ graph.dep[e] \in onStack /\ Owner(g, graph.pre[e])
      => low[g] <= num[graph.dep[e]]

DoneIsFound == \A x \in Done : \E C \in sccs : x \in C
FoundIsDone == \A C \in sccs : C \subseteq Done

SccInv ==
  /\ SccShape /\ EdgesFollowed /\ DoneIsClosed
  /\ CallsReachStack /\ StackReachesCalls /\ LinksAreTrue /\ LinksAreLow
  /\ DoneIsFound /\ FoundIsDone /\ ComponentsAreExact

-----------------------------------------------------------------------------
(* Reachability.                                                           *)

LEMMA ReachSelf == \A g, x : Reach(g, x, x)
BY DEF Reach

LEMMA ReachOn == \A g, x, y, z : Reach(g, x, y) /\ Reach(g, y, z) => Reach(g, x, z)
BY DEF Reach

LEMMA ReachEdge == ASSUME NEW g, NEW e \in g.edges PROVE Reach(g, g.pre[e], g.dep[e])
BY DEF Reach, Closed

\* What is reached from a closed set is in it.
LEMMA ReachStays ==
  ASSUME NEW g, NEW S \in SUBSET g.nodes, NEW x \in S, NEW y, Reach(g, x, y),
         \A e \in g.edges : g.pre[e] \in S => g.dep[e] \in S
  PROVE  y \in S
BY DEF Reach, Closed

-----------------------------------------------------------------------------
LEMMA SccBegins ==
  ASSUME NEW g, g \in Graphs, EdgesJoinNodes(g), BeginScc(g)
  PROVE  SccInv'
<1>1. graph' = g
  BY DEF BeginScc
<1>2. /\ index' = 0 /\ onStack' = {} /\ calls' = {} /\ sccs' = {} /\ todo' = g.edges
      /\ num' = [n \in Node |-> -1] /\ low' = [n \in Node |-> -1]
  BY DEF BeginScc, SccLocals
<1>3. Visited' = {} /\ Done' = {}
  BY <1>1, <1>2 DEF Visited, Done, Graphs
<1>4. SccShape'
  BY <1>1, <1>2, <1>3 DEF SccShape, GraphTypeOK, SccTypeOK
<1>5. EdgesFollowed' /\ DoneIsClosed' /\ LinksAreLow'
  BY <1>1, <1>2, <1>3 DEF EdgesFollowed, DoneIsClosed, LinksAreLow
<1>6. CallsReachStack' /\ StackReachesCalls' /\ LinksAreTrue'
  BY <1>2 DEF CallsReachStack, StackReachesCalls, LinksAreTrue
<1>7. DoneIsFound' /\ FoundIsDone' /\ ComponentsAreExact'
  BY <1>2, <1>3 DEF DoneIsFound, FoundIsDone, ComponentsAreExact
<1> QED
  BY <1>4, <1>5, <1>6, <1>7 DEF SccInv

-----------------------------------------------------------------------------
(* A call is made.                                                         *)

\* What entering a node w means, whoever calls.
LEMMA EnterFacts ==
  ASSUME SccInv, NEW w \in graph.nodes, num[w] = -1, Enter(w), graph' = graph
  PROVE  /\ w \notin onStack /\ w \in Node
         /\ num'[w] = index /\ low'[w] = index
         /\ \A n \in Node : n # w => num'[n] = num[n] /\ low'[n] = low[n]
         /\ Visited' = Visited \cup {w} /\ Done' = Done
         /\ \A n \in Visited : num[n] < index /\ n # w /\ n \in Node /\ num[n] \in Nat
<1>1. w \in Node /\ graph.nodes \subseteq Node
  BY DEF SccInv, SccShape, GraphTypeOK, Graphs
<1>2. num'[w] = index /\ low'[w] = index /\ \A n \in Node : n # w => num'[n] = num[n] /\ low'[n] = low[n]
  BY <1>1 DEF Enter, SccInv, SccShape, SccTypeOK
<1>3. w \notin Visited /\ w \notin onStack
  BY DEF Visited, SccInv, SccShape
<1>4. Visited' = Visited \cup {w}
  <2>1. index # -1
    BY DEF SccInv, SccShape, SccTypeOK
  <2> QED
    BY <1>1, <1>2, <2>1 DEF Visited
<1>5. Done' = Done
  BY <1>3, <1>4 DEF Done, Enter
<1>6. \A n \in Visited : num[n] < index /\ n # w /\ n \in Node /\ num[n] \in Nat
  BY <1>1, <1>3 DEF Visited, SccInv, SccShape, SccTypeOK
<1> QED
  BY <1>1, <1>2, <1>3, <1>4, <1>5, <1>6

\* The part of the invariant that does not depend on who calls.
LEMMA EnterPreserves ==
  ASSUME SccInv, NEW w \in graph.nodes, num[w] = -1, Enter(w), graph' = graph, sccs' = sccs,
         todo' \subseteq todo, \A e \in todo \ todo' : graph.dep[e] = w,
         \A e \in todo \ todo' : graph.pre[e] \in onStack,
         \A g \in calls : Reach(graph, g, w)
  PROVE  SccInv'
<1>1. /\ w \notin onStack /\ w \in Node
      /\ num'[w] = index /\ low'[w] = index
      /\ \A n \in Node : n # w => num'[n] = num[n] /\ low'[n] = low[n]
      /\ Visited' = Visited \cup {w} /\ Done' = Done
      /\ \A n \in Visited : num[n] < index /\ n # w /\ n \in Node /\ num[n] \in Nat
  BY EnterFacts
<1>2. /\ onStack' = onStack \cup {w} /\ calls' = calls \cup {w} /\ index' = index + 1
      /\ index \in Nat
  BY DEF Enter, SccInv, SccShape, SccTypeOK
<1>3. /\ onStack \subseteq Visited /\ calls \subseteq onStack
      /\ \A n \in onStack : n # w /\ num'[n] = num[n] /\ low'[n] = low[n] /\ num[n] < index
      /\ \A n \in onStack : num[n] \in Nat /\ low[n] \in Nat
  BY <1>1 DEF SccInv, SccShape, SccTypeOK
<1>4. SccShape'
  <2>1. SccTypeOK'
    BY <1>1, <1>2 DEF SccInv, SccShape, SccTypeOK, Enter
  <2>2. \A n \in Visited' : num'[n] < index' /\ low'[n] \in Nat
    BY <1>1, <1>2 DEF SccInv, SccShape
  <2>3. \A m, n \in Visited' : num'[m] = num'[n] => m = n
    BY <1>1, <1>2 DEF SccInv, SccShape
  <2> QED
    BY <2>1, <2>2, <2>3, <1>1, <1>2, <1>3 DEF SccShape, SccInv, GraphTypeOK
<1>5. EdgesFollowed'
  <2>1. ASSUME NEW e \in graph.edges \ todo'
        PROVE  graph.pre[e] \in Visited' /\ graph.dep[e] \in Visited'
    BY <2>1, <1>1, <1>3 DEF SccInv, EdgesFollowed
  <2>2. ASSUME NEW e \in todo', graph.pre[e] \in Visited'
        PROVE  graph.pre[e] \in calls'
    BY <2>2, <1>1, <1>2 DEF SccInv, EdgesFollowed
  <2> QED
    BY <2>1, <2>2 DEF EdgesFollowed
<1>6. DoneIsClosed' /\ DoneIsFound' /\ FoundIsDone' /\ ComponentsAreExact'
  BY <1>1 DEF SccInv, DoneIsClosed, DoneIsFound, FoundIsDone, ComponentsAreExact
<1>7. CallsReachStack'
  <2> SUFFICES ASSUME NEW g \in calls', NEW x \in onStack', num'[g] <= num'[x]
               PROVE  Reach(graph, g, x)
    BY DEF CallsReachStack
  <2>1. CASE g = w
    <3>1. x = w
      BY <2>1, <1>1, <1>2, <1>3
    <3> QED
      BY <2>1, <3>1, ReachSelf
  <2>2. CASE g # w /\ x = w
    BY <2>2, <1>2
  <2>3. CASE g # w /\ x # w
    BY <2>3, <1>2, <1>3 DEF SccInv, CallsReachStack
  <2> QED
    BY <2>1, <2>2, <2>3
<1>8. StackReachesCalls'
  <2> SUFFICES ASSUME NEW x \in onStack'
               PROVE  \E g \in calls' : num'[g] <= num'[x] /\ Reach(graph, x, g)
    BY DEF StackReachesCalls
  <2>1. CASE x = w
    BY <2>1, <1>1, <1>2, ReachSelf
  <2>2. CASE x # w
    <3>1. PICK g \in calls : num[g] <= num[x] /\ Reach(graph, x, g)
      BY <2>2, <1>2 DEF SccInv, StackReachesCalls
    <3> QED
      BY <3>1, <2>2, <1>2, <1>3
  <2> QED
    BY <2>1, <2>2
<1>9. LinksAreTrue'
  <2> SUFFICES ASSUME NEW v \in onStack'
               PROVE  /\ low'[v] <= num'[v]
                      /\ \E u \in onStack' : num'[u] = low'[v] /\ Reach(graph, v, u)
    BY DEF LinksAreTrue
  <2>1. CASE v = w
    BY <2>1, <1>1, <1>2, ReachSelf
  <2>2. CASE v # w
    <3>1. PICK u \in onStack : num[u] = low[v] /\ Reach(graph, v, u)
      BY <2>2, <1>2 DEF SccInv, LinksAreTrue
    <3>2. low[v] <= num[v]
      BY <2>2, <1>2 DEF SccInv, LinksAreTrue
    <3> QED
      BY <3>1, <3>2, <2>2, <1>2, <1>3
  <2> QED
    BY <2>1, <2>2
<1>10. LinksAreLow'
  <2> SUFFICES ASSUME NEW e \in graph.edges \ todo', NEW g \in calls',
                      graph.pre[e] \in onStack', graph.dep[e] \in onStack', Owner(g, graph.pre[e])'
               PROVE  low'[g] <= num'[graph.dep[e]]
    BY DEF LinksAreLow
  <2> DEFINE x == graph.pre[e] y == graph.dep[e]
  <2>1. x \in onStack /\ x # w
    <3>1. CASE e \in todo
      BY <3>1, <1>3
    <3>2. CASE e \notin todo
      <4>1. x \in Visited
        BY <3>2 DEF SccInv, EdgesFollowed
      <4> QED
        BY <4>1, <1>1, <1>2
    <3> QED
      BY <3>1, <3>2
  <2>2. g # w /\ g \in calls
    BY <2>1, <1>1, <1>2, <1>3 DEF Owner
  <2>3. CASE y = w
    <3>1. low[g] <= num[g] /\ num[g] < index
      BY <2>2, <1>3 DEF SccInv, LinksAreTrue
    <3> QED
      BY <3>1, <2>2, <2>3, <1>1, <1>2, <1>3
  <2>4. CASE y # w
    <3>1. e \notin todo /\ y \in onStack
      BY <2>4, <1>2
    <3>2. Owner(g, x)
      <4>1. \A h \in calls : num'[h] = num[h]
        BY <1>3
      <4> QED
        BY <2>1, <2>2, <4>1, <1>2, <1>3 DEF Owner
    <3>3. low[g] <= num[y]
      BY <3>1, <3>2, <2>1, <2>2 DEF SccInv, LinksAreLow
    <3> QED
      BY <3>1, <3>3, <2>2, <1>3
  <2> QED
    BY <2>3, <2>4
<1> QED
  BY <1>4, <1>5, <1>6, <1>7, <1>8, <1>9, <1>10 DEF SccInv

LEMMA VisitPreserves == ASSUME SccInv, NEW v \in Node, Visit(v) PROVE SccInv'
<1>1. v \in graph.nodes /\ num[v] = -1 /\ Enter(v) /\ graph' = graph /\ sccs' = sccs /\ todo' = todo
  BY DEF Visit
<1>2. \A g \in calls : Reach(graph, g, v)
  BY DEF Visit
<1> QED
  BY <1>1, <1>2, EnterPreserves

LEMMA FollowToNewPreserves == ASSUME SccInv, NEW e \in Edge, FollowToNew(e) PROVE SccInv'
<1> DEFINE v == graph.pre[e] w == graph.dep[e]
<1>1. /\ e \in todo /\ IsTop(v) /\ num[w] = -1 /\ todo' = todo \ {e} /\ Enter(w)
      /\ graph' = graph /\ sccs' = sccs
  BY DEF FollowToNew
<1>2. e \in graph.edges /\ w \in graph.nodes
  BY <1>1 DEF SccInv, SccShape, SccTypeOK, GraphTypeOK, EdgesJoinNodes
<1>3. v \in calls /\ v \in onStack /\ \A g \in calls : num[g] <= num[v]
  BY <1>1 DEF IsTop, SccInv, SccShape, SccTypeOK
<1>4. \A g \in calls : Reach(graph, g, w)
  <2>1. \A g \in calls : Reach(graph, g, v)
    BY <1>3 DEF SccInv, CallsReachStack
  <2>2. Reach(graph, v, w)
    BY <1>2, ReachEdge
  <2> QED
    BY <2>1, <2>2, ReachOn
<1>5. \A d \in todo \ todo' : graph.dep[d] = w /\ graph.pre[d] \in onStack
  BY <1>1, <1>3
<1> QED
  BY <1>1, <1>2, <1>4, <1>5, EnterPreserves

-----------------------------------------------------------------------------
(* An edge leads to a node that was seen before.                           *)

LEMMA FollowToSeenPreserves == ASSUME SccInv, NEW e \in Edge, FollowToSeen(e) PROVE SccInv'
<1> DEFINE v == graph.pre[e] w == graph.dep[e]
<1>1. /\ e \in todo /\ IsTop(v) /\ num[w] # -1 /\ todo' = todo \ {e}
      /\ low' = IF w \in onStack THEN [low EXCEPT ![v] = Smaller(@, num[w])] ELSE low
      /\ UNCHANGED <<graph, index, num, onStack, calls, sccs>>
  BY DEF FollowToSeen
<1>2. e \in graph.edges /\ w \in Visited
  BY <1>1 DEF SccInv, SccShape, SccTypeOK, GraphTypeOK, EdgesJoinNodes, Visited
<1>3. /\ v \in calls /\ calls \subseteq onStack /\ onStack \subseteq Visited
      /\ \A g \in calls : num[g] <= num[v]
      /\ Visited \subseteq Node
      /\ \A n \in Visited : num[n] \in Nat /\ low[n] \in Nat
  BY <1>1 DEF IsTop, SccInv, SccShape, SccTypeOK, Visited, GraphTypeOK, Graphs
<1>4. /\ low' \in [Node -> Nat \cup {-1}]
      /\ \A n \in Node : n # v => low'[n] = low[n]
      /\ low'[v] \in Nat /\ low'[v] <= low[v]
      /\ w \in onStack => low'[v] <= num[w] /\ low'[v] \in {low[v], num[w]}
      /\ w \notin onStack => low' = low
  <2>1. low \in [Node -> Nat \cup {-1}]
    BY DEF SccInv, SccShape, SccTypeOK
  <2>2. CASE w \in onStack
    <3>1. low' = [low EXCEPT ![v] = Smaller(low[v], num[w])]
      BY <1>1, <2>2
    <3>2. v \in Node /\ low[v] \in Nat /\ num[w] \in Nat
      BY <1>2, <1>3
    <3>3. Smaller(low[v], num[w]) \in {low[v], num[w]} /\ Smaller(low[v], num[w]) <= low[v]
          /\ Smaller(low[v], num[w]) <= num[w]
      BY <3>2 DEF Smaller
    <3> QED
      BY <2>1, <2>2, <3>1, <3>2, <3>3
  <2>3. CASE w \notin onStack
    BY <1>1, <1>3, <2>1, <2>3
  <2> QED
    BY <2>2, <2>3
<1>5. Visited' = Visited /\ Done' = Done
  BY <1>1 DEF Visited, Done
<1>6. SccShape'
  BY <1>1, <1>3, <1>4, <1>5 DEF SccInv, SccShape, SccTypeOK, GraphTypeOK
<1>7. EdgesFollowed'
  BY <1>1, <1>2, <1>3, <1>5 DEF SccInv, EdgesFollowed
<1>8. DoneIsClosed' /\ DoneIsFound' /\ FoundIsDone' /\ ComponentsAreExact'
      /\ CallsReachStack' /\ StackReachesCalls'
  BY <1>1, <1>5 DEF SccInv, DoneIsClosed, DoneIsFound, FoundIsDone, ComponentsAreExact,
                    CallsReachStack, StackReachesCalls
<1>9. LinksAreTrue'
  <2> SUFFICES ASSUME NEW u \in onStack
               PROVE  low'[u] <= num[u] /\ \E x \in onStack : num[x] = low'[u] /\ Reach(graph, u, x)
    BY <1>1 DEF LinksAreTrue
  <2>1. u \in Visited /\ u \in Node
    BY <1>3
  <2>2. low[u] <= num[u] /\ \E x \in onStack : num[x] = low[u] /\ Reach(graph, u, x)
    BY DEF SccInv, LinksAreTrue
  <2>3. CASE low'[u] = low[u]
    BY <2>2, <2>3
  <2>4. CASE low'[u] # low[u]
    <3>1. u = v /\ w \in onStack /\ low'[u] = num[w]
      BY <1>4, <2>1, <2>4
    <3>2. Reach(graph, v, w)
      BY <1>2, ReachEdge
    <3>3. low'[u] <= num[u]
      BY <1>2, <1>3, <1>4, <2>1, <2>2, <3>1
    <3> QED
      BY <3>1, <3>2, <3>3
  <2> QED
    BY <2>3, <2>4
<1>10. LinksAreLow'
  <2> SUFFICES ASSUME NEW d \in graph.edges \ todo', NEW g \in calls,
                      graph.pre[d] \in onStack, graph.dep[d] \in onStack, Owner(g, graph.pre[d])
               PROVE  low'[g] <= num[graph.dep[d]]
    BY <1>1 DEF LinksAreLow, Owner
  <2>1. g \in Visited /\ g \in Node /\ graph.dep[d] \in Visited
    BY <1>3
  <2>2. low'[g] <= low[g] /\ low'[g] \in Nat
    BY <1>3, <1>4, <2>1
  <2>3. CASE d = e
    <3>1. g = v
      <4>1. num[v] <= num[g] /\ num[g] <= num[v]
        BY <1>3, <2>3 DEF Owner
      <4> QED
        BY <4>1, <2>1, <1>3 DEF SccInv, SccShape
    <3> QED
      BY <1>4, <2>3, <3>1
  <2>4. CASE d # e
    <3>1. low[g] <= num[graph.dep[d]]
      BY <1>1, <2>4 DEF SccInv, LinksAreLow
    <3> QED
      BY <3>1, <2>1, <2>2, <1>3
  <2> QED
    BY <2>3, <2>4
<1> QED
  BY <1>6, <1>7, <1>8, <1>9, <1>10 DEF SccInv


-----------------------------------------------------------------------------
(* A call ends.                                                            *)

\* What holds whether v completes a component or not.
LEMMA ReturnFacts ==
  ASSUME SccInv, NEW v \in Node, Return(v)
  PROVE  /\ v \in calls /\ \A g \in calls : num[g] <= num[v]
         /\ \A g \in calls' : g \in calls /\ num[g] < num[v]
         /\ calls \subseteq onStack /\ onStack \subseteq Visited /\ Visited \subseteq Node
         /\ \A n \in Visited : num[n] \in Nat /\ low[n] \in Nat
         /\ low' \in [Node -> Nat \cup {-1}]
         /\ \A u \in Visited : /\ low'[u] \in {low[u], low[v]} /\ low'[u] <= low[u]
                               /\ u \notin calls' => low'[u] = low[u]
                               /\ u \in calls' /\ (\A c \in calls' : num[c] <= num[u])
                                    => low'[u] <= low[v]
         /\ UNCHANGED <<graph, index, num, todo>> /\ Visited' = Visited
         /\ calls' = calls \ {v}
<1>1. /\ IsTop(v) /\ calls' = calls \ {v} /\ UNCHANGED <<graph, index, num, todo>>
      /\ low' = [u \in Node |-> IF u \in calls' /\ \A c \in calls' : num[c] <= num[u]
                                  THEN Smaller(low[u], low[v]) ELSE low[u]]
  BY DEF Return
<1>2. /\ v \in calls /\ \A g \in calls : num[g] <= num[v]
      /\ calls \subseteq onStack /\ onStack \subseteq Visited /\ Visited \subseteq Node
      /\ \A n \in Visited : num[n] \in Nat /\ low[n] \in Nat
      /\ Visited' = Visited
  BY <1>1 DEF IsTop, SccInv, SccShape, SccTypeOK, GraphTypeOK, Graphs, Visited
<1>3. \A g \in calls' : g \in calls /\ num[g] < num[v]
  <2> SUFFICES ASSUME NEW g \in calls' PROVE g \in calls /\ num[g] < num[v]
    OBVIOUS
  <2>1. g \in calls /\ g # v /\ num[g] <= num[v]
    BY <1>1, <1>2
  <2>2. num[g] # num[v]
    BY <2>1, <1>2 DEF SccInv, SccShape
  <2>3. num[g] \in Nat /\ num[v] \in Nat
    BY <2>1, <1>2
  <2> QED
    BY <2>1, <2>2, <2>3
<1>4. \A a, b \in Nat : Smaller(a, b) \in {a, b} /\ Smaller(a, b) <= a /\ Smaller(a, b) <= b
  BY DEF Smaller
<1>5. low' \in [Node -> Nat \cup {-1}]
  <2>1. v \in Visited /\ low[v] \in Nat
    BY <1>2
  <2>2. \A u \in Node : low[u] \in Nat \cup {-1}
    BY DEF SccInv, SccShape, SccTypeOK
  <2>3. \A u \in Node : u \in calls' => Smaller(low[u], low[v]) \in Nat
    BY <1>1, <1>2, <1>4
  <2> QED
    BY <1>1, <2>2, <2>3
<1>6. \A u \in Visited : /\ low'[u] \in {low[u], low[v]} /\ low'[u] <= low[u]
                         /\ u \notin calls' => low'[u] = low[u]
                         /\ u \in calls' /\ (\A c \in calls' : num[c] <= num[u])
                              => low'[u] <= low[v]
  <2> SUFFICES ASSUME NEW u \in Visited
               PROVE  /\ low'[u] \in {low[u], low[v]} /\ low'[u] <= low[u]
                      /\ u \notin calls' => low'[u] = low[u]
                      /\ u \in calls' /\ (\A c \in calls' : num[c] <= num[u])
                           => low'[u] <= low[v]
    OBVIOUS
  <2>1. u \in Node /\ low[u] \in Nat /\ low[v] \in Nat
    BY <1>2
  <2>2. CASE u \in calls' /\ \A c \in calls' : num[c] <= num[u]
    BY <1>1, <1>4, <2>1, <2>2
  <2>3. CASE ~(u \in calls' /\ \A c \in calls' : num[c] <= num[u])
    <3>1. low'[u] = low[u]
      BY <1>1, <2>1, <2>3
    <3> QED
      BY <2>1, <2>3, <3>1
  <2> QED
    BY <2>2, <2>3
<1> QED
  BY <1>1, <1>2, <1>3, <1>5, <1>6

\* The link of v leads below v: its nodes pass to the caller.
LEMMA ReturnToCaller ==
  ASSUME SccInv, NEW v \in Node, Return(v), low[v] # num[v], UNCHANGED <<onStack, sccs>>
  PROVE  SccInv'
<1>1. /\ v \in calls /\ \A g \in calls : num[g] <= num[v]
      /\ \A g \in calls' : g \in calls /\ num[g] < num[v]
      /\ calls \subseteq onStack /\ onStack \subseteq Visited /\ Visited \subseteq Node
      /\ \A n \in Visited : num[n] \in Nat /\ low[n] \in Nat
      /\ UNCHANGED <<graph, index, num, todo>> /\ Visited' = Visited
      /\ calls' = calls \ {v}
  BY ReturnFacts
<1>2. /\ low' \in [Node -> Nat \cup {-1}]
      /\ \A u \in Visited : /\ low'[u] \in {low[u], low[v]} /\ low'[u] <= low[u]
                            /\ u \notin calls' => low'[u] = low[u]
                            /\ u \in calls' /\ (\A c \in calls' : num[c] <= num[u])
                                 => low'[u] <= low[v]
  BY ReturnFacts
<1>3. Done' = Done
  BY <1>1 DEF Done
<1>4. SccShape'
  <2>1. SccTypeOK'
    BY <1>1, <1>2 DEF SccInv, SccShape, SccTypeOK
  <2>2. \A n \in Visited : low'[n] \in Nat
    BY <1>1, <1>2
  <2> QED
    BY <1>1, <2>1, <2>2 DEF SccInv, SccShape, GraphTypeOK
<1>5. EdgesFollowed'
  <2>1. todo \cap OutEdges(graph, v) = {}
    BY DEF Return
  <2>2. ASSUME NEW e \in todo, graph.pre[e] \in Visited
        PROVE  graph.pre[e] \in calls'
    <3>1. e \in graph.edges /\ graph.pre[e] \in calls
      BY <2>2 DEF SccInv, EdgesFollowed, SccShape, SccTypeOK
    <3>2. graph.pre[e] # v
      BY <2>1, <3>1 DEF OutEdges
    <3> QED
      BY <1>1, <3>1, <3>2
  <2>3. \A e \in graph.edges \ todo : graph.pre[e] \in Visited /\ graph.dep[e] \in Visited
    BY DEF SccInv, EdgesFollowed
  <2> QED
    BY <1>1, <2>2, <2>3 DEF EdgesFollowed
<1>6. DoneIsClosed' /\ DoneIsFound' /\ FoundIsDone' /\ ComponentsAreExact' /\ CallsReachStack'
  BY <1>1, <1>3 DEF SccInv, DoneIsClosed, DoneIsFound, FoundIsDone, ComponentsAreExact,
                    CallsReachStack
<1>7. PICK w \in onStack : num[w] = low[v] /\ Reach(graph, v, w)
  BY <1>1 DEF SccInv, LinksAreTrue
<1>8. low[v] < num[v]
  <2>1. low[v] <= num[v]
    BY <1>1 DEF SccInv, LinksAreTrue
  <2> QED
    BY <2>1, <1>1
<1>9. StackReachesCalls'
  <2> SUFFICES ASSUME NEW x \in onStack
               PROVE  \E g \in calls' : num[g] <= num[x] /\ Reach(graph, x, g)
    BY <1>1 DEF StackReachesCalls
  <2>1. PICK g \in calls : num[g] <= num[x] /\ Reach(graph, x, g)
    BY DEF SccInv, StackReachesCalls
  <2>2. CASE g # v
    BY <1>1, <2>1, <2>2
  <2>3. CASE g = v
    <3>1. PICK h \in calls : num[h] <= num[w] /\ Reach(graph, w, h)
      BY DEF SccInv, StackReachesCalls
    <3>2. num[h] \in Nat /\ num[w] \in Nat /\ num[v] \in Nat /\ num[x] \in Nat
      BY <1>1
    <3>3. num[h] < num[v] /\ num[h] <= num[x]
      BY <1>7, <1>8, <2>1, <2>3, <3>1, <3>2
    <3>4. h \in calls'
      BY <1>1, <3>2, <3>3
    <3>5. Reach(graph, x, h)
      BY <1>7, <2>1, <2>3, <3>1, ReachOn
    <3> QED
      BY <3>3, <3>4, <3>5
  <2> QED
    BY <2>2, <2>3
<1>10. LinksAreTrue'
  <2> SUFFICES ASSUME NEW u \in onStack
               PROVE  low'[u] <= num[u] /\ \E x \in onStack : num[x] = low'[u] /\ Reach(graph, u, x)
    BY <1>1 DEF LinksAreTrue
  <2>1. low[u] <= num[u] /\ \E x \in onStack : num[x] = low[u] /\ Reach(graph, u, x)
    BY DEF SccInv, LinksAreTrue
  <2>2. u \in Visited /\ num[u] \in Nat /\ low[u] \in Nat /\ low[v] \in Nat
    BY <1>1
  <2>3. CASE low'[u] = low[u]
    BY <2>1, <2>3
  <2>4. CASE low'[u] # low[u]
    <3>1. low'[u] = low[v] /\ low[v] <= low[u] /\ u \in calls'
      BY <1>2, <2>2, <2>4
    <3>2. Reach(graph, u, v)
      BY <1>1, <3>1 DEF SccInv, CallsReachStack
    <3>3. Reach(graph, u, w)
      BY <1>7, <3>2, ReachOn
    <3>4. low'[u] <= num[u]
      BY <2>1, <2>2, <3>1
    <3> QED
      BY <1>7, <3>1, <3>3, <3>4
  <2> QED
    BY <2>3, <2>4
<1>11. LinksAreLow'
  <2> SUFFICES ASSUME NEW e \in graph.edges \ todo, NEW g \in calls',
                      graph.pre[e] \in onStack, graph.dep[e] \in onStack,
                      Owner(g, graph.pre[e])'
               PROVE  low'[g] <= num[graph.dep[e]]
    BY <1>1 DEF LinksAreLow
  <2> DEFINE x == graph.pre[e] y == graph.dep[e]
  <2>1. /\ x \in Visited /\ y \in Visited /\ g \in calls /\ g \in Visited
        /\ num[x] \in Nat /\ num[y] \in Nat /\ num[v] \in Nat /\ num[g] \in Nat
        /\ low[g] \in Nat /\ low[v] \in Nat /\ low'[g] \in Nat
    BY <1>1, <1>2
  <2>2. num[g] <= num[x] /\ \A h \in calls' : num[h] <= num[x] => num[h] <= num[g]
    BY <1>1 DEF Owner
  <2>3. CASE num[v] <= num[x]
    <3>1. Owner(v, x)
      BY <1>1, <2>3 DEF Owner
    <3>2. low[v] <= num[y]
      BY <1>1, <3>1 DEF SccInv, LinksAreLow
    <3>3. \A h \in calls' : num[h] <= num[g]
      <4> SUFFICES ASSUME NEW h \in calls' PROVE num[h] <= num[g]
        OBVIOUS
      <4>1. num[h] < num[v] /\ num[h] \in Nat
        BY <1>1
      <4>2. num[h] <= num[x]
        BY <4>1, <2>1, <2>3
      <4> QED
        BY <4>2, <2>2
    <3>4. low'[g] <= low[v]
      BY <1>2, <2>1, <3>3
    <3> QED
      BY <2>1, <3>2, <3>4
  <2>4. CASE num[x] < num[v]
    <3>1. Owner(g, x)
      BY <1>1, <2>1, <2>2, <2>4 DEF Owner
    <3>2. low[g] <= num[y]
      BY <1>1, <2>1, <3>1 DEF SccInv, LinksAreLow
    <3>3. low'[g] <= low[g]
      BY <1>2, <2>1
    <3> QED
      BY <2>1, <3>2, <3>3
  <2> QED
    BY <2>1, <2>3, <2>4
<1> QED
  BY <1>4, <1>5, <1>6, <1>9, <1>10, <1>11 DEF SccInv


\* The link of v is v's own: what is above v on the stack is a whole component.
LEMMA ComponentIsExact ==
  ASSUME SccInv, NEW v \in Node, Return(v), low[v] = num[v]
  PROVE  /\ v \in Component(v) /\ Component(v) \subseteq onStack
         /\ \A e \in graph.edges : graph.pre[e] \in Component(v)
                                     => graph.dep[e] \in Done \cup Component(v)
         /\ \A x \in Component(v), y \in graph.nodes :
              y \in Component(v) <=> InOneCycle(graph, x, y)
<1> DEFINE C == Component(v)
<1>1. /\ v \in calls /\ \A g \in calls : num[g] <= num[v]
      /\ \A g \in calls' : g \in calls /\ num[g] < num[v]
      /\ calls \subseteq onStack /\ onStack \subseteq Visited /\ Visited \subseteq Node
      /\ \A n \in Visited : num[n] \in Nat /\ low[n] \in Nat
      /\ calls' = calls \ {v}
  BY ReturnFacts
<1>2. v \in C /\ C \subseteq onStack
  <2>1. num[v] >= num[v]
    BY <1>1
  <2> QED
    BY <1>1, <2>1 DEF Component
<1>3. Visited \subseteq graph.nodes /\ Done \subseteq graph.nodes
  BY DEF Visited, Done
<1>4. ASSUME NEW e \in graph.edges, graph.pre[e] \in C
      PROVE  graph.dep[e] \in Done \cup C
  <2> DEFINE x == graph.pre[e] y == graph.dep[e]
  <2>1. x \in onStack /\ x \in Visited /\ num[v] <= num[x]
    BY <1>1, <1>4 DEF Component
  <2>2. e \notin todo
    <3>1. SUFFICES ASSUME e \in todo PROVE FALSE
      OBVIOUS
    <3>2. x \in calls
      BY <2>1, <3>1 DEF SccInv, EdgesFollowed
    <3>3. num[x] = num[v]
      BY <1>1, <2>1, <3>2
    <3>4. x = v
      BY <1>1, <2>1, <3>3 DEF SccInv, SccShape
    <3>5. e \in todo \cap OutEdges(graph, v)
      BY <3>1, <3>4 DEF OutEdges
    <3> QED
      BY <3>5 DEF Return
  <2>3. y \in Visited
    BY <2>2 DEF SccInv, EdgesFollowed
  <2>4. CASE y \in onStack
    <3>1. Owner(v, x)
      BY <1>1, <2>1 DEF Owner
    <3>2. low[v] <= num[y]
      BY <1>1, <2>1, <2>2, <2>4, <3>1 DEF SccInv, LinksAreLow
    <3>3. num[y] >= num[v]
      BY <1>1, <2>3, <3>2
    <3> QED
      BY <2>4, <3>3 DEF Component
  <2>5. CASE y \notin onStack
    BY <2>3, <2>5 DEF Done
  <2> QED
    BY <2>4, <2>5
<1>5. ASSUME NEW x \in C PROVE Reach(graph, v, x) /\ Reach(graph, x, v)
  <2>1. x \in onStack /\ x \in Visited /\ num[v] <= num[x]
    BY <1>1, <1>5 DEF Component
  <2>2. Reach(graph, v, x)
    BY <1>1, <2>1 DEF SccInv, CallsReachStack
  <2>3. PICK g \in calls : num[g] <= num[x] /\ Reach(graph, x, g)
    BY <2>1 DEF SccInv, StackReachesCalls
  <2>4. Reach(graph, g, v)
    BY <1>1 DEF SccInv, CallsReachStack
  <2> QED
    BY <2>2, <2>3, <2>4, ReachOn
<1>6. ASSUME NEW x \in C, NEW y \in graph.nodes, InOneCycle(graph, x, y)
      PROVE  y \in C
  <2>1. Reach(graph, x, y) /\ Reach(graph, y, x)
    BY <1>6 DEF InOneCycle
  <2>2. DoneIsClosed
    BY DEF SccInv
  <2>3. \A e \in graph.edges : graph.pre[e] \in Done \cup C => graph.dep[e] \in Done \cup C
    BY <1>4, <2>2 DEF DoneIsClosed
  <2>4. Done \cup C \in SUBSET graph.nodes
    BY <1>1, <1>2, <1>3
  <2>5. y \in Done \cup C
    BY <2>1, <2>3, <2>4, ReachStays
  <2>6. CASE y \in Done
    <3>1. Done \in SUBSET graph.nodes
      BY <1>3
    <3>2. x \in Done
      BY <2>1, <2>2, <2>6, <3>1, ReachStays DEF DoneIsClosed
    <3> QED
      BY <1>2, <3>2 DEF Done
  <2> QED
    BY <2>5, <2>6
<1>7. ASSUME NEW x \in C, NEW y \in C PROVE InOneCycle(graph, x, y)
  <2>1. Reach(graph, x, v) /\ Reach(graph, v, x) /\ Reach(graph, y, v) /\ Reach(graph, v, y)
    BY <1>5, <1>7
  <2> QED
    BY <2>1, ReachOn DEF InOneCycle
<1> QED
  BY <1>2, <1>4, <1>6, <1>7

LEMMA ReturnWithComponent ==
  ASSUME SccInv, NEW v \in Node, Return(v), low[v] = num[v],
         onStack' = onStack \ Component(v), sccs' = sccs \cup {Component(v)}
  PROVE  SccInv'
<1> DEFINE C == Component(v)
<1>1. /\ v \in calls /\ \A g \in calls : num[g] <= num[v]
      /\ \A g \in calls' : g \in calls /\ num[g] < num[v]
      /\ calls \subseteq onStack /\ onStack \subseteq Visited /\ Visited \subseteq Node
      /\ \A n \in Visited : num[n] \in Nat /\ low[n] \in Nat
      /\ UNCHANGED <<graph, index, num, todo>> /\ Visited' = Visited
      /\ calls' = calls \ {v}
  BY ReturnFacts
<1>2. /\ v \in C /\ C \subseteq onStack
      /\ \A e \in graph.edges : graph.pre[e] \in C => graph.dep[e] \in Done \cup C
      /\ \A x \in C, y \in graph.nodes : y \in C <=> InOneCycle(graph, x, y)
  BY ComponentIsExact
<1>3. /\ low' \in [Node -> Nat \cup {-1}]
      /\ \A u \in Visited : low'[u] = low[u]
  <2>1. low' \in [Node -> Nat \cup {-1}]
    BY ReturnFacts
  <2>2. ASSUME NEW u \in Visited PROVE low'[u] = low[u]
    <3>1. low'[u] \in {low[u], low[v]} /\ low'[u] <= low[u] /\ (u \notin calls' => low'[u] = low[u])
      BY ReturnFacts
    <3>2. CASE u \in calls'
      <4>1. u \in onStack /\ num[u] < low[v]
        BY <1>1, <3>2
      <4>2. low[u] <= num[u]
        BY <4>1 DEF SccInv, LinksAreTrue
      <4>3. low[u] \in Nat /\ num[u] \in Nat /\ low[v] \in Nat
        BY <1>1
      <4>4. low'[u] # low[v]
        BY <3>1, <4>1, <4>2, <4>3
      <4> QED
        BY <3>1, <4>4
    <3> QED
      BY <3>1, <3>2
  <2> QED
    BY <2>1, <2>2
<1>4. /\ onStack' \subseteq onStack
      /\ \A x \in onStack : x \in onStack' <=> num[x] < num[v]
      /\ calls' \subseteq onStack'
      /\ Done' = Done \cup C
  <2>1. \A x \in onStack : x \in C <=> num[v] <= num[x]
    <3>1. \A x \in onStack : num[x] \in Nat /\ num[v] \in Nat
      BY <1>1
    <3> QED
      BY <3>1 DEF Component
  <2>2. \A x \in onStack : x \in onStack' <=> num[x] < num[v]
    <3>1. \A x \in onStack : num[x] \in Nat /\ num[v] \in Nat
      BY <1>1
    <3> QED
      BY <2>1, <3>1
  <2>3. Done' = Done \cup C
    BY <1>1, <1>2 DEF Done
  <2> QED
    BY <1>1, <2>2, <2>3
<1>5. SccShape'
  <2>1. C \in SUBSET graph.nodes
    BY <1>1, <1>2 DEF Visited
  <2>2. SccTypeOK'
    BY <1>1, <1>3, <1>4, <2>1 DEF SccInv, SccShape, SccTypeOK
  <2>3. \A n \in Visited : low'[n] \in Nat
    BY <1>1, <1>3
  <2> QED
    BY <1>1, <1>4, <2>2, <2>3 DEF SccInv, SccShape, GraphTypeOK
<1>6. EdgesFollowed'
  <2>1. todo \cap OutEdges(graph, v) = {}
    BY DEF Return
  <2>2. ASSUME NEW e \in todo, graph.pre[e] \in Visited
        PROVE  graph.pre[e] \in calls'
    <3>1. e \in graph.edges /\ graph.pre[e] \in calls
      BY <2>2 DEF SccInv, EdgesFollowed, SccShape, SccTypeOK
    <3>2. graph.pre[e] # v
      BY <2>1, <3>1 DEF OutEdges
    <3> QED
      BY <1>1, <3>1, <3>2
  <2>3. \A e \in graph.edges \ todo : graph.pre[e] \in Visited /\ graph.dep[e] \in Visited
    BY DEF SccInv, EdgesFollowed
  <2> QED
    BY <1>1, <2>2, <2>3 DEF EdgesFollowed
<1>7. DoneIsClosed'
  <2>1. \A e \in graph.edges : graph.pre[e] \in Done => graph.dep[e] \in Done
    BY DEF SccInv, DoneIsClosed
  <2> QED
    BY <1>1, <1>2, <1>4, <2>1 DEF DoneIsClosed
<1>8. CallsReachStack'
  BY <1>1, <1>4 DEF SccInv, CallsReachStack
<1>9. StackReachesCalls'
  <2> SUFFICES ASSUME NEW x \in onStack'
               PROVE  \E g \in calls' : num[g] <= num[x] /\ Reach(graph, x, g)
    BY <1>1 DEF StackReachesCalls
  <2>1. x \in onStack /\ num[x] < num[v]
    BY <1>4
  <2>2. PICK g \in calls : num[g] <= num[x] /\ Reach(graph, x, g)
    BY <2>1 DEF SccInv, StackReachesCalls
  <2>3. g # v
    BY <1>1, <2>1, <2>2
  <2> QED
    BY <1>1, <2>2, <2>3
<1>10. LinksAreTrue'
  <2> SUFFICES ASSUME NEW u \in onStack'
               PROVE  low[u] <= num[u] /\ \E x \in onStack' : num[x] = low[u] /\ Reach(graph, u, x)
    BY <1>1, <1>3, <1>4 DEF LinksAreTrue
  <2>1. u \in onStack /\ num[u] < num[v]
    BY <1>4
  <2>2. low[u] <= num[u]
    BY <2>1 DEF SccInv, LinksAreTrue
  <2>3. PICK x \in onStack : num[x] = low[u] /\ Reach(graph, u, x)
    BY <2>1 DEF SccInv, LinksAreTrue
  <2>4. num[x] < num[v]
    BY <1>1, <2>1, <2>2, <2>3
  <2> QED
    BY <1>4, <2>2, <2>3, <2>4
<1>11. LinksAreLow'
  <2> SUFFICES ASSUME NEW e \in graph.edges \ todo, NEW g \in calls',
                      graph.pre[e] \in onStack', graph.dep[e] \in onStack',
                      Owner(g, graph.pre[e])'
               PROVE  low[g] <= num[graph.dep[e]]
    BY <1>1, <1>3, <1>4 DEF LinksAreLow
  <2> DEFINE x == graph.pre[e]
  <2>1. x \in onStack /\ num[x] < num[v] /\ g \in calls
    BY <1>1, <1>4
  <2>2. Owner(g, x)
    <3>1. num[g] <= num[x] /\ \A h \in calls' : num[h] <= num[x] => num[h] <= num[g]
      BY <1>1 DEF Owner
    <3>2. ~(num[v] <= num[x])
      BY <1>1, <2>1
    <3> QED
      BY <1>1, <2>1, <3>1, <3>2 DEF Owner
  <2> QED
    BY <1>4, <2>1, <2>2 DEF SccInv, LinksAreLow
<1>12. DoneIsFound' /\ FoundIsDone'
  BY <1>4 DEF SccInv, DoneIsFound, FoundIsDone
<1>13. ComponentsAreExact'
  <2>1. ComponentsAreExact
    BY DEF SccInv
  <2> QED
    BY <1>1, <1>2, <2>1 DEF ComponentsAreExact
<1> QED
  BY <1>5, <1>6, <1>7, <1>8, <1>9, <1>10, <1>11, <1>12, <1>13 DEF SccInv

LEMMA ReturnPreserves == ASSUME SccInv, NEW v \in Node, Return(v) PROVE SccInv'
BY ReturnToCaller, ReturnWithComponent DEF Return

-----------------------------------------------------------------------------
LEMMA SccStep == ASSUME SccInv, SccNext PROVE SccInv'
BY VisitPreserves, FollowToNewPreserves, FollowToSeenPreserves, ReturnPreserves DEF SccNext

LEMMA SccStutters == ASSUME SccInv, UNCHANGED <<graph, sccVars>> PROVE SccInv'
BY DEF sccVars, SccInv, SccShape, GraphTypeOK, SccTypeOK, EdgesFollowed, DoneIsClosed,
       CallsReachStack, StackReachesCalls, LinksAreTrue, LinksAreLow, Owner, DoneIsFound,
       FoundIsDone, ComponentsAreExact, Done, Visited

\* In the end every node is in a component.
LEMMA SccResult ==
  ASSUME SccInv, SccDone
  PROVE  /\ \A x \in graph.nodes : \E C \in sccs : x \in C
         /\ \A C \in sccs : C \subseteq graph.nodes /\ C # {}
         /\ \A C \in sccs : \A x \in C, y \in graph.nodes : y \in C <=> InOneCycle(graph, x, y)
<1>1. Visited = graph.nodes
  BY DEF SccDone, Visited
<1>2. onStack = {}
  BY DEF SccInv, StackReachesCalls, SccDone
<1>3. Done = graph.nodes
  BY <1>1, <1>2 DEF Done
<1> QED
  BY <1>3 DEF SccInv, DoneIsFound, FoundIsDone, ComponentsAreExact

-----------------------------------------------------------------------------
(* The waves.                                                              *)

\* The edges to m that still hold it back.
Open(m) == {e \in graph.edges : graph.dep[e] = m /\ order[graph.pre[e]] = -1}

Pending == currentWave \cup nextWave

\* The counters are the numbers of these edges.
DegreesCount == \A m \in Node : inDegree[m] = Cardinality(Open(m))

PendingHasNoWave ==
  currentWave \cap nextWave = {} /\ \A n \in Pending : order[n] = -1

\* Exactly the nodes that nothing holds back are pending or have a wave.
FreeIsReached ==
  \A m \in graph.nodes : (m \in Pending \/ order[m] # -1) <=> Open(m) = {}

\* What has a wave has none after the present one, and what leads to the present wave an
\* earlier one.
WavesAreBounded ==
  /\ \A n \in Node : order[n] <= wave
  /\ \A e \in graph.edges : graph.dep[e] \in currentWave => order[graph.pre[e]] < wave

\* Who is pending was freed in the wave before its own.
JustFreed ==
  /\ \A n \in currentWave : wave > 0 =>
       \E e \in graph.edges : graph.dep[e] = n /\ order[graph.pre[e]] = wave - 1
  /\ \A n \in nextWave :
       \E e \in graph.edges : graph.dep[e] = n /\ order[graph.pre[e]] = wave

EndIsEnd ==
  /\ waves \in {"done", "threw"} => Pending = {}
  /\ waves = "threw" => Assigned # graph.nodes
  /\ waves = "done" => Assigned = graph.nodes

WaveInv ==
  /\ GraphTypeOK /\ WaveTypeOK /\ DegreesCount /\ PendingHasNoWave /\ FreeIsReached /\ WavesAreBounded
  /\ JustFreed /\ EndIsEnd /\ WavesRespectEdges /\ WavesAreEarliest

-----------------------------------------------------------------------------
LEMMA EdgesAreFinite == ASSUME GraphTypeOK, NEW S \in SUBSET graph.edges PROVE IsFiniteSet(S)
<1>1. S \subseteq Edge
  BY DEF GraphTypeOK, EdgesJoinNodes, WaveTypeOK, Graphs
<1> QED
  BY <1>1, GraphAssumption, FS_Subset

LEMMA WaveInitInv == WaveInit => WaveInv
<1> SUFFICES ASSUME WaveInit PROVE WaveInv
  OBVIOUS
<1>1. \A m \in Node : Open(m) = InEdges(graph, m)
  BY DEF WaveInit, GraphTypeOK, Open, InEdges, Graphs
<1>2. \A m \in Node : InEdges(graph, m) \subseteq Edge
  BY DEF WaveInit, GraphTypeOK, InEdges, Graphs
<1>3. \A m \in Node : IsFiniteSet(InEdges(graph, m))
  BY <1>2, GraphAssumption, FS_Subset
<1>4. \A m \in Node : Cardinality(InEdges(graph, m)) \in Nat
  BY <1>3, FS_CardinalityType
<1>5. GraphTypeOK /\ WaveTypeOK
  <2>1. graph \in Graphs /\ \A e \in graph.edges : graph.pre[e] \in graph.nodes /\ graph.dep[e] \in graph.nodes
    BY DEF WaveInit, GraphTypeOK, EdgesJoinNodes
  <2>2. inDegree \in [Node -> Nat]
    BY <1>4 DEF WaveInit
  <2>3. order \in [Node -> Nat \cup {-1}]
    BY DEF WaveInit, GraphTypeOK, EdgesJoinNodes
  <2> QED
    BY <2>1, <2>2, <2>3 DEF GraphTypeOK, EdgesJoinNodes, WaveTypeOK, WaveInit
<1>6. DegreesCount
  BY <1>1 DEF DegreesCount, WaveInit
<1>7. PendingHasNoWave /\ FreeIsReached
  BY <1>1 DEF PendingHasNoWave, FreeIsReached, Pending, WaveInit, GraphTypeOK, Graphs
<1>8. WavesAreBounded
  <2>1. \A n \in Node : order[n] = -1 /\ wave = 0
    BY DEF WaveInit, GraphTypeOK, EdgesJoinNodes
  <2>2. \A e \in graph.edges : graph.pre[e] \in Node
    BY DEF WaveInit, GraphTypeOK, Graphs
  <2> QED
    BY <2>1, <2>2 DEF WavesAreBounded
<1>9. JustFreed /\ EndIsEnd
  BY DEF WaveInit, JustFreed, EndIsEnd
<1>10. WavesRespectEdges /\ WavesAreEarliest
  <2>1. \A n \in graph.nodes : order[n] = -1
    BY DEF WaveInit, GraphTypeOK, Graphs
  <2>2. \A e \in graph.edges : graph.dep[e] \in graph.nodes
    BY DEF WaveInit, GraphTypeOK, EdgesJoinNodes
  <2> QED
    BY <2>1, <2>2 DEF WavesRespectEdges, WavesAreEarliest
<1> QED
  BY <1>5, <1>6, <1>7, <1>8, <1>9, <1>10 DEF WaveInv

-----------------------------------------------------------------------------
\* What processing a node does to the edges that hold others back.
LEMMA ProcessOpens ==
  ASSUME WaveInv, NEW n \in Node, ProcessNode(n)
  PROVE  /\ n \in graph.nodes /\ order[n] = -1 /\ Open(n) = {}
         /\ \A m \in Node : /\ Between(n, m) \subseteq Open(m)
                            /\ Open(m)' = Open(m) \ Between(n, m)
                            /\ Cardinality(Open(m)') = Cardinality(Open(m)) - Cardinality(Between(n, m))
                            /\ Cardinality(Open(m)') \in Nat
<1>1. n \in graph.nodes /\ order[n] = -1 /\ n \in currentWave
  BY DEF ProcessNode, WaveInv, GraphTypeOK, EdgesJoinNodes, WaveTypeOK, PendingHasNoWave, Pending
<1>2. Open(n) = {}
  BY <1>1 DEF WaveInv, FreeIsReached, Pending
<1>3. \A k \in Node : order'[k] = IF k = n THEN wave ELSE order[k]
  BY DEF ProcessNode, WaveInv, GraphTypeOK, EdgesJoinNodes, WaveTypeOK
<1>4. graph' = graph /\ wave # -1 /\ \A e \in graph.edges : graph.pre[e] \in Node
  BY DEF ProcessNode, WaveInv, GraphTypeOK, EdgesJoinNodes, WaveTypeOK, Graphs
<1>5. ASSUME NEW m \in Node
      PROVE  /\ Between(n, m) \subseteq Open(m)
             /\ Open(m)' = Open(m) \ Between(n, m)
             /\ Cardinality(Open(m)') = Cardinality(Open(m)) - Cardinality(Between(n, m))
             /\ Cardinality(Open(m)') \in Nat
  <2>1. Between(n, m) \subseteq Open(m)
    BY <1>1 DEF Between, Open
  <2>2. Open(m)' = Open(m) \ Between(n, m)
    BY <1>3, <1>4 DEF Between, Open
  <2>3. IsFiniteSet(Open(m)) /\ IsFiniteSet(Open(m) \ Between(n, m))
    <3>1. Open(m) \in SUBSET graph.edges /\ (Open(m) \ Between(n, m)) \in SUBSET graph.edges
      BY DEF Open
    <3> QED
      BY <3>1, EdgesAreFinite DEF WaveInv
  <2>4. Open(m) \cap Between(n, m) = Between(n, m)
    BY <2>1
  <2> QED
    BY <2>1, <2>2, <2>3, <2>4, FS_Difference, FS_CardinalityType
<1> QED
  BY <1>1, <1>2, <1>5

\* The nodes that become ready are those whose last open edges came from n.
LEMMA ReadyIsFreed ==
  ASSUME WaveInv, NEW n \in Node, ProcessNode(n), NEW m \in graph.nodes
  PROVE  m \in Ready(n) <=> Open(m) # {} /\ Open(m)' = {}
<1>1. m \in Node
  BY DEF WaveInv, GraphTypeOK, EdgesJoinNodes, WaveTypeOK, Graphs
<1> DEFINE card == Cardinality(Open(m)) between == Cardinality(Between(n, m))
<1>2. /\ Between(n, m) \subseteq Open(m) /\ Open(m)' = Open(m) \ Between(n, m)
      /\ Cardinality(Open(m)') = card - between /\ Cardinality(Open(m)') \in Nat
  BY <1>1, ProcessOpens
<1>3. inDegree[m] = card
  BY <1>1 DEF WaveInv, DegreesCount
<1>4. /\ IsFiniteSet(Open(m)') /\ card \in Nat /\ between \in Nat
  <2>1. Open(m) \in SUBSET graph.edges /\ Between(n, m) \in SUBSET graph.edges /\ Open(m) \ Between(n, m) \in SUBSET graph.edges
    BY DEF Open, Between
  <2> QED
    BY <2>1, <1>2, EdgesAreFinite, FS_CardinalityType DEF WaveInv
<1>5. Open(m)' = {} <=> Cardinality(Open(m)') = 0
  BY <1>4, FS_EmptySet
<1>6. Open(m)' = {} <=> card = between
  <2> HIDE DEF card, between
  <2> QED
    BY <1>2, <1>4, <1>5
<1>7. m \in Ready(n) <=> Between(n, m) # {} /\ card = between
  BY <1>3 DEF Ready
<1> QED
  BY <1>2, <1>6, <1>7

LEMMA ProcessKeeps ==
  ASSUME WaveInv, NEW n \in Node, ProcessNode(n)
  PROVE  WaveInv'
<1> DEFINE ready == Ready(n)
<1>1. /\ n \in graph.nodes /\ order[n] = -1 /\ Open(n) = {}
      /\ \A m \in Node : /\ Between(n, m) \subseteq Open(m)
                         /\ Open(m)' = Open(m) \ Between(n, m)
                         /\ Cardinality(Open(m)') = Cardinality(Open(m)) - Cardinality(Between(n, m))
                         /\ Cardinality(Open(m)') \in Nat
  BY ProcessOpens
<1>2. \A k \in Node : order'[k] = IF k = n THEN wave ELSE order[k]
  BY DEF ProcessNode, WaveInv, GraphTypeOK, EdgesJoinNodes, WaveTypeOK
<1>3. /\ graph' = graph /\ wave' = wave /\ waves' = waves /\ waves = "running"
      /\ n \in currentWave /\ currentWave' = currentWave \ {n} /\ nextWave' = nextWave \cup ready
  BY DEF ProcessNode
<1>4. /\ graph \in Graphs /\ graph.nodes \subseteq Node /\ wave \in Nat
      /\ \A e \in graph.edges : graph.pre[e] \in graph.nodes /\ graph.dep[e] \in graph.nodes
      /\ \A k \in Node : order[k] \in Nat \cup {-1}
  BY DEF WaveInv, GraphTypeOK, EdgesJoinNodes, WaveTypeOK, Graphs
<1>5. \A m \in graph.nodes : m \in ready <=> Open(m) # {} /\ Open(m)' = {}
  BY ReadyIsFreed
<1>6. ready \subseteq graph.nodes /\ \A m \in ready : order[m] = -1 /\ m # n /\ m \notin Pending
  <2>1. ready \subseteq graph.nodes
    BY DEF Ready
  <2>2. ASSUME NEW m \in ready PROVE Open(m) # {}
    BY <2>1, <1>5
  <2> HIDE DEF ready
  <2> QED
    BY <2>1, <2>2, <1>1 DEF WaveInv, FreeIsReached
<1>7. \A m \in ready : \E e \in graph.edges : graph.pre[e] = n /\ graph.dep[e] = m
  BY DEF Ready, Between
<1> HIDE DEF ready
<1>8. \A m \in Node : inDegree'[m] = Cardinality(Open(m)')
  BY <1>1 DEF ProcessNode, WaveInv, DegreesCount
<1>9. GraphTypeOK' /\ WaveTypeOK'
  <2>1. inDegree' \in [Node -> Nat]
    <3>1. inDegree' = [m \in Node |-> inDegree[m] - Cardinality(Between(n, m))]
      BY DEF ProcessNode
    <3> QED
      BY <3>1, <1>1, <1>8
  <2>2. order' \in [Node -> Nat \cup {-1}]
    BY <1>4 DEF ProcessNode, WaveInv, GraphTypeOK, EdgesJoinNodes, WaveTypeOK
  <2>3. currentWave' \subseteq graph'.nodes /\ nextWave' \subseteq graph'.nodes
    BY <1>3, <1>6 DEF WaveInv, GraphTypeOK, EdgesJoinNodes, WaveTypeOK
  <2> QED
    BY <2>1, <2>2, <2>3, <1>3, <1>4 DEF GraphTypeOK, EdgesJoinNodes, WaveTypeOK
<1>10. DegreesCount'
  BY <1>8 DEF DegreesCount
<1>11. PendingHasNoWave'
  <2>1. currentWave' \cap nextWave' = {}
    BY <1>3, <1>6 DEF WaveInv, PendingHasNoWave, Pending
  <2>2. ASSUME NEW m \in currentWave' \cup nextWave' PROVE order'[m] = -1
    <3>1. m \in Node /\ m # n /\ order[m] = -1
      BY <1>3, <1>4, <1>6 DEF WaveInv, PendingHasNoWave, Pending, GraphTypeOK, EdgesJoinNodes, WaveTypeOK
    <3> QED
      BY <3>1, <1>2
  <2> QED
    BY <2>1, <2>2 DEF PendingHasNoWave, Pending
<1>12. FreeIsReached'
  <2> SUFFICES ASSUME NEW m \in graph.nodes
               PROVE  (m \in currentWave' \cup nextWave' \/ order'[m] # -1) <=> Open(m)' = {}
    BY <1>3 DEF FreeIsReached, Pending
  <2>1. m \in Node /\ Open(m)' \subseteq Open(m)
    BY <1>1, <1>4
  <2>2. CASE m = n
    BY <2>2, <2>1, <1>1, <1>2, <1>4
  <2>3. CASE m # n
    <3>1. order'[m] = order[m]
      BY <2>1, <2>3, <1>2
    <3>2. m \in currentWave' \cup nextWave' <=> m \in Pending \/ m \in ready
      BY <2>3, <1>3 DEF Pending
    <3> QED
      BY <3>1, <3>2, <2>1, <1>5 DEF WaveInv, FreeIsReached
  <2> QED
    BY <2>2, <2>3
<1>13. WavesAreBounded'
  <2>1. \A k \in Node : order'[k] <= wave'
    BY <1>2, <1>3, <1>4 DEF WaveInv, WavesAreBounded
  <2>2. ASSUME NEW e \in graph.edges, graph.dep[e] \in currentWave'
        PROVE  order'[graph.pre[e]] < wave
    <3>1. Open(graph.dep[e]) = {} /\ graph.dep[e] \in currentWave
      BY <2>2, <1>3, <1>4 DEF WaveInv, FreeIsReached, Pending
    <3>2. order[graph.pre[e]] # -1
      BY <3>1 DEF Open
    <3> QED
      BY <3>1, <3>2, <1>1, <1>2, <1>4 DEF WaveInv, WavesAreBounded
  <2> QED
    BY <2>1, <2>2, <1>3 DEF WavesAreBounded
<1>14. ASSUME NEW k \in Node, order[k] # -1 PROVE order'[k] = order[k]
  BY <1>14, <1>1, <1>2
<1>15. JustFreed'
  <2>1. ASSUME NEW m \in currentWave', wave > 0
        PROVE  \E e \in graph.edges : graph.dep[e] = m /\ order'[graph.pre[e]] = wave - 1
    <3>1. PICK e \in graph.edges : graph.dep[e] = m /\ order[graph.pre[e]] = wave - 1
      BY <2>1, <1>3 DEF WaveInv, JustFreed
    <3> QED
      BY <3>1, <2>1, <1>4, <1>14
  <2>2. ASSUME NEW m \in nextWave'
        PROVE  \E e \in graph.edges : graph.dep[e] = m /\ order'[graph.pre[e]] = wave
    <3>1. CASE m \in nextWave
      <4>1. PICK e \in graph.edges : graph.dep[e] = m /\ order[graph.pre[e]] = wave
        BY <3>1 DEF WaveInv, JustFreed
      <4> QED
        BY <4>1, <1>4, <1>14
    <3>2. CASE m \in ready
      BY <3>2, <1>2, <1>7
    <3> QED
      BY <2>2, <3>1, <3>2, <1>3
  <2> QED
    BY <2>1, <2>2, <1>3 DEF JustFreed
<1>16. EndIsEnd'
  BY <1>3 DEF EndIsEnd
<1>17. WavesRespectEdges'
  <2> SUFFICES ASSUME NEW e \in graph.edges, order'[graph.dep[e]] # -1
               PROVE  order'[graph.pre[e]] # -1 /\ order'[graph.pre[e]] < order'[graph.dep[e]]
    BY <1>3 DEF WavesRespectEdges
  <2>1. CASE graph.dep[e] = n
    <3>1. order[graph.pre[e]] # -1
      BY <2>1, <1>1 DEF Open
    <3>2. order[graph.pre[e]] < wave
      BY <2>1, <1>3 DEF WaveInv, WavesAreBounded
    <3> QED
      BY <2>1, <3>1, <3>2, <1>2, <1>4, <1>14
  <2>2. CASE graph.dep[e] # n
    <3>1. order[graph.dep[e]] # -1 /\ order'[graph.dep[e]] = order[graph.dep[e]]
      BY <2>2, <1>2, <1>4
    <3> QED
      BY <3>1, <1>4, <1>14 DEF WaveInv, WavesRespectEdges
  <2> QED
    BY <2>1, <2>2
<1>18. WavesAreEarliest'
  <2> SUFFICES ASSUME NEW m \in graph.nodes, order'[m] > 0
               PROVE  \E e \in graph.edges : graph.dep[e] = m /\ order'[graph.pre[e]] = order'[m] - 1
    BY <1>3 DEF WavesAreEarliest
  <2>1. PICK e \in graph.edges : graph.dep[e] = m /\ order[graph.pre[e]] = order'[m] - 1
    <3>1. CASE m = n
      BY <3>1, <1>2, <1>3, <1>4 DEF WaveInv, JustFreed
    <3>2. CASE m # n
      BY <3>2, <1>2, <1>4 DEF WaveInv, WavesAreEarliest
    <3> QED
      BY <3>1, <3>2
  <2>2. order[graph.pre[e]] # -1
    BY <2>1, <1>2, <1>4
  <2> QED
    BY <2>1, <2>2, <1>4, <1>14
<1> QED
  BY <1>9, <1>10, <1>11, <1>12, <1>13, <1>15, <1>16, <1>17, <1>18 DEF WaveInv

LEMMA NextWaveKeeps ==
  ASSUME WaveInv, NextWave
  PROVE  WaveInv'
<1>1. /\ graph' = graph /\ order' = order /\ inDegree' = inDegree /\ waves' = waves
      /\ waves = "running" /\ wave' = wave + 1 /\ wave \in Nat
      /\ currentWave' = nextWave /\ nextWave' = {} /\ currentWave = {}
  BY DEF NextWave, WaveInv, GraphTypeOK, EdgesJoinNodes, WaveTypeOK
<1>2. \A m \in Node : Open(m)' = Open(m)
  BY <1>1 DEF Open
<1>3. GraphTypeOK' /\ WaveTypeOK' /\ DegreesCount' /\ PendingHasNoWave'
  BY <1>1, <1>2 DEF WaveInv, GraphTypeOK, EdgesJoinNodes, WaveTypeOK, DegreesCount, PendingHasNoWave, Pending
<1>4. FreeIsReached'
  <2>1. Pending' = Pending
    BY <1>1 DEF Pending
  <2>2. \A m \in graph.nodes : Open(m)' = Open(m)
    BY <1>2 DEF WaveInv, GraphTypeOK, EdgesJoinNodes, WaveTypeOK, Graphs
  <2> QED
    BY <2>1, <2>2, <1>1 DEF WaveInv, FreeIsReached
<1>5. WavesAreBounded'
  <2>1. \A k \in Node : order[k] \in Nat \cup {-1} /\ order[k] <= wave
    BY DEF WaveInv, GraphTypeOK, EdgesJoinNodes, WaveTypeOK, WavesAreBounded
  <2>2. \A e \in graph.edges : graph.pre[e] \in Node
    BY DEF WaveInv, GraphTypeOK, EdgesJoinNodes, WaveTypeOK, Graphs
  <2> QED
    BY <2>1, <2>2, <1>1 DEF WavesAreBounded
<1>6. JustFreed' /\ EndIsEnd'
  BY <1>1 DEF WaveInv, JustFreed, EndIsEnd
<1>7. WavesRespectEdges' /\ WavesAreEarliest'
  BY <1>1 DEF WaveInv, WavesRespectEdges, WavesAreEarliest
<1> QED
  BY <1>3, <1>4, <1>5, <1>6, <1>7 DEF WaveInv

LEMMA FinishKeeps ==
  ASSUME WaveInv, FinishWaves
  PROVE  WaveInv'
<1>1. /\ UNCHANGED <<graph, inDegree, currentWave, nextWave, wave, order>>
      /\ currentWave = {} /\ nextWave = {} /\ waves' \in {"done", "threw"}
      /\ waves' = "threw" => Assigned # graph.nodes
      /\ waves' = "done" => Assigned = graph.nodes
  BY DEF FinishWaves
<1>2. GraphTypeOK' /\ WaveTypeOK'
  BY <1>1 DEF WaveInv, GraphTypeOK, EdgesJoinNodes, WaveTypeOK
<1>3. DegreesCount' /\ PendingHasNoWave' /\ FreeIsReached' /\ WavesAreBounded' /\ JustFreed'
  BY <1>1 DEF WaveInv, DegreesCount, PendingHasNoWave, FreeIsReached, WavesAreBounded, JustFreed,
              Pending, Open
<1>4. EndIsEnd'
  BY <1>1 DEF EndIsEnd, Pending, Assigned
<1>5. WavesRespectEdges' /\ WavesAreEarliest'
  BY <1>1 DEF WaveInv, WavesRespectEdges, WavesAreEarliest
<1> QED
  BY <1>2, <1>3, <1>4, <1>5 DEF WaveInv

LEMMA WaveStutters == WaveInv /\ UNCHANGED <<graph, waveVars>> => WaveInv'
<1> SUFFICES ASSUME WaveInv, UNCHANGED <<graph, waveVars>> PROVE WaveInv'
  OBVIOUS
<1>1. UNCHANGED <<graph, inDegree, currentWave, nextWave, wave, order, waves>>
  BY DEF waveVars
<1>2. GraphTypeOK' /\ WaveTypeOK' /\ EndIsEnd'
  BY <1>1 DEF WaveInv, GraphTypeOK, EdgesJoinNodes, WaveTypeOK, EndIsEnd, Pending, Assigned
<1>3. DegreesCount' /\ PendingHasNoWave' /\ FreeIsReached' /\ WavesAreBounded' /\ JustFreed'
  BY <1>1 DEF WaveInv, DegreesCount, PendingHasNoWave, FreeIsReached, WavesAreBounded, JustFreed,
              Pending, Open
<1>4. WavesRespectEdges' /\ WavesAreEarliest'
  BY <1>1 DEF WaveInv, WavesRespectEdges, WavesAreEarliest
<1> QED
  BY <1>2, <1>3, <1>4 DEF WaveInv

LEMMA WaveInductive == WaveSpec => []WaveInv
<1>1. WaveInv /\ [WaveNext]_<<graph, waveVars>> => WaveInv'
  BY ProcessKeeps, NextWaveKeeps, FinishKeeps, WaveStutters DEF WaveNext
<1> QED
  BY <1>1, WaveInitInv, PTL DEF WaveSpec

LEMMA WavesBegin == WaveInit' => WaveInv'
BY WaveInitInv, PTL

LEMMA WaveStepKeeps == WaveInv /\ [WaveNext]_<<graph, waveVars>> => WaveInv'
BY ProcessKeeps, NextWaveKeeps, FinishKeeps, WaveStutters DEF WaveNext

\* Nothing that is in a cycle, and no edge from a node to itself.
Acyclic ==
  /\ \A e \in graph.edges : graph.pre[e] # graph.dep[e]
  /\ \A x, y \in graph.nodes : InOneCycle(graph, x, y) => x = y

\* Of the nodes that are left over take one that the fewest lead to: it waits for another one.
LEMMA AcyclicIsOrdered == ASSUME WaveInv, Acyclic PROVE waves # "threw"
<1> SUFFICES ASSUME waves = "threw" PROVE FALSE
  OBVIOUS
<1> DEFINE Rest == graph.nodes \ Assigned
           Before(n) == {m \in graph.nodes : Reach(graph, m, n)}
           T == {Before(n) : n \in Rest}
<1>1. Rest # {}
  BY DEF WaveInv, EndIsEnd, Assigned
<1>2. ASSUME NEW n \in Rest
      PROVE  \E e \in graph.edges : graph.dep[e] = n /\ graph.pre[e] \in Rest
  <2>1. Open(n) # {}
    BY DEF WaveInv, EndIsEnd, FreeIsReached, Assigned
  <2> QED
    BY <2>1 DEF Open, Assigned, WaveInv, GraphTypeOK, EdgesJoinNodes
<1>3. IsFiniteSet(graph.nodes)
  BY ItemsAssumption, FS_Subset DEF WaveInv, GraphTypeOK, Graphs
<1>4. T \subseteq SUBSET graph.nodes /\ T # {}
  BY <1>1
<1>5. PICK U \in T : \A V \in T : V \subseteq U => V = U
  <2> HIDE DEF T
  <2> QED
    BY <1>3, <1>4, MinimalSet
<1>6. PICK n \in Rest : U = Before(n)
  BY <1>5
<1>7. PICK e \in graph.edges : graph.dep[e] = n /\ graph.pre[e] \in Rest
  BY <1>2
<1> DEFINE m == graph.pre[e]
<1>8. Reach(graph, m, n)
  BY <1>7, ReachEdge
<1>9. Before(m) \subseteq Before(n)
  BY <1>8, ReachOn
<1>10. n \in Before(n)
  BY ReachSelf
<1>11. n \notin Before(m)
  BY <1>7, <1>8 DEF Acyclic, InOneCycle
<1>12. Before(m) \in T
  BY <1>7
<1> QED
  BY <1>5, <1>6, <1>9, <1>10, <1>11, <1>12

-----------------------------------------------------------------------------
(* The invariant of segment().                                             *)

\* Sets that do not divide a segment, a pair that is still to be united, a strong edge, or
\* a class of inseparable items.
KeepsSegments(Q) == \A n \in Node : n \in Q <=> Root(parent, n) \in Q
KeepsLeft(Q) == \A e \in left : e[1] \in Q <=> e[2] \in Q
KeepsStrong(Q) == \A e \in strong : e[1] \in Q <=> e[2] \in Q
KeepsWhole(Q) == \A x, y \in Node : Inseparable(x, y) => (x \in Q <=> y \in Q)

\* The segments together with the pairs that are left are what the strong edges join, and
\* after the merge pass what the strong edges and the cycles join.
UnionsAreTrue ==
  /\ passes = 0 => \A Q \in SUBSET Node : KeepsSegments(Q) /\ KeepsLeft(Q) <=> KeepsStrong(Q)
  /\ passes = 1 => \A Q \in SUBSET Node : KeepsSegments(Q) /\ KeepsLeft(Q) <=> KeepsWhole(Q)

InputTypeOK == strong \subseteq StrongPair /\ ordering \subseteq Edge

ForestInv ==
  /\ left \subseteq Node \X Node
  /\ passes \in {0, 1} /\ phase \in {"unite", "components", "waves"}
  /\ IsForest(parent, rank)

\* Once the graph is built every node points to its root, which stands for it in the graph.
GraphInv ==
  /\ GraphTypeOK
  /\ phase # "unite" => /\ left = {} /\ graph = SegmentGraph(parent)
                        /\ \A n \in Node : Root(parent, n) = parent[n]

SccIdle ==
  /\ index = 0 /\ onStack = {} /\ calls = {} /\ sccs = {} /\ todo = {}
  /\ num = [n \in Node |-> -1] /\ low = [n \in Node |-> -1]

WavesIdle ==
  /\ inDegree = [n \in Node |-> 0] /\ currentWave = {} /\ nextWave = {} /\ wave = 0
  /\ order = [n \in Node |-> -1] /\ waves = "idle"

\* Each of the two algorithms keeps its invariant while it runs.
PhaseInv ==
  /\ IF phase = "components" THEN SccInv ELSE SccIdle
  /\ IF phase = "waves" THEN WaveInv /\ Acyclic /\ SegmentsAreExact ELSE WavesIdle

SegInv == InputTypeOK /\ ForestInv /\ UnionsAreTrue /\ GraphInv /\ PhaseInv

-----------------------------------------------------------------------------
LEMMA SegInit == Init => SegInv
<1> SUFFICES ASSUME Init PROVE SegInv
  OBVIOUS
<1>1. InputTypeOK
  BY DEF Init, InputTypeOK
<1>2. IsForest(parent, rank)
  BY DEF Init, IsForest
<1>3. ForestInv
  BY <1>1, <1>2, SegmenterAssumption DEF Init, InputTypeOK, ForestInv
<1>4. \A n \in Node : Root(parent, n) = n
  BY <1>2, RootOfRoot DEF Init
<1>5. UnionsAreTrue
  BY <1>4 DEF Init, UnionsAreTrue, KeepsSegments, KeepsLeft, KeepsStrong
<1>6. GraphInv
  <2>1. NoGraph \in Graphs
    BY SegmenterAssumption DEF NoGraph, Graphs
  <2>2. EdgesJoinNodes(NoGraph)
    BY DEF NoGraph, EdgesJoinNodes
  <2> QED
    BY <2>1, <2>2 DEF Init, GraphInv, GraphTypeOK
<1>7. PhaseInv
  BY DEF Init, PhaseInv, SccIdle, WavesIdle
<1> QED
  BY <1>1, <1>3, <1>5, <1>6, <1>7 DEF SegInv

-----------------------------------------------------------------------------
(* A union takes a pair from those that are left, and adds it to the       *)
(* segments.                                                               *)

LEMMA UniteKeeps ==
  ASSUME NEW f, NEW g, NEW x \in Node, NEW y \in Node, NEW Q,
         \A n \in Node : f[n] \in Node /\ f[f[n]] = f[n],
         \A n \in Node : g[n] = IF f[n] = f[x] THEN f[y] ELSE f[n]
  PROVE  (\A n \in Node : n \in Q <=> g[n] \in Q)
           <=> (\A n \in Node : n \in Q <=> f[n] \in Q) /\ (x \in Q <=> y \in Q)
<1>1. f[x] \in Node /\ f[y] \in Node /\ f[f[x]] = f[x] /\ f[f[y]] = f[y]
  OBVIOUS
<1>2. ASSUME \A n \in Node : n \in Q <=> g[n] \in Q
      PROVE  (\A n \in Node : n \in Q <=> f[n] \in Q) /\ (x \in Q <=> y \in Q)
  <2>1. f[x] \in Q <=> f[y] \in Q
    BY <1>1, <1>2
  <2>2. \A n \in Node : g[n] \in Q <=> f[n] \in Q
    BY <2>1
  <2> QED
    BY <1>2, <2>1, <2>2
<1>3. ASSUME \A n \in Node : n \in Q <=> f[n] \in Q, x \in Q <=> y \in Q
      PROVE  \A n \in Node : n \in Q <=> g[n] \in Q
  <2>1. f[x] \in Q <=> f[y] \in Q
    BY <1>3
  <2> QED
    BY <1>3, <2>1
<1> QED
  BY <1>2, <1>3

LEMMA UnitePreserves == ASSUME SegInv, NEW e \in left, Unite(e) PROVE SegInv'
<1> DEFINE t == Union(Forest, e[1], e[2])
<1>1. /\ phase = "unite" /\ left' = left \ {e} /\ parent' = t.parent /\ rank' = t.rank
      /\ UNCHANGED <<strong, ordering, passes, phase, graph, sccVars, waveVars>>
  BY DEF Unite, inputVars
<1>2. e[1] \in Node /\ e[2] \in Node
  BY DEF SegInv, ForestInv
<1>3. IsForest(parent, rank)
  BY DEF SegInv, ForestInv
<1>4. /\ IsForest(t.parent, t.rank)
      /\ \/ \A n \in Node : Root(t.parent, n) = IF Root(parent, n) = Root(parent, e[1])
                              THEN Root(parent, e[2]) ELSE Root(parent, n)
         \/ \A n \in Node : Root(t.parent, n) = IF Root(parent, n) = Root(parent, e[2])
                              THEN Root(parent, e[1]) ELSE Root(parent, n)
  <2>1. Forest = [parent |-> Forest.parent, rank |-> Forest.rank]
        /\ Forest.parent = parent /\ Forest.rank = rank
    BY DEF Forest
  <2>2. IsForest(Forest.parent, Forest.rank)
    BY <1>3, <2>1
  <2> QED
    BY <1>2, <2>1, <2>2, UnionJoins
<1> HIDE DEF t
<1>5. \A n \in Node : Root(parent, n) \in Node /\ Root(parent, Root(parent, n)) = Root(parent, n)
  BY <1>3, RootFacts, RootOfRoot
<1>6. ASSUME NEW Q \in SUBSET Node
      PROVE  (KeepsSegments(Q) /\ KeepsLeft(Q))' <=> KeepsSegments(Q) /\ KeepsLeft(Q)
  <2>1. KeepsSegments(Q)' <=> KeepsSegments(Q) /\ (e[1] \in Q <=> e[2] \in Q)
    <3> DEFINE f == [n \in Node |-> Root(parent, n)]
               g == [n \in Node |-> Root(t.parent, n)]
    <3>1. \A n \in Node : f[n] = Root(parent, n) /\ g[n] = Root(t.parent, n)
      OBVIOUS
    <3>2. \A n \in Node : f[n] \in Node /\ f[f[n]] = f[n]
      BY <1>5
    <3>3. \/ \A n \in Node : g[n] = IF f[n] = f[e[1]] THEN f[e[2]] ELSE f[n]
          \/ \A n \in Node : g[n] = IF f[n] = f[e[2]] THEN f[e[1]] ELSE f[n]
      BY <1>2, <1>4
    <3> HIDE DEF f, g
    <3>4. (\A n \in Node : n \in Q <=> g[n] \in Q)
            <=> (\A n \in Node : n \in Q <=> f[n] \in Q) /\ (e[1] \in Q <=> e[2] \in Q)
      BY <1>2, <3>2, <3>3, UniteKeeps
    <3> QED
      BY <1>1, <3>1, <3>4 DEF KeepsSegments
  <2>2. KeepsLeft(Q) <=> KeepsLeft(Q)' /\ (e[1] \in Q <=> e[2] \in Q)
    BY <1>1 DEF KeepsLeft
  <2> QED
    BY <2>1, <2>2
<1>7. InputTypeOK' /\ ForestInv'
  BY <1>1, <1>4 DEF SegInv, InputTypeOK, ForestInv
<1>8. UnionsAreTrue'
  BY <1>1, <1>6 DEF SegInv, UnionsAreTrue, KeepsStrong, KeepsWhole, Inseparable, Stages
<1>9. GraphInv'
  BY <1>1 DEF SegInv, GraphInv, GraphTypeOK
<1>10. PhaseInv'
  BY <1>1 DEF SegInv, PhaseInv, SccIdle, WavesIdle, sccVars, waveVars
<1> QED
  BY <1>7, <1>8, <1>9, <1>10 DEF SegInv

-----------------------------------------------------------------------------
(* The graph.                                                              *)

LEMMA SegmentGraphType ==
  ASSUME NEW r \in [Node -> Node], InputTypeOK
  PROVE  SegmentGraph(r) \in Graphs /\ EdgesJoinNodes(SegmentGraph(r))
<1>1. \A e \in Edge : e[1] \in Node /\ e[2] \in Node
  BY SegmenterAssumption
<1>2. SegmentGraph(r) \in Graphs
  BY <1>1 DEF SegmentGraph, Graphs, InputTypeOK, Prerequisite, Dependent
<1>3. EdgesJoinNodes(SegmentGraph(r))
  BY <1>1 DEF SegmentGraph, EdgesJoinNodes, InputTypeOK, Prerequisite, Dependent
<1> QED
  BY <1>2, <1>3

LEMMA BuildPreserves == ASSUME SegInv, BuildGraph PROVE SegInv'
<1> DEFINE r == [n \in Node |-> Root(parent, n)]
<1>1. /\ phase = "unite" /\ left = {} /\ phase' = "components"
      /\ parent' = r /\ BeginScc(SegmentGraph(r))
      /\ UNCHANGED <<strong, ordering, left, rank, passes, waveVars>>
  BY DEF BuildGraph, inputVars
<1>2. IsForest(parent, rank)
  BY DEF SegInv, ForestInv
<1>3. r \in [Node -> Node] /\ \A n \in Node : r[n] = Root(parent, n)
  BY <1>2, RootFacts
<1>4. IsForest(r, rank) /\ \A n \in Node : Root(r, n) = r[n]
  <2> HIDE DEF r
  <2> QED
    BY <1>2, <1>3, Shortcuts
<1>5. SegmentGraph(r) \in Graphs /\ EdgesJoinNodes(SegmentGraph(r))
  <2> HIDE DEF r
  <2> QED
    BY <1>3, SegmentGraphType DEF SegInv
<1> HIDE DEF r
<1>6. InputTypeOK' /\ ForestInv'
  BY <1>1, <1>4 DEF SegInv, InputTypeOK, ForestInv
<1>7. UnionsAreTrue'
  <2>1. \A Q \in SUBSET Node : KeepsSegments(Q)' <=> KeepsSegments(Q)
    BY <1>1, <1>3, <1>4 DEF KeepsSegments
  <2> QED
    BY <1>1, <2>1 DEF SegInv, UnionsAreTrue, KeepsLeft, KeepsStrong, KeepsWhole, Inseparable, Stages
<1>8. graph' = SegmentGraph(parent') /\ SegmentGraph(parent)' = SegmentGraph(parent')
  BY <1>1 DEF BeginScc, SegmentGraph
<1>9. GraphInv'
  BY <1>1, <1>4, <1>5, <1>8 DEF GraphInv, GraphTypeOK
<1>10. SccInv'
  BY <1>1, <1>5, SccBegins
<1>11. WavesIdle'
  BY <1>1 DEF SegInv, PhaseInv, WavesIdle, waveVars
<1> QED
  BY <1>1, <1>6, <1>7, <1>9, <1>10, <1>11 DEF SegInv, PhaseInv

\* An edge of the graph leads from the segment of a prerequisite to that of its dependent.
LEMMA GraphFacts ==
  ASSUME SegInv, phase # "unite"
  PROVE  /\ left = {} /\ parent \in [Node -> Node]
         /\ \A n \in Node : Root(parent, n) = parent[n] /\ parent[parent[n]] = parent[n]
         /\ graph.nodes = {parent[n] : n \in Node}
         /\ graph.edges = {e \in ordering : parent[e[1]] # parent[e[2]]}
         /\ \A e \in ordering : /\ e[1] \in Node /\ e[2] \in Node
                                /\ graph.pre[e] = parent[e[2]] /\ graph.dep[e] = parent[e[1]]
         /\ \A e \in strong : e[1] \in Node /\ e[2] \in Node
<1>1. left = {} /\ graph = SegmentGraph(parent) /\ \A n \in Node : Root(parent, n) = parent[n]
  BY DEF SegInv, GraphInv
<1>2. IsForest(parent, rank)
  BY DEF SegInv, ForestInv
<1>3. parent \in [Node -> Node] /\ \A n \in Node : parent[parent[n]] = parent[n]
  <2>1. \A n \in Node : parent[Root(parent, n)] = Root(parent, n)
    BY <1>2, RootFacts
  <2> QED
    BY <1>1, <1>2, <2>1 DEF IsForest
<1>4. /\ graph.nodes = {parent[n] : n \in Node}
      /\ graph.edges = {e \in ordering : parent[e[1]] # parent[e[2]]}
  BY <1>1 DEF SegmentGraph
<1>5. \A e \in Edge : e[1] \in Node /\ e[2] \in Node
  BY SegmenterAssumption
<1>6. ASSUME NEW e \in ordering
      PROVE  /\ e[1] \in Node /\ e[2] \in Node
             /\ graph.pre[e] = parent[e[2]] /\ graph.dep[e] = parent[e[1]]
  <2>1. e \in Edge
    BY DEF SegInv, InputTypeOK
  <2> QED
    BY <1>1, <1>5, <2>1 DEF SegmentGraph, Prerequisite, Dependent
<1>7. \A e \in strong : e[1] \in Node /\ e[2] \in Node
  BY SegmenterAssumption DEF SegInv, InputTypeOK
<1> QED
  BY <1>1, <1>3, <1>4, <1>6, <1>7

\* Strong edges join inseparable items.
LEMMA WholeIsStrong == ASSUME SegInv, NEW Q, KeepsWhole(Q) PROVE KeepsStrong(Q)
<1>1. \A e \in strong : e[1] \in Node /\ e[2] \in Node /\ Inseparable(e[1], e[2])
  BY SegmenterAssumption DEF SegInv, InputTypeOK, Inseparable, Stages
<1> QED
  BY <1>1 DEF KeepsWhole, KeepsStrong

\* Whatever keeps inseparable items together keeps the segments, and those keep the strong edges.
LEMMA SegmentsAreBetween ==
  ASSUME SegInv, left = {}, NEW Q \in SUBSET Node
  PROVE  /\ KeepsWhole(Q) => KeepsSegments(Q)
         /\ KeepsSegments(Q) => KeepsStrong(Q)
<1>1. KeepsLeft(Q)
  BY DEF KeepsLeft
<1>2. passes = 0 => (KeepsSegments(Q) <=> KeepsStrong(Q))
  BY <1>1 DEF SegInv, UnionsAreTrue
<1>3. passes = 1 => (KeepsSegments(Q) <=> KeepsWhole(Q))
  BY <1>1 DEF SegInv, UnionsAreTrue
<1>4. passes = 0 \/ passes = 1
  BY DEF SegInv, ForestInv
<1> QED
  BY <1>2, <1>3, <1>4, WholeIsStrong

\* The unions go not too far: a segment is never divided by a stage.
LEMMA SegmentsAreWhole ==
  ASSUME SegInv, left = {}, NEW x \in Node, NEW y \in Node, SameSegment(x, y)
  PROVE  Inseparable(x, y)
<1> SUFFICES ASSUME NEW S \in Stages PROVE x \in S <=> y \in S
  BY DEF Inseparable
<1>1. S \in SUBSET Node /\ KeepsWhole(S)
  BY DEF Stages, KeepsWhole, Inseparable
<1>2. KeepsSegments(S)
  BY <1>1, SegmentsAreBetween
<1> QED
  BY <1>2 DEF KeepsSegments, SameSegment

\* A set of representatives that contains its dependents is what is missing from a stage.
LEMMA ClosedIsStage ==
  ASSUME SegInv, phase # "unite", NEW T \in Closed(graph)
  PROVE  {n \in Node : parent[n] \notin T} \in Stages
<1> DEFINE S == {n \in Node : parent[n] \notin T}
<1>1. KeepsSegments(S)
  BY GraphFacts DEF KeepsSegments
<1>2. \A e \in strong : e[1] \in S <=> e[2] \in S
  <2>1. S \in SUBSET Node
    OBVIOUS
  <2> HIDE DEF S
  <2>2. KeepsStrong(S)
    BY <1>1, <2>1, GraphFacts, SegmentsAreBetween
  <2> QED
    BY <2>2 DEF KeepsStrong
<1>3. ASSUME NEW e \in ordering, e[1] \in S PROVE e[2] \in S
  <2>1. e[1] \in Node /\ e[2] \in Node /\ graph.pre[e] = parent[e[2]] /\ graph.dep[e] = parent[e[1]]
    BY GraphFacts
  <2>2. CASE parent[e[1]] = parent[e[2]]
    BY <1>3, <2>1, <2>2
  <2>3. CASE parent[e[1]] # parent[e[2]]
    <3>1. e \in graph.edges
      BY <2>3, GraphFacts
    <3>2. parent[e[2]] \in T => parent[e[1]] \in T
      BY <2>1, <3>1 DEF Closed
    <3> QED
      BY <1>3, <2>1, <3>2
  <2> QED
    BY <2>2, <2>3
<1> QED
  BY <1>2, <1>3 DEF Stages

LEMMA StageIsClosed ==
  ASSUME SegInv, phase # "unite", NEW S \in Stages
  PROVE  /\ {a \in graph.nodes : a \notin S} \in Closed(graph)
         /\ \A n \in Node : n \in S <=> parent[n] \in S
<1> DEFINE T == {a \in graph.nodes : a \notin S}
<1>1. S \in SUBSET Node /\ KeepsWhole(S)
  BY DEF Stages, KeepsWhole, Inseparable
<1>2. \A n \in Node : n \in S <=> parent[n] \in S
  <2>1. KeepsSegments(S)
    BY <1>1, GraphFacts, SegmentsAreBetween
  <2> QED
    BY <2>1, GraphFacts DEF KeepsSegments
<1>3. ASSUME NEW e \in graph.edges, graph.pre[e] \in T PROVE graph.dep[e] \in T
  <2>1. e \in ordering
    BY GraphFacts
  <2>2. e[1] \in Node /\ e[2] \in Node /\ graph.pre[e] = parent[e[2]] /\ graph.dep[e] = parent[e[1]]
    BY <2>1, GraphFacts
  <2>3. e[2] \notin S
    BY <1>2, <1>3, <2>2
  <2>4. e[1] \notin S
    BY <2>1, <2>3 DEF Stages
  <2>5. graph.dep[e] \in graph.nodes
    BY <2>2, GraphFacts
  <2> QED
    BY <1>2, <2>2, <2>4, <2>5
<1> QED
  BY <1>2, <1>3 DEF Closed

\* Segments are in one cycle exactly when their items cannot be separated.
LEMMA CyclesAreInseparable ==
  ASSUME SegInv, phase # "unite", NEW x \in Node, NEW y \in Node
  PROVE  InOneCycle(graph, parent[x], parent[y]) <=> Inseparable(x, y)
<1>1. ASSUME NEW a \in Node, NEW b \in Node
      PROVE  Reach(graph, parent[a], parent[b]) <=> \A S \in Stages : a \notin S => b \notin S
  <2>1. ASSUME Reach(graph, parent[a], parent[b]), NEW S \in Stages, a \notin S
        PROVE  b \notin S
    <3> DEFINE T == {c \in graph.nodes : c \notin S}
    <3>1. T \in Closed(graph) /\ \A n \in Node : n \in S <=> parent[n] \in S
      BY StageIsClosed
    <3>2. parent[a] \in T
      BY <2>1, <3>1, GraphFacts
    <3> HIDE DEF T
    <3>3. parent[b] \in T
      BY <2>1, <3>1, <3>2 DEF Reach
    <3> QED
      BY <3>1, <3>3 DEF T
  <2>2. ASSUME \A S \in Stages : a \notin S => b \notin S,
               NEW T \in Closed(graph), parent[a] \in T
        PROVE  parent[b] \in T
    <3> DEFINE S == {n \in Node : parent[n] \notin T}
    <3>1. S \in Stages
      BY ClosedIsStage
    <3>2. a \notin S
      BY <2>2
    <3>3. b \notin S
      <4> HIDE DEF S
      <4> QED
        BY <2>2, <3>1, <3>2
    <3> QED
      BY <3>3
  <2> QED
    BY <2>1, <2>2 DEF Reach
<1> QED
  BY <1>1 DEF InOneCycle, Inseparable

-----------------------------------------------------------------------------
(* The components.                                                         *)

LEMMA ComponentFacts ==
  ASSUME SegInv, phase = "components", SccDone
  PROVE  /\ \A a \in graph.nodes : a \in Node /\ parent[a] = a /\ \E C \in sccs : a \in C
         /\ \A C \in sccs : /\ C \subseteq graph.nodes /\ C # {} /\ IsFiniteSet(C)
                            /\ \A a \in C, b \in graph.nodes : b \in C <=> Inseparable(a, b)
<1>1. SccInv
  BY DEF SegInv, PhaseInv
<1>2. \A a \in graph.nodes : a \in Node /\ parent[a] = a
  BY GraphFacts
<1>3. /\ \A x \in graph.nodes : \E C \in sccs : x \in C
      /\ \A C \in sccs : C \subseteq graph.nodes /\ C # {}
      /\ \A C \in sccs : \A x \in C, y \in graph.nodes : y \in C <=> InOneCycle(graph, x, y)
  BY <1>1, SccResult
<1>4. ASSUME NEW C \in sccs PROVE IsFiniteSet(C)
  <2>1. C \subseteq Node
    BY <1>2, <1>3
  <2> QED
    BY <2>1, ItemsAssumption, FS_Subset
<1>5. ASSUME NEW C \in sccs, NEW a \in C, NEW b \in graph.nodes
      PROVE  b \in C <=> Inseparable(a, b)
  <2>1. a \in graph.nodes
    BY <1>3
  <2>2. a \in Node /\ b \in Node /\ parent[a] = a /\ parent[b] = b
    BY <1>2, <2>1
  <2>3. InOneCycle(graph, a, b) <=> Inseparable(a, b)
    BY <2>2, CyclesAreInseparable
  <2> QED
    BY <1>3, <2>3
<1> QED
  BY <1>2, <1>3, <1>4, <1>5

LEMMA SmallComponent ==
  ASSUME NEW C, IsFiniteSet(C), C # {}, ~(Cardinality(C) > 1)
  PROVE  \A a, b \in C : a = b
<1>1. Cardinality(C) \in Nat /\ Cardinality(C) # 0
  BY FS_CardinalityType, FS_EmptySet
<1>2. Cardinality(C) = 1
  BY <1>1
<1> QED
  BY <1>2, FS_Singleton

LEMMA LargeComponent ==
  ASSUME NEW C, IsFiniteSet(C), Cardinality(C) > 1
  PROVE  \E a, b \in C : a # b
<1> SUFFICES ASSUME \A a, b \in C : a = b PROVE FALSE
  OBVIOUS
<1>1. Cardinality({}) = 0 /\ \A x : Cardinality({x}) = 1
  BY FS_EmptySet, FS_Singleton
<1>2. C = {} \/ \E x : C = {x}
  OBVIOUS
<1> QED
  BY <1>1, <1>2

LEMMA LeastFacts == ASSUME NEW C, C \subseteq Nat, IsFiniteSet(C), C # {} PROVE Least(C) \in C
<1> DEFINE f == [x \in C |-> x]
<1>1. \A x \in C : f[x] = x /\ f[x] \in Nat
  OBVIOUS
<1> HIDE DEF f
<1>2. PICK x \in C : \A y \in C : f[x] <= f[y]
  BY <1>1, LeastValue
<1>3. \A y \in C : x <= y
  BY <1>1, <1>2
<1> QED
  BY <1>3 DEF Least

-----------------------------------------------------------------------------
(* A merge pass.                                                           *)

\* After the merge pass there is nothing more to merge.
LEMMA OnePassIsEnough ==
  ASSUME SegInv, phase = "components", SccDone, Cycles # {}
  PROVE  passes = 0
<1>1. PICK C \in sccs : Cardinality(C) > 1
  BY DEF Cycles
<1>2. C \subseteq graph.nodes /\ IsFiniteSet(C) /\ \A a \in C, b \in graph.nodes : b \in C <=> Inseparable(a, b)
  BY ComponentFacts
<1>3. PICK a, b \in C : a # b
  BY <1>1, <1>2, LargeComponent
<1>4. a \in Node /\ b \in Node /\ parent[a] = a /\ parent[b] = b /\ Inseparable(a, b)
  BY <1>2, ComponentFacts
<1> DEFINE Q == {n \in Node : parent[n] = a}
<1>5. KeepsSegments(Q)
  BY GraphFacts DEF KeepsSegments
<1>6. a \in Q /\ b \notin Q /\ Q \in SUBSET Node
  BY <1>3, <1>4
<1> HIDE DEF Q
<1>7. KeepsLeft(Q)
  BY GraphFacts DEF KeepsLeft
<1>8. ~KeepsWhole(Q)
  BY <1>4, <1>6 DEF KeepsWhole
<1>9. passes # 1
  BY <1>5, <1>6, <1>7, <1>8 DEF SegInv, UnionsAreTrue
<1> QED
  BY <1>9 DEF SegInv, ForestInv

\* The pairs of the pass are what is missing to keep all that is inseparable together.
LEMMA PairsAreMissing ==
  ASSUME SegInv, phase = "components", SccDone, MergeCycles, NEW Q \in SUBSET Node
  PROVE  KeepsSegments(Q) /\ KeepsLeft(Q)' <=> KeepsWhole(Q)
<1>1. left' = UNION {PairsOf(C) : C \in Cycles}
  BY DEF MergeCycles
<1>2. /\ \A a \in graph.nodes : a \in Node /\ parent[a] = a /\ \E C \in sccs : a \in C
      /\ \A C \in sccs : /\ C \subseteq graph.nodes /\ C # {} /\ IsFiniteSet(C)
                         /\ \A a \in C, b \in graph.nodes : b \in C <=> Inseparable(a, b)
  BY ComponentFacts
<1>3. ASSUME NEW C \in sccs PROVE Least(C) \in C
  <2>1. C \subseteq Nat
    BY <1>2, ItemsAssumption
  <2> QED
    BY <1>2, <2>1, LeastFacts
<1>4. KeepsLeft(Q)' <=> \A C \in Cycles : \A n \in C : Least(C) \in Q <=> n \in Q
  <2>1. KeepsLeft(Q)' <=> \A C \in Cycles : \A e \in PairsOf(C) : e[1] \in Q <=> e[2] \in Q
    BY <1>1 DEF KeepsLeft
  <2>2. ASSUME NEW C \in Cycles
        PROVE  (\A e \in PairsOf(C) : e[1] \in Q <=> e[2] \in Q) <=> (\A n \in C : Least(C) \in Q <=> n \in Q)
    <3>1. ASSUME \A e \in PairsOf(C) : e[1] \in Q <=> e[2] \in Q, NEW n \in C
          PROVE  Least(C) \in Q <=> n \in Q
      <4>1. CASE n = Least(C)
        BY <4>1
      <4>2. CASE n # Least(C)
        <5>1. <<Least(C), n>> \in PairsOf(C)
          BY <4>2 DEF PairsOf
        <5> QED
          BY <3>1, <5>1
      <4> QED
        BY <4>1, <4>2
    <3>2. ASSUME \A n \in C : Least(C) \in Q <=> n \in Q, NEW e \in PairsOf(C)
          PROVE  e[1] \in Q <=> e[2] \in Q
      <4>1. PICK n \in C : e = <<Least(C), n>>
        BY DEF PairsOf
      <4> QED
        BY <3>2, <4>1
    <3> QED
      BY <3>1, <3>2
  <2> QED
    BY <2>1, <2>2
<1>5. ASSUME KeepsWhole(Q)
      PROVE  KeepsSegments(Q) /\ \A C \in Cycles : \A n \in C : Least(C) \in Q <=> n \in Q
  <2>1. KeepsSegments(Q)
    BY <1>5, GraphFacts, SegmentsAreBetween
  <2>2. ASSUME NEW C \in Cycles, NEW n \in C PROVE Least(C) \in Q <=> n \in Q
    <3>1. C \in sccs
      BY DEF Cycles
    <3>2. n \in graph.nodes /\ Least(C) \in C /\ Least(C) \in Node /\ n \in Node
      BY <1>2, <1>3, <3>1
    <3>3. Inseparable(Least(C), n)
      BY <1>2, <3>1, <3>2
    <3> QED
      BY <1>5, <3>2, <3>3 DEF KeepsWhole
  <2> QED
    BY <2>1, <2>2
<1>6. ASSUME KeepsSegments(Q), \A C \in Cycles : \A n \in C : Least(C) \in Q <=> n \in Q,
             NEW x \in Node, NEW y \in Node, Inseparable(x, y)
      PROVE  x \in Q <=> y \in Q
  <2> DEFINE a == parent[x] b == parent[y]
  <2>1. a \in graph.nodes /\ b \in graph.nodes /\ (x \in Q <=> a \in Q) /\ (y \in Q <=> b \in Q)
    BY <1>6, GraphFacts DEF KeepsSegments
  <2>2. Inseparable(a, b)
    <3>1. InOneCycle(graph, a, b)
      BY <1>6, CyclesAreInseparable
    <3>2. a \in Node /\ b \in Node /\ parent[a] = a /\ parent[b] = b
      BY <1>2, <2>1
    <3> HIDE DEF a, b
    <3> QED
      BY <3>1, <3>2, CyclesAreInseparable
  <2>3. PICK C \in sccs : a \in C
    BY <1>2, <2>1
  <2>4. b \in C
    BY <1>2, <2>1, <2>2, <2>3
  <2> HIDE DEF a, b
  <2>5. a \in Q <=> b \in Q
    <3>1. CASE Cardinality(C) > 1
      BY <1>6, <2>3, <2>4, <3>1 DEF Cycles
    <3>2. CASE ~(Cardinality(C) > 1)
      BY <1>2, <2>3, <2>4, <3>2, SmallComponent
    <3> QED
      BY <3>1, <3>2
  <2> QED
    BY <2>1, <2>5
<1> QED
  BY <1>4, <1>5, <1>6 DEF KeepsWhole

LEMMA MergePreserves == ASSUME SegInv, MergeCycles PROVE SegInv'
<1>1. /\ phase = "components" /\ SccDone /\ Cycles # {}
      /\ left' = UNION {PairsOf(C) : C \in Cycles}
      /\ passes' = passes + 1 /\ EndScc /\ phase' = "unite"
      /\ UNCHANGED <<strong, ordering, parent, rank, graph, waveVars>>
  BY DEF MergeCycles, inputVars, forestVars
<1>2. passes = 0 /\ passes' = 1
  BY <1>1, OnePassIsEnough
<1>3. left' \subseteq Node \X Node
  <2>1. ASSUME NEW C \in Cycles PROVE PairsOf(C) \subseteq Node \X Node
    <3>1. C \in sccs
      BY DEF Cycles
    <3>2. C \subseteq Node /\ C # {} /\ IsFiniteSet(C)
      BY <1>1, <3>1, ComponentFacts
    <3>3. Least(C) \in C
      BY <3>2, ItemsAssumption, LeastFacts
    <3> QED
      BY <3>2, <3>3 DEF PairsOf
  <2> QED
    BY <1>1, <2>1
<1>4. InputTypeOK' /\ ForestInv'
  BY <1>1, <1>2, <1>3 DEF SegInv, InputTypeOK, ForestInv
<1>5. UnionsAreTrue'
  <2> SUFFICES ASSUME NEW Q \in SUBSET Node
               PROVE  (KeepsSegments(Q) /\ KeepsLeft(Q))' <=> KeepsWhole(Q)'
    BY <1>2 DEF UnionsAreTrue
  <2>1. KeepsSegments(Q)' <=> KeepsSegments(Q)
    BY <1>1 DEF KeepsSegments
  <2>2. KeepsWhole(Q)' <=> KeepsWhole(Q)
    BY <1>1 DEF KeepsWhole, Inseparable, Stages
  <2>3. KeepsSegments(Q) /\ KeepsLeft(Q)' <=> KeepsWhole(Q)
    BY <1>1, PairsAreMissing
  <2> QED
    BY <2>1, <2>2, <2>3
<1>6. GraphInv'
  BY <1>1 DEF SegInv, GraphInv, GraphTypeOK
<1>7. PhaseInv'
  BY <1>1 DEF SegInv, PhaseInv, EndScc, SccLocals, SccIdle, WavesIdle, waveVars
<1> QED
  BY <1>4, <1>5, <1>6, <1>7 DEF SegInv

-----------------------------------------------------------------------------
(* The graph has no cycles: the segments are final.                        *)

LEMMA NoCyclesFacts ==
  ASSUME SegInv, phase = "components", SccDone, Cycles = {}
  PROVE  Acyclic /\ \A x, y \in Node : SameSegment(x, y) <=> Inseparable(x, y)
<1>1. /\ \A a \in graph.nodes : a \in Node /\ parent[a] = a /\ \E C \in sccs : a \in C
      /\ \A C \in sccs : /\ C \subseteq graph.nodes /\ C # {} /\ IsFiniteSet(C)
                         /\ \A a \in C, b \in graph.nodes : b \in C <=> Inseparable(a, b)
  BY ComponentFacts
<1>2. ASSUME NEW a \in graph.nodes, NEW b \in graph.nodes, Inseparable(a, b) PROVE a = b
  <2>1. PICK C \in sccs : a \in C
    BY <1>1
  <2>2. b \in C
    BY <1>1, <1>2, <2>1
  <2>3. ~(Cardinality(C) > 1)
    BY DEF Cycles
  <2> QED
    BY <1>1, <2>1, <2>2, <2>3, SmallComponent
<1>3. \A a, b \in graph.nodes : InOneCycle(graph, a, b) => a = b
  <2> SUFFICES ASSUME NEW a \in graph.nodes, NEW b \in graph.nodes, InOneCycle(graph, a, b)
               PROVE  a = b
    OBVIOUS
  <2>1. a \in Node /\ b \in Node /\ parent[a] = a /\ parent[b] = b
    BY <1>1
  <2>2. Inseparable(a, b)
    BY <2>1, CyclesAreInseparable
  <2> QED
    BY <1>2, <2>2
<1>4. \A e \in graph.edges : graph.pre[e] # graph.dep[e]
  BY GraphFacts
<1>5. ASSUME NEW x \in Node, NEW y \in Node, Inseparable(x, y) PROVE SameSegment(x, y)
  <2>1. parent[x] \in graph.nodes /\ parent[y] \in graph.nodes
    BY GraphFacts
  <2>2. InOneCycle(graph, parent[x], parent[y])
    BY <1>5, CyclesAreInseparable
  <2>3. parent[x] = parent[y]
    BY <1>3, <2>1, <2>2
  <2> QED
    BY <2>3, GraphFacts DEF SameSegment
<1>6. ASSUME NEW x \in Node, NEW y \in Node, SameSegment(x, y) PROVE Inseparable(x, y)
  BY <1>6, GraphFacts, SegmentsAreWhole
<1> QED
  BY <1>3, <1>4, <1>5, <1>6 DEF Acyclic

LEMMA NoCyclesPreserves == ASSUME SegInv, NoCycles PROVE SegInv'
<1>1. /\ phase = "components" /\ SccDone /\ Cycles = {} /\ EndScc /\ BeginWaves /\ phase' = "waves"
      /\ UNCHANGED <<strong, ordering, left, parent, rank, passes>>
  BY DEF NoCycles, inputVars, forestVars
<1>2. graph' = graph
  BY <1>1 DEF BeginWaves
<1>3. InputTypeOK' /\ ForestInv'
  BY <1>1 DEF SegInv, InputTypeOK, ForestInv
<1>4. UnionsAreTrue'
  BY <1>1 DEF SegInv, UnionsAreTrue, KeepsSegments, KeepsLeft, KeepsStrong, KeepsWhole,
              Inseparable, Stages
<1>5. SegmentGraph(parent)' = SegmentGraph(parent)
  BY <1>1 DEF SegmentGraph
<1>6. GraphInv'
  BY <1>1, <1>2, <1>5 DEF SegInv, GraphInv, GraphTypeOK
<1>7. SccIdle'
  BY <1>1 DEF EndScc, SccLocals, SccIdle
<1>8. Acyclic /\ \A x, y \in Node : SameSegment(x, y) <=> Inseparable(x, y)
  BY <1>1, NoCyclesFacts
<1>9. WaveInv'
  <2>1. WaveInit'
    BY <1>1, <1>2, <1>6 DEF BeginWaves, WaveInit, GraphInv
  <2> QED
    BY <2>1, WavesBegin
<1>10. Acyclic'
  BY <1>2, <1>8 DEF Acyclic
<1>11. SegmentsAreExact'
  BY <1>1, <1>8 DEF SegmentsAreExact, SameSegment, Inseparable, Stages
<1> QED
  BY <1>1, <1>3, <1>4, <1>6, <1>7, <1>9, <1>10, <1>11 DEF SegInv, PhaseInv

-----------------------------------------------------------------------------
(* The steps of the two algorithms.                                        *)

\* What keeps the items, the forest and the graph keeps all but the part of the phase.
LEMMA OthersKeep ==
  ASSUME SegInv, UNCHANGED <<strong, ordering, left, parent, rank, passes, phase, graph>>
  PROVE  InputTypeOK' /\ ForestInv' /\ UnionsAreTrue' /\ GraphInv'
<1>1. InputTypeOK' /\ ForestInv'
  BY DEF SegInv, InputTypeOK, ForestInv
<1>2. UnionsAreTrue'
  BY DEF SegInv, UnionsAreTrue, KeepsSegments, KeepsLeft, KeepsStrong, KeepsWhole, Inseparable, Stages
<1>3. SegmentGraph(parent)' = SegmentGraph(parent)
  BY DEF SegmentGraph
<1>4. GraphInv'
  BY <1>3 DEF SegInv, GraphInv, GraphTypeOK
<1> QED
  BY <1>1, <1>2, <1>4

LEMMA SearchPreserves == ASSUME SegInv, SearchStep PROVE SegInv'
<1>1. /\ phase = "components" /\ SccNext
      /\ UNCHANGED <<strong, ordering, left, parent, rank, passes, phase, waveVars>>
  BY DEF SearchStep, inputVars, forestVars
<1>2. graph' = graph
  BY <1>1 DEF SccNext, Visit, Return, FollowToNew, FollowToSeen
<1>3. InputTypeOK' /\ ForestInv' /\ UnionsAreTrue' /\ GraphInv'
  BY <1>1, <1>2, OthersKeep
<1>4. SccInv'
  BY <1>1, SccStep DEF SegInv, PhaseInv
<1>5. WavesIdle'
  BY <1>1 DEF SegInv, PhaseInv, WavesIdle, waveVars
<1> QED
  BY <1>1, <1>3, <1>4, <1>5 DEF SegInv, PhaseInv

LEMMA WavePreserves == ASSUME SegInv, WaveStep PROVE SegInv'
<1>1. /\ phase = "waves" /\ WaveNext
      /\ UNCHANGED <<strong, ordering, left, parent, rank, passes, phase, sccVars>>
  BY DEF WaveStep, inputVars, forestVars
<1>2. graph' = graph
  BY <1>1 DEF WaveNext, ProcessNode, NextWave, FinishWaves
<1>3. InputTypeOK' /\ ForestInv' /\ UnionsAreTrue' /\ GraphInv'
  BY <1>1, <1>2, OthersKeep
<1>4. WaveInv /\ Acyclic /\ SegmentsAreExact
  BY <1>1 DEF SegInv, PhaseInv
<1>5. WaveInv'
  BY <1>1, <1>4, WaveStepKeeps
<1>6. Acyclic' /\ SegmentsAreExact'
  BY <1>1, <1>2, <1>4 DEF Acyclic, SegmentsAreExact, SameSegment, Inseparable, Stages
<1>7. SccIdle'
  BY <1>1 DEF SegInv, PhaseInv, SccIdle, sccVars
<1> QED
  BY <1>1, <1>3, <1>5, <1>6, <1>7 DEF SegInv, PhaseInv

LEMMA SegStutters == ASSUME SegInv, UNCHANGED vars PROVE SegInv'
<1>1. UNCHANGED <<strong, ordering, left, parent, rank, passes, phase, graph>> /\ UNCHANGED sccVars
      /\ UNCHANGED waveVars
  BY DEF vars, inputVars, forestVars
<1>2. InputTypeOK' /\ ForestInv' /\ UnionsAreTrue' /\ GraphInv'
  BY <1>1, OthersKeep
<1>3. SccInv => SccInv'
  BY <1>1, SccStutters
<1>4. SccIdle => SccIdle'
  BY <1>1 DEF SccIdle, sccVars
<1>5. WaveInv => WaveInv'
  BY <1>1, WaveStepKeeps
<1>6. WavesIdle => WavesIdle'
  BY <1>1 DEF WavesIdle, waveVars
<1>7. Acyclic => Acyclic'
  BY <1>1 DEF Acyclic
<1>8. SegmentsAreExact => SegmentsAreExact'
  BY <1>1 DEF SegmentsAreExact, SameSegment, Inseparable, Stages
<1>9. PhaseInv'
  BY <1>1, <1>3, <1>4, <1>5, <1>6, <1>7, <1>8 DEF SegInv, PhaseInv
<1> QED
  BY <1>2, <1>9 DEF SegInv

LEMMA SegInductive == Spec => []SegInv
<1>1. SegInv /\ [Next \/ Ended]_vars => SegInv'
  <2> SUFFICES ASSUME SegInv, [Next \/ Ended]_vars PROVE SegInv'
    OBVIOUS
  <2>1. CASE Next
    BY <2>1, UnitePreserves, BuildPreserves, SearchPreserves, MergePreserves, NoCyclesPreserves,
       WavePreserves DEF Next
  <2>2. CASE Ended \/ UNCHANGED vars
    BY <2>2, SegStutters DEF Ended
  <2> QED
    BY <2>1, <2>2
<1> QED
  BY <1>1, SegInit, PTL DEF Spec

-----------------------------------------------------------------------------
(* Theorems about the waves, on any graph.                                 *)

\* The counters never go below zero, and only nodes of the graph are handled.
THEOREM WaveTypeCorrect == WaveSpec => []WaveTypeOK
<1>1. WaveInv => WaveTypeOK
  BY DEF WaveInv
<1> QED
  BY <1>1, WaveInductive, PTL

\* A segment has a wave only after all its prerequisites, and a later one.
THEOREM WavesAfterPrerequisites == WaveSpec => []WavesRespectEdges
<1>1. WaveInv => WavesRespectEdges
  BY DEF WaveInv
<1> QED
  BY <1>1, WaveInductive, PTL

\* No segment waits longer than it must.
THEOREM WavesNoLater == WaveSpec => []WavesAreEarliest
<1>1. WaveInv => WavesAreEarliest
  BY DEF WaveInv
<1> QED
  BY <1>1, WaveInductive, PTL

\* Whatever is left over when the assignment gives up waits for something that is left
\* over, so the graph has a cycle: the error is no false alarm.
THEOREM CycleErrorIsTrue == WaveSpec => []ThrowsOnlyForCycles
<1>1. ASSUME WaveInv, waves = "threw" PROVE ThrowsOnlyForCycles
  <2>1. Assigned \subseteq graph.nodes /\ Assigned # graph.nodes
    BY <1>1 DEF WaveInv, EndIsEnd, Assigned
  <2>2. ASSUME NEW m \in graph.nodes \ Assigned
        PROVE  \E e \in graph.edges : graph.dep[e] = m /\ graph.pre[e] \notin Assigned
    <3>1. Open(m) # {}
      BY <1>1 DEF WaveInv, EndIsEnd, FreeIsReached, Assigned
    <3> QED
      BY <3>1 DEF Open, Assigned
  <2> QED
    BY <2>1, <2>2 DEF ThrowsOnlyForCycles
<1>2. WaveInv => ThrowsOnlyForCycles
  BY <1>1 DEF ThrowsOnlyForCycles
<1> QED
  BY <1>2, WaveInductive, PTL

-----------------------------------------------------------------------------
(* Theorems about segment().                                               *)

\* Every variable keeps its type: parents and links stay within the graph, and no counter
\* becomes negative.
THEOREM TypeCorrect == Spec => []TypeOK
<1>1. ASSUME SegInv PROVE TypeOK
  <2>1. strong \subseteq StrongPair /\ ordering \subseteq Edge
    BY <1>1 DEF SegInv, InputTypeOK
  <2>2. /\ left \subseteq Node \X Node /\ passes \in Nat /\ phase \in {"unite", "components", "waves"}
        /\ parent \in [Node -> Node] /\ rank \in [Node -> Nat]
    BY <1>1 DEF SegInv, ForestInv, IsForest
  <2>3. GraphTypeOK
    BY <1>1 DEF SegInv, GraphInv
  <2>4. SccTypeOK
    <3>1. CASE phase = "components"
      BY <1>1, <3>1 DEF SegInv, PhaseInv, SccInv, SccShape
    <3>2. CASE phase # "components"
      BY <1>1, <3>2 DEF SegInv, PhaseInv, SccIdle, SccTypeOK
    <3> QED
      BY <3>1, <3>2
  <2>5. WaveTypeOK
    <3>1. CASE phase = "waves"
      BY <1>1, <3>1 DEF SegInv, PhaseInv, WaveInv
    <3>2. CASE phase # "waves"
      BY <1>1, <3>2 DEF SegInv, PhaseInv, WavesIdle, WaveTypeOK
    <3> QED
      BY <3>1, <3>2
  <2> QED
    BY <2>1, <2>2, <2>3, <2>4, <2>5 DEF TypeOK
<1>2. SegInv => TypeOK
  BY <1>1
<1> QED
  BY <1>2, SegInductive, PTL

\* Looking for the root of an item ends, whatever was united and compressed before: no item
\* is its own ancestor.
THEOREM FindAlwaysEnds == Spec => []FindEnds
<1>1. ASSUME SegInv, NEW n \in Node
      PROVE  \E r \in Path(parent, n) : parent[r] = r /\ \A s \in Path(parent, n) : parent[s] = s => s = r
  <2>1. IsForest(parent, rank)
    BY <1>1 DEF SegInv, ForestInv
  <2> QED
    BY <2>1, RootFacts
<1>2. SegInv => FindEnds
  BY <1>1 DEF FindEnds
<1> QED
  BY <1>2, SegInductive, PTL

\* At every moment of the search the components found so far are whole strongly connected
\* components of the graph of segments, and nothing else.
THEOREM ComponentsExact == Spec => []ComponentsAreExact
<1>1. SegInv => ComponentsAreExact
  BY DEF SegInv, PhaseInv, SccInv, SccIdle, ComponentsAreExact
<1> QED
  BY <1>1, SegInductive, PTL

\* The segments are exactly the classes of items that no stage of a migration separates, for
\* every graph of items and in every order of the unions.
THEOREM SegmentsExact == Spec => []SegmentsAreExact
<1>1. SegInv => SegmentsAreExact
  BY DEF SegInv, PhaseInv, SegmentsAreExact
<1> QED
  BY <1>1, SegInductive, PTL

\* One merge pass removes all cycles: the loop does not come to its circuit breaker, and the
\* assignment of waves does not fail.
THEOREM MergesOnce == Spec => []OneMergePass
<1>1. ASSUME SegInv PROVE OneMergePass
  <2>1. passes <= 1
    BY <1>1 DEF SegInv, ForestInv
  <2>2. waves # "threw"
    <3>1. CASE phase = "waves"
      BY <1>1, <3>1, AcyclicIsOrdered DEF SegInv, PhaseInv
    <3>2. CASE phase # "waves"
      BY <1>1, <3>2 DEF SegInv, PhaseInv, WavesIdle
    <3> QED
      BY <3>1, <3>2
  <2> QED
    BY <2>1, <2>2 DEF OneMergePass
<1>2. SegInv => OneMergePass
  BY <1>1
<1> QED
  BY <1>2, SegInductive, PTL

\* Segments have waves only after all their prerequisites, and later ones.
THEOREM SegmentsFollowPrerequisites == Spec => []WavesRespectEdges
<1>1. ASSUME SegInv PROVE WavesRespectEdges
  <2>1. CASE phase = "waves"
    BY <1>1, <2>1 DEF SegInv, PhaseInv, WaveInv
  <2>2. CASE phase # "waves"
    <3>1. \A n \in Node : order[n] = -1
      BY <1>1, <2>2 DEF SegInv, PhaseInv, WavesIdle
    <3>2. \A e \in graph.edges : graph.dep[e] \in Node
      BY <1>1 DEF SegInv, GraphInv, GraphTypeOK, Graphs
    <3> QED
      BY <3>1, <3>2 DEF WavesRespectEdges
  <2> QED
    BY <2>1, <2>2
<1>2. SegInv => WavesRespectEdges
  BY <1>1
<1> QED
  BY <1>2, SegInductive, PTL

\* Segments do not wait longer than their prerequisites make them.
THEOREM SegmentsWaitNoLonger == Spec => []WavesAreEarliest
<1>1. ASSUME SegInv PROVE WavesAreEarliest
  <2>1. CASE phase = "waves"
    BY <1>1, <2>1 DEF SegInv, PhaseInv, WaveInv
  <2>2. CASE phase # "waves"
    <3>1. \A n \in Node : order[n] = -1
      BY <1>1, <2>2 DEF SegInv, PhaseInv, WavesIdle
    <3>2. graph.nodes \subseteq Node
      BY <1>1 DEF SegInv, GraphInv, GraphTypeOK, Graphs
    <3> QED
      BY <3>1, <3>2 DEF WavesAreEarliest
  <2> QED
    BY <2>1, <2>2
<1>2. SegInv => WavesAreEarliest
  BY <1>1
<1> QED
  BY <1>2, SegInductive, PTL

\* What an item refers to or depends on is in its segment or in one of an earlier wave.
THEOREM PrerequisitesFirst == Spec => []ReferencedFirst
<1>1. ASSUME SegInv, waves = "done", NEW e \in ordering
      PROVE  SameSegment(e[1], e[2]) \/ MigrationOrder(e[2]) < MigrationOrder(e[1])
  <2>1. phase = "waves"
    BY <1>1 DEF SegInv, PhaseInv, WavesIdle
  <2>2. WaveInv
    BY <1>1, <2>1 DEF SegInv, PhaseInv
  <2>3. /\ e[1] \in Node /\ e[2] \in Node
        /\ graph.pre[e] = parent[e[2]] /\ graph.dep[e] = parent[e[1]]
        /\ \A n \in Node : Root(parent, n) = parent[n] /\ parent[n] \in graph.nodes
        /\ parent[e[1]] # parent[e[2]] => e \in graph.edges
    BY <1>1, <2>1, GraphFacts
  <2>4. CASE parent[e[1]] = parent[e[2]]
    BY <2>3, <2>4 DEF SameSegment
  <2>5. CASE parent[e[1]] # parent[e[2]]
    <3>1. order[parent[e[1]]] # -1 /\ order[parent[e[2]]] # -1
      BY <1>1, <2>2, <2>3 DEF WaveInv, EndIsEnd, Assigned
    <3>2. order[parent[e[2]]] < order[parent[e[1]]]
      BY <2>2, <2>3, <2>5, <3>1 DEF WaveInv, WavesRespectEdges
    <3> QED
      BY <2>3, <3>1, <3>2 DEF MigrationOrder
  <2> QED
    BY <2>4, <2>5
<1>2. SegInv => ReferencedFirst
  BY <1>1 DEF ReferencedFirst
<1> QED
  BY <1>2, SegInductive, PTL

-----------------------------------------------------------------------------
(* The cut nodes.                                                          *)

Reached == {n \in members : disc[n] # -1}
Over == Reached \ frames

\* What was reached after f and before f.  While f has a frame, the former hangs from it.
After(f) == {n \in Reached : disc[f] <= disc[n]}
Before(f) == {n \in Reached : disc[n] < disc[f]}

Con(S, x, y) == Together(adj, S, x, y)

CutShape ==
  /\ CutTypeOK
  /\ \A x, y \in members : <<x, y>> \in adj => <<y, x>> \in adj /\ x # y
  /\ frames \subseteq Reached
  /\ \A n \in Reached : disc[n] < timer /\ lowDisc[n] \in Nat
  /\ \A m, n \in Reached : disc[m] = disc[n] => m = n
  /\ \A n \in members \ Reached : from[n] = n

\* A node was reached from an earlier neighbour, and the frames from one another.
FromIsEarlier ==
  \A n \in Reached : from[n] # n =>
    from[n] \in Reached /\ <<from[n], n>> \in adj /\ disc[from[n]] < disc[n]

FramesAreAPath ==
  \A f \in frames :
    IF from[f] = f THEN \A g \in frames : disc[f] <= disc[g]
    ELSE from[f] \in frames /\ \A g \in frames : disc[g] < disc[f] => disc[g] <= disc[from[f]]

SubtreesNest == \A x \in Reached, f \in frames : disc[f] < disc[x] => disc[f] <= disc[from[x]]

EntriesTried ==
  \A x, y \in members : <<x, y>> \in adj =>
    IF <<x, y>> \in untried THEN x \in Reached => x \in frames
    ELSE x \in Reached /\ y \in Reached

\* What was reached after f hangs together, and so do the frames before f.
SubtreesHang == \A f \in frames : \A x \in After(f) : Con(After(f), x, f)

PathHangs ==
  \A g \in frames : from[g] # g =>
    \A a \in frames : disc[a] < disc[g] => Con(Before(g), a, from[g])

\* No edge leads from a node that is over to another branch of the tree.
OverIsFenced ==
  \A x, y \in members : <<x, y>> \in adj /\ x \in Over /\ y \in Reached /\ disc[x] < disc[y] =>
    \A f \in frames : disc[f] <= disc[x] \/ disc[y] < disc[f]

\* The frame on whose behalf x was reached.
HangsFrom(g, x) ==
  g \in frames /\ disc[g] <= disc[x] /\ \A f \in frames : disc[f] <= disc[x] => disc[f] <= disc[g]

\* A low is the number of a frame that an edge from below leads to ...
LowsAreTrue ==
  \A f \in frames :
    /\ lowDisc[f] <= disc[f]
    /\ lowDisc[f] # disc[f] =>
         \E x \in After(f), g \in frames : <<x, g>> \in adj /\ disc[g] = lowDisc[f]

\* ... and as low as any such edge does, but for the one by which a node was reached.
LowsAreLow ==
  \A x, y \in members : <<x, y>> \in adj /\ <<x, y>> \notin untried /\ y \in frames /\ y # from[x] =>
    \A g \in frames : HangsFrom(g, x) => lowDisc[g] <= disc[y]

\* What hangs from a frame hangs, without it, from one of its children that is over.
ChildrenHold ==
  \A g \in frames, x \in Reached : HangsFrom(g, x) /\ x # g =>
    \E n \in Over : from[n] = g /\ n # g /\ Con(members \ {g}, x, n)

\* What is known of a child when it is over.
ChildReturns(n, p) == from[p] # p /\ p \notin cut => Con(members \ {p}, n, from[p])
ChildrenReturn == \A n \in Over : from[n] # n => ChildReturns(n, from[n])

RootChildrenApart ==
  \A m, n \in Over : \A r \in members :
    from[m] = r /\ from[n] = r /\ from[r] = r /\ m # r /\ n # r /\ m # n => ~Con(members \ {r}, m, n)

NoneIsMissed == \A n \in Over : n \notin cut => ~Splits(adj, members, n)
CutsAreTrue == \A n \in cut : Splits(adj, members, n)

TreeInv == FromIsEarlier /\ FramesAreAPath /\ SubtreesNest /\ EntriesTried
HangInv == SubtreesHang /\ PathHangs /\ OverIsFenced /\ ChildrenHold
LowInv == LowsAreTrue /\ LowsAreLow
ResultInv == ChildrenReturn /\ RootChildrenApart /\ NoneIsMissed /\ CutsAreTrue
CutInv == CutShape /\ TreeInv /\ HangInv /\ LowInv /\ ResultInv

-----------------------------------------------------------------------------
(* Being together.                                                         *)

LEMMA TogetherSelf == \A E, S, x : Together(E, S, x, x)
BY DEF Together

LEMMA TogetherBack == \A E, S, x, y : Together(E, S, x, y) => Together(E, S, y, x)
BY DEF Together

LEMMA TogetherOn ==
  \A E, S, x, y, z : Together(E, S, x, y) /\ Together(E, S, y, z) => Together(E, S, x, z)
BY DEF Together

LEMMA TogetherEdge ==
  ASSUME NEW E, NEW S, NEW x \in S, NEW y \in S, <<x, y>> \in E
  PROVE  Together(E, S, x, y)
<1> SUFFICES ASSUME NEW U \in SUBSET S,
                    \A e \in E : {e[1], e[2]} \subseteq S => (e[1] \in U <=> e[2] \in U)
             PROVE  x \in U <=> y \in U
  BY DEF Together
<1> QED
  OBVIOUS

LEMMA TogetherInMore ==
  ASSUME NEW E, NEW S, NEW T, S \subseteq T, NEW x \in S, NEW y \in S, Together(E, S, x, y)
  PROVE  Together(E, T, x, y)
<1> SUFFICES ASSUME NEW U \in SUBSET T,
                    \A e \in E : {e[1], e[2]} \subseteq T => (e[1] \in U <=> e[2] \in U)
             PROVE  x \in U <=> y \in U
  BY DEF Together
<1>1. \A e \in E : {e[1], e[2]} \subseteq S => (e[1] \in U \cap S <=> e[2] \in U \cap S)
  OBVIOUS
<1> QED
  BY <1>1 DEF Together

\* A node whose neighbours hang together without it is no cut node.
LEMMA NotSplit ==
  ASSUME NEW E, NEW S, NEW p \in S, NEW q,
         \A e \in E : {e[1], e[2]} \subseteq S /\ e[1] # e[2] =>
                        /\ e[1] = p => Together(E, S \ {p}, e[2], q)
                        /\ e[2] = p => Together(E, S \ {p}, e[1], q)
  PROVE  ~Splits(E, S, p)
<1> SUFFICES ASSUME NEW x \in S \ {p}, NEW y \in S \ {p}, Together(E, S, x, y),
                    NEW U \in SUBSET (S \ {p}),
                    \A e \in E : {e[1], e[2]} \subseteq S \ {p} => (e[1] \in U <=> e[2] \in U)
             PROVE  x \in U <=> y \in U
  BY DEF Splits, Together
<1> DEFINE V == IF q \in U THEN U \cup {p} ELSE U
<1>1. ASSUME NEW e \in E, {e[1], e[2]} \subseteq S PROVE e[1] \in V <=> e[2] \in V
  <2>1. CASE e[1] # p /\ e[2] # p
    BY <1>1, <2>1
  <2>2. CASE e[1] = p /\ e[2] # p
    <3>1. e[2] \in U <=> q \in U
      BY <1>1, <2>2 DEF Together
    <3> QED
      BY <3>1, <2>2
  <2>3. CASE e[1] # p /\ e[2] = p
    <3>1. e[1] \in U <=> q \in U
      BY <1>1, <2>3 DEF Together
    <3> QED
      BY <3>1, <2>3
  <2>4. CASE e[1] = p /\ e[2] = p
    BY <2>4
  <2> QED
    BY <2>1, <2>2, <2>3, <2>4
<1>2. V \in SUBSET S
  OBVIOUS
<1>3. x \in V <=> y \in V
  <2> HIDE DEF V
  <2> QED
    BY <1>1, <1>2 DEF Together
<1> QED
  BY <1>3

\* A node with neighbours that do not is one.
LEMMA SplitsNeighbours ==
  ASSUME NEW E, NEW S, NEW p \in S, NEW a \in S \ {p}, NEW b \in S \ {p},
         <<p, a>> \in E, <<p, b>> \in E, ~Together(E, S \ {p}, a, b)
  PROVE  Splits(E, S, p)
<1>1. Together(E, S, p, a) /\ Together(E, S, p, b)
  BY TogetherEdge
<1>2. Together(E, S, a, b)
  BY <1>1, TogetherBack, TogetherOn
<1> QED
  BY <1>2 DEF Splits

LEMMA ApartByFence ==
  ASSUME NEW E, NEW S, NEW U \in SUBSET S, NEW a \in U, NEW b, b \notin U,
         \A e \in E : {e[1], e[2]} \subseteq S => (e[1] \in U <=> e[2] \in U)
  PROVE  ~Together(E, S, a, b)
BY DEF Together
-----------------------------------------------------------------------------
LEMMA CutBegins ==
  ASSUME NEW S, S \subseteq Node, NEW edges, BeginCut(S, edges)
  PROVE  CutInv'
<1>1. /\ members' = S /\ adj' = Adjacency(S, edges) /\ untried' = adj'
      /\ timer' = 0 /\ frames' = {} /\ cut' = {}
      /\ disc' = [n \in Node |-> -1] /\ lowDisc' = [n \in Node |-> -1] /\ from' = [n \in Node |-> n]
  BY DEF BeginCut
<1>2. Reached' = {} /\ Over' = {}
  BY <1>1 DEF Reached, Over
<1>3. adj' \subseteq S \X S /\ \A x, y \in S : <<x, y>> \in adj' => <<y, x>> \in adj' /\ x # y
  BY <1>1 DEF Adjacency
<1>4. CutShape'
  <2>1. CutTypeOK'
    BY <1>1, <1>3 DEF CutTypeOK
  <2> QED
    BY <1>1, <1>2, <1>3, <2>1 DEF CutShape
<1>5. TreeInv'
  BY <1>1, <1>2 DEF TreeInv, FromIsEarlier, FramesAreAPath, SubtreesNest, EntriesTried
<1>6. HangInv'
  BY <1>1, <1>2 DEF HangInv, SubtreesHang, PathHangs, OverIsFenced, ChildrenHold
<1>7. LowInv'
  BY <1>1, <1>2 DEF LowInv, LowsAreTrue, LowsAreLow
<1>8. ResultInv'
  BY <1>1, <1>2 DEF ResultInv, ChildrenReturn, RootChildrenApart, NoneIsMissed, CutsAreTrue
<1> QED
  BY <1>4, <1>5, <1>6, <1>7, <1>8 DEF CutInv

-----------------------------------------------------------------------------
(* A node is reached.                                                      *)

LEMMA ShapeFacts ==
  ASSUME CutInv
  PROVE  /\ members \subseteq Node /\ frames \subseteq Reached /\ Reached \subseteq members
         /\ timer \in Nat
         /\ \A n \in Reached : disc[n] \in Nat /\ disc[n] < timer /\ lowDisc[n] \in Nat
         /\ \A m, n \in Reached : disc[m] = disc[n] => m = n
         /\ \A n \in Node : from[n] \in Node
BY DEF CutInv, CutShape, CutTypeOK, Reached

\* A step that reaches w from p, or as a root.
ReachStep(w, p) ==
  /\ w \in members /\ disc[w] = -1 /\ Discover(w, p)
  /\ UNCHANGED <<members, adj, cut>>
  /\ \/ p = w /\ frames = {} /\ untried' = untried
     \/ Last(frames, p) /\ <<p, w>> \in untried /\ untried' = untried \ {<<p, w>>}

\* What the step does.
ReachMeans(w, p) ==
  /\ w \in Node /\ w \notin Reached /\ w \notin frames /\ p \in Node
  /\ disc'[w] = timer /\ lowDisc'[w] = timer /\ from'[w] = p
  /\ \A n \in Reached : /\ n \in Node /\ n # w
                        /\ disc'[n] = disc[n] /\ lowDisc'[n] = lowDisc[n] /\ from'[n] = from[n]
  /\ Reached' = Reached \cup {w} /\ Over' = Over /\ frames' = frames \cup {w}
  /\ timer' = timer + 1 /\ members' = members /\ adj' = adj /\ cut' = cut
  /\ p # w => p \in frames /\ (\A f \in frames : disc[f] <= disc[p]) /\ <<p, w>> \in adj
  /\ p = w => frames = {}

LEMMA ReachFacts ==
  ASSUME CutInv, NEW w, NEW p, ReachStep(w, p)
  PROVE  ReachMeans(w, p)
<1>1. w \in Node /\ w \in members /\ w \notin Reached /\ w \notin frames
  BY ShapeFacts DEF ReachStep, Reached
<1>2. p \in Node /\ (p # w => p \in frames /\ (\A f \in frames : disc[f] <= disc[p]) /\ <<p, w>> \in adj)
  BY <1>1, ShapeFacts DEF ReachStep, Last, CutInv, CutShape, CutTypeOK
<1>3. p = w => frames = {}
  BY <1>1 DEF ReachStep, Last
<1>4. /\ disc \in [Node -> Nat \cup {-1}] /\ lowDisc \in [Node -> Nat \cup {-1}]
      /\ from \in [Node -> Node]
  BY DEF CutInv, CutShape, CutTypeOK
<1>5. /\ disc'[w] = timer /\ lowDisc'[w] = timer /\ from'[w] = p
      /\ \A n \in Node : n # w => disc'[n] = disc[n] /\ lowDisc'[n] = lowDisc[n] /\ from'[n] = from[n]
      /\ frames' = frames \cup {w} /\ timer' = timer + 1
  BY <1>1, <1>4 DEF ReachStep, Discover
<1>6. members' = members /\ adj' = adj /\ cut' = cut
  BY DEF ReachStep
<1>7. timer # -1
  BY ShapeFacts
<1>8. Reached' = Reached \cup {w}
  BY <1>1, <1>5, <1>6, <1>7, ShapeFacts DEF Reached
<1>9. Over' = Over
  BY <1>1, <1>5, <1>8 DEF Over
<1> QED
  BY <1>1, <1>2, <1>3, <1>5, <1>6, <1>8, <1>9, ShapeFacts DEF ReachMeans

LEMMA ReachKeepsShape ==
  ASSUME CutInv, NEW w, NEW p, ReachStep(w, p)
  PROVE  CutShape'
<1>0. ReachMeans(w, p)
  BY ReachFacts
<1> USE <1>0 DEF ReachMeans
<1>1. CutTypeOK'
  <2>1. disc' \in [Node -> Nat \cup {-1}] /\ lowDisc' \in [Node -> Nat \cup {-1}] /\ from' \in [Node -> Node]
    BY DEF CutInv, CutShape, CutTypeOK, ReachStep, Discover
  <2>2. timer' \in Nat
    BY ShapeFacts
  <2>3. frames' \subseteq members' /\ untried' \subseteq adj' /\ w \in members
    BY DEF CutInv, CutShape, CutTypeOK, ReachStep
  <2> QED
    BY <2>1, <2>2, <2>3 DEF CutInv, CutShape, CutTypeOK
<1>2. \A n \in Reached' : disc'[n] < timer' /\ lowDisc'[n] \in Nat
  BY ShapeFacts
<1>3. \A m, n \in Reached' : disc'[m] = disc'[n] => m = n
  BY ShapeFacts
<1>4. frames' \subseteq Reached'
  BY ShapeFacts
<1>5. \A x, y \in members' : <<x, y>> \in adj' => <<y, x>> \in adj' /\ x # y
  BY DEF CutInv, CutShape
<1>6. \A n \in members' \ Reached' : from'[n] = n
  BY DEF CutInv, CutShape, CutTypeOK, ReachStep, Discover
<1> QED
  BY <1>1, <1>2, <1>3, <1>4, <1>5, <1>6 DEF CutShape

LEMMA ReachKeepsTree ==
  ASSUME CutInv, NEW w, NEW p, ReachStep(w, p)
  PROVE  TreeInv'
<1>0. ReachMeans(w, p)
  BY ReachFacts
<1> USE <1>0, ShapeFacts DEF ReachMeans
<1>1. FromIsEarlier'
  <2> SUFFICES ASSUME NEW n \in Reached', from'[n] # n
               PROVE  from'[n] \in Reached' /\ <<from'[n], n>> \in adj /\ disc'[from'[n]] < disc'[n]
    BY DEF FromIsEarlier
  <2>1. CASE n = w
    BY <2>1
  <2>2. CASE n # w
    BY <2>2 DEF CutInv, TreeInv, FromIsEarlier
  <2> QED
    BY <2>1, <2>2
<1>2. FramesAreAPath'
  <2> SUFFICES ASSUME NEW f \in frames'
               PROVE  IF from'[f] = f THEN \A g \in frames' : disc'[f] <= disc'[g]
                      ELSE from'[f] \in frames' /\ \A g \in frames' : disc'[g] < disc'[f] => disc'[g] <= disc'[from'[f]]
    BY DEF FramesAreAPath
  <2>1. CASE f = w /\ p = w
    BY <2>1
  <2>2. CASE f = w /\ p # w
    BY <2>2
  <2>3. CASE f # w
    <3>1. f \in frames /\ f \in Reached /\ from'[f] = from[f] /\ disc'[f] = disc[f] /\ disc[f] < timer
      BY <2>3
    <3>2. CASE from[f] = f
      BY <3>1, <3>2 DEF CutInv, TreeInv, FramesAreAPath
    <3>3. CASE from[f] # f
      <4>1. from[f] \in frames /\ \A g \in frames : disc[g] < disc[f] => disc[g] <= disc[from[f]]
        BY <3>1, <3>3 DEF CutInv, TreeInv, FramesAreAPath
      <4> QED
        BY <3>1, <3>3, <4>1
    <3> QED
      BY <3>2, <3>3
  <2> QED
    BY <2>1, <2>2, <2>3
<1>3. SubtreesNest'
  <2> SUFFICES ASSUME NEW x \in Reached', NEW f \in frames', disc'[f] < disc'[x]
               PROVE  disc'[f] <= disc'[from'[x]]
    BY DEF SubtreesNest
  <2>1. f # w
    OBVIOUS
  <2>2. CASE x = w
    BY <2>1, <2>2
  <2>3. CASE x # w
    <3>1. disc[f] <= disc[from[x]]
      BY <2>1, <2>3 DEF CutInv, TreeInv, SubtreesNest
    <3>2. from[x] \in Reached
      BY <2>3 DEF CutInv, TreeInv, FromIsEarlier
    <3> QED
      BY <2>1, <2>3, <3>1, <3>2
  <2> QED
    BY <2>2, <2>3
<1>4. EntriesTried'
  <2> SUFFICES ASSUME NEW x \in members, NEW y \in members, <<x, y>> \in adj
               PROVE  IF <<x, y>> \in untried' THEN x \in Reached' => x \in frames'
                      ELSE x \in Reached' /\ y \in Reached'
    BY DEF EntriesTried
  <2>1. CASE <<x, y>> \in untried'
    BY <2>1 DEF CutInv, TreeInv, EntriesTried, ReachStep
  <2>2. CASE <<x, y>> \notin untried' /\ <<x, y>> \notin untried
    BY <2>2 DEF CutInv, TreeInv, EntriesTried
  <2>3. CASE <<x, y>> \notin untried' /\ <<x, y>> \in untried
    <3>1. x = p /\ y = w /\ p \in frames
      BY <2>3 DEF ReachStep, Last
    <3> QED
      BY <3>1, <2>3
  <2> QED
    BY <2>1, <2>2, <2>3
<1> QED
  BY <1>1, <1>2, <1>3, <1>4 DEF TreeInv

LEMMA ReachKeepsHangs ==
  ASSUME CutInv, NEW w, NEW p, ReachStep(w, p)
  PROVE  HangInv'
<1>0. ReachMeans(w, p)
  BY ReachFacts
<1> USE <1>0, ShapeFacts DEF ReachMeans
<1>1. /\ \A f \in frames : After(f) \subseteq After(f)' /\ \A x \in After(f)' : x = w \/ x \in After(f)
      /\ \A f \in Reached : Before(f)' = Before(f)
      /\ After(w)' = {w} /\ Before(w)' = Reached
  BY DEF After, Before
<1>2. \A S, x, y : Con(S, x, y)' = Con(S, x, y)
  BY DEF Con
<1>3. SubtreesHang'
  <2> SUFFICES ASSUME NEW f \in frames', NEW x \in After(f)'
               PROVE  Con(After(f)', x, f)
    BY <1>2 DEF SubtreesHang
  <2>1. CASE x = f
    BY <2>1, TogetherSelf DEF Con
  <2>2. CASE x # f /\ x # w
    <3>1. f \in frames /\ x \in After(f) /\ f \in After(f)
      BY <2>2, <1>1 DEF After
    <3>2. Con(After(f), x, f)
      BY <3>1 DEF CutInv, HangInv, SubtreesHang
    <3> QED
      BY <3>1, <3>2, <1>1, TogetherInMore DEF Con
  <2>3. CASE x # f /\ x = w
    <3>1. f \in frames /\ p \in frames /\ p \in After(f) /\ f \in After(f) /\ <<p, w>> \in adj
      BY <2>3 DEF After
    <3>2. Con(After(f), p, f)
      BY <3>1 DEF CutInv, HangInv, SubtreesHang
    <3>3. Con(After(f)', p, f)
      BY <3>1, <3>2, <1>1, TogetherInMore DEF Con
    <3>4. Con(After(f)', p, w)
      BY <3>1, <2>3, <1>1, TogetherEdge DEF Con
    <3> QED
      BY <3>3, <3>4, <2>3, TogetherBack, TogetherOn DEF Con
  <2> QED
    BY <2>1, <2>2, <2>3
<1>4. PathHangs'
  <2> SUFFICES ASSUME NEW g \in frames', from'[g] # g, NEW a \in frames', disc'[a] < disc'[g]
               PROVE  Con(Before(g)', a, from'[g])
    BY <1>2 DEF PathHangs
  <2>1. CASE g = w
    <3>1. a \in frames /\ p \in frames /\ p \in After(a) /\ a \in After(a) /\ from'[g] = p
      BY <2>1 DEF After
    <3>2. Con(After(a), p, a)
      BY <3>1 DEF CutInv, HangInv, SubtreesHang
    <3>3. After(a) \subseteq Before(g)'
      BY <2>1, <1>1 DEF After
    <3>4. Con(Before(g)', p, a)
      BY <3>1, <3>2, <3>3, TogetherInMore DEF Con
    <3> QED
      BY <3>1, <3>4, TogetherBack DEF Con
  <2>2. CASE g # w
    <3>1. a \in frames /\ g \in frames /\ disc[a] < disc[g] /\ from[g] # g /\ from'[g] = from[g]
      BY <2>2
    <3> QED
      BY <3>1, <1>1 DEF CutInv, HangInv, PathHangs
  <2> QED
    BY <2>1, <2>2
<1>5. OverIsFenced'
  <2> SUFFICES ASSUME NEW x \in members, NEW y \in members, <<x, y>> \in adj, x \in Over, y \in Reached',
                      disc'[x] < disc'[y], NEW f \in frames'
               PROVE  disc'[f] <= disc'[x] \/ disc'[y] < disc'[f]
    BY DEF OverIsFenced
  <2>1. y \in Reached
    BY DEF CutInv, TreeInv, EntriesTried, Over
  <2>2. x \in Reached
    BY DEF Over
  <2>3. CASE f = w
    BY <2>1, <2>3
  <2>4. CASE f # w
    BY <2>1, <2>2, <2>4 DEF CutInv, HangInv, OverIsFenced
  <2> QED
    BY <2>3, <2>4
<1>6. ChildrenHold'
  <2> SUFFICES ASSUME NEW g \in frames', NEW x \in Reached', HangsFrom(g, x)', x # g
               PROVE  \E n \in Over : from'[n] = g /\ n # g /\ Con(members \ {g}, x, n)
    BY <1>2 DEF ChildrenHold
  <2>1. x # w
    BY DEF HangsFrom
  <2>2. g # w /\ g \in frames /\ x \in Reached
    BY <2>1 DEF HangsFrom
  <2>3. HangsFrom(g, x)
    BY <2>2 DEF HangsFrom
  <2>4. PICK n \in Over : from[n] = g /\ n # g /\ Con(members \ {g}, x, n)
    BY <2>2, <2>3 DEF CutInv, HangInv, ChildrenHold
  <2>5. from'[n] = g
    BY <2>4 DEF Over
  <2> QED
    BY <2>4, <2>5
<1> QED
  BY <1>3, <1>4, <1>5, <1>6 DEF HangInv

LEMMA ReachKeepsLows ==
  ASSUME CutInv, NEW w, NEW p, ReachStep(w, p)
  PROVE  LowInv'
<1>0. ReachMeans(w, p)
  BY ReachFacts
<1> USE <1>0, ShapeFacts DEF ReachMeans
<1>1. LowsAreTrue'
  <2> SUFFICES ASSUME NEW f \in frames'
               PROVE  /\ lowDisc'[f] <= disc'[f]
                      /\ lowDisc'[f] # disc'[f] =>
                           \E x \in After(f)', g \in frames' : <<x, g>> \in adj /\ disc'[g] = lowDisc'[f]
    BY DEF LowsAreTrue
  <2>1. CASE f = w
    BY <2>1
  <2>2. CASE f # w
    <3>1. f \in frames /\ lowDisc'[f] = lowDisc[f] /\ disc'[f] = disc[f]
      BY <2>2
    <3>2. lowDisc[f] <= disc[f]
      BY <3>1 DEF CutInv, LowInv, LowsAreTrue
    <3>3. ASSUME lowDisc[f] # disc[f]
          PROVE  \E x \in After(f)', g \in frames' : <<x, g>> \in adj /\ disc'[g] = lowDisc[f]
      <4>1. PICK x \in After(f), g \in frames : <<x, g>> \in adj /\ disc[g] = lowDisc[f]
        BY <3>1, <3>3 DEF CutInv, LowInv, LowsAreTrue
      <4>2. x \in After(f)' /\ g \in frames' /\ disc'[g] = disc[g]
        BY <3>1, <4>1 DEF After
      <4> QED
        BY <4>1, <4>2
    <3> QED
      BY <3>1, <3>2, <3>3
  <2> QED
    BY <2>1, <2>2
<1>2. LowsAreLow'
  <2> SUFFICES ASSUME NEW x \in members, NEW y \in members, <<x, y>> \in adj, <<x, y>> \notin untried',
                      y \in frames', y # from'[x], NEW g \in frames', HangsFrom(g, x)'
               PROVE  lowDisc'[g] <= disc'[y]
    BY DEF LowsAreLow
  <2>1. CASE <<x, y>> \in untried
    <3>1. x = p /\ y = w /\ p \in frames
      BY <2>1 DEF ReachStep, Last
    <3>2. x # w /\ g = x
      <4>1. p \in frames' /\ disc'[p] <= disc'[x] /\ disc'[g] <= disc'[x] /\ disc'[p] <= disc'[g]
        BY <3>1 DEF HangsFrom
      <4> QED
        BY <3>1, <4>1
    <3>3. lowDisc[g] <= disc[g]
      BY <3>1, <3>2 DEF CutInv, LowInv, LowsAreTrue
    <3> QED
      BY <3>1, <3>2, <3>3
  <2>2. CASE <<x, y>> \notin untried
    <3>1. x \in Reached /\ y \in Reached
      BY <2>2 DEF CutInv, TreeInv, EntriesTried
    <3>2. g # w
      BY <3>1 DEF HangsFrom
    <3>3. y \in frames /\ g \in frames /\ y # from[x]
      BY <3>1, <3>2
    <3>4. HangsFrom(g, x)
      BY <3>1, <3>3 DEF HangsFrom
    <3>5. lowDisc[g] <= disc[y]
      BY <2>2, <3>3, <3>4 DEF CutInv, LowInv, LowsAreLow
    <3> QED
      BY <3>1, <3>3, <3>5
  <2> QED
    BY <2>1, <2>2
<1> QED
  BY <1>1, <1>2 DEF LowInv

LEMMA ReachKeepsResults ==
  ASSUME CutInv, NEW w, NEW p, ReachStep(w, p)
  PROVE  ResultInv'
<1>0. ReachMeans(w, p)
  BY ReachFacts
<1> USE <1>0, ShapeFacts DEF ReachMeans
<1>1. \A n \in Over : n \in Reached /\ from'[n] = from[n]
  BY DEF Over
<1>2. \A n \in Over : from[n] # n => from[n] \in Reached /\ from'[from[n]] = from[from[n]]
  BY <1>1 DEF CutInv, TreeInv, FromIsEarlier
<1>3. \A S, x, y : Con(S, x, y)' = Con(S, x, y)
  BY DEF Con
<1>4. ChildrenReturn'
  BY <1>1, <1>2, <1>3 DEF ChildrenReturn, ChildReturns, CutInv, ResultInv
<1>5. RootChildrenApart'
  <2> SUFFICES ASSUME NEW m \in Over, NEW n \in Over, NEW r \in members,
                      from'[m] = r, from'[n] = r, from'[r] = r, m # r, n # r, m # n
               PROVE  ~Con(members \ {r}, m, n)
    BY <1>3 DEF RootChildrenApart
  <2>1. from[m] = r /\ from[n] = r /\ from[r] = r
    BY <1>1, <1>2
  <2> QED
    BY <2>1 DEF CutInv, ResultInv, RootChildrenApart
<1>6. NoneIsMissed' /\ CutsAreTrue'
  BY DEF NoneIsMissed, CutsAreTrue, CutInv, ResultInv
<1> QED
  BY <1>4, <1>5, <1>6 DEF ResultInv

LEMMA ReachPreserves ==
  ASSUME CutInv, NEW w, NEW p, ReachStep(w, p)
  PROVE  CutInv'
BY ReachKeepsShape, ReachKeepsTree, ReachKeepsHangs, ReachKeepsLows, ReachKeepsResults DEF CutInv

LEMMA StartPreserves == ASSUME CutInv, NEW n \in Node, StartAt(n) PROVE CutInv'
<1>1. ReachStep(n, n)
  BY DEF StartAt, ReachStep
<1> QED
  BY <1>1, ReachPreserves

LEMMA AdvancePreserves == ASSUME CutInv, NEW n \in Node, NEW m \in Node, AdvanceTo(n, m) PROVE CutInv'
<1>1. m \in members
  BY DEF AdvanceTo, CutInv, CutShape, CutTypeOK
<1>2. ReachStep(m, n)
  BY <1>1 DEF AdvanceTo, ReachStep
<1> QED
  BY <1>2, ReachPreserves

-----------------------------------------------------------------------------
(* A node that was reached before is looked at.                            *)

LEMMA LookPreserves == ASSUME CutInv, NEW n \in Node, NEW m \in Node, LookAt(n, m) PROVE CutInv'
<1> USE ShapeFacts
<1>1. /\ <<n, m>> \in untried /\ <<n, m>> \in adj /\ <<m, n>> \in adj
      /\ n \in frames /\ m \in Reached /\ n \in members /\ m \in members
      /\ \A f \in frames : disc[f] <= disc[n]
      /\ untried' = untried \ {<<n, m>>}
  BY DEF LookAt, Last, CutInv, CutShape, CutTypeOK, Reached
<1>2. /\ members' = members /\ adj' = adj /\ timer' = timer /\ disc' = disc /\ from' = from
      /\ frames' = frames /\ cut' = cut
  BY DEF LookAt
<1>3. Reached' = Reached /\ Over' = Over
  BY <1>2 DEF Reached, Over
<1>4. /\ \A x \in Node : x # n => lowDisc'[x] = lowDisc[x]
      /\ lowDisc'[n] = IF m # from[n] /\ disc[m] < lowDisc[n] THEN disc[m] ELSE lowDisc[n]
      /\ lowDisc' \in [Node -> Nat \cup {-1}]
  <2>1. lowDisc \in [Node -> Nat \cup {-1}] /\ disc[m] \in Nat /\ n \in Node /\ lowDisc[n] \in Nat
    BY <1>1 DEF CutInv, CutShape, CutTypeOK
  <2>2. /\ Smaller(lowDisc[n], disc[m]) = IF disc[m] < lowDisc[n] THEN disc[m] ELSE lowDisc[n]
        /\ Smaller(lowDisc[n], disc[m]) \in Nat
    BY <2>1 DEF Smaller
  <2>3. lowDisc' = IF m # from[n] THEN [lowDisc EXCEPT ![n] = Smaller(lowDisc[n], disc[m])] ELSE lowDisc
    BY DEF LookAt
  <2> QED
    BY <2>1, <2>2, <2>3
<1>5. CutShape'
  <2>1. CutTypeOK'
    BY <1>1, <1>2, <1>4 DEF CutInv, CutShape, CutTypeOK
  <2>2. \A x \in Reached : lowDisc'[x] \in Nat
    BY <1>1, <1>4
  <2> QED
    BY <2>1, <2>2, <1>2, <1>3 DEF CutInv, CutShape
<1>6. TreeInv'
  <2>1. FromIsEarlier' /\ FramesAreAPath' /\ SubtreesNest'
    BY <1>2, <1>3 DEF CutInv, TreeInv, FromIsEarlier, FramesAreAPath, SubtreesNest
  <2>2. EntriesTried'
    BY <1>1, <1>2, <1>3 DEF CutInv, TreeInv, EntriesTried
  <2> QED
    BY <2>1, <2>2 DEF TreeInv
<1>7. \A f, S, x, y : After(f)' = After(f) /\ Before(f)' = Before(f) /\ Con(S, x, y)' = Con(S, x, y)
  BY <1>2, <1>3 DEF After, Before, Con
<1>8. \A g, x : HangsFrom(g, x)' = HangsFrom(g, x)
  BY <1>2 DEF HangsFrom
<1>9. HangInv'
  BY <1>2, <1>3, <1>7, <1>8 DEF CutInv, HangInv, SubtreesHang, PathHangs, OverIsFenced, ChildrenHold
<1>10. LowsAreTrue'
  <2> SUFFICES ASSUME NEW f \in frames
               PROVE  /\ lowDisc'[f] <= disc[f]
                      /\ lowDisc'[f] # disc[f] =>
                           \E x \in After(f), g \in frames : <<x, g>> \in adj /\ disc[g] = lowDisc'[f]
    BY <1>2, <1>7 DEF LowsAreTrue
  <2>1. CASE lowDisc'[f] = lowDisc[f]
    BY <2>1 DEF CutInv, LowInv, LowsAreTrue
  <2>2. CASE lowDisc'[f] # lowDisc[f]
    <3>1. f = n /\ lowDisc'[f] = disc[m] /\ disc[m] < lowDisc[n]
      BY <2>2, <1>4
    <3>2. lowDisc[n] <= disc[n]
      BY <1>1 DEF CutInv, LowInv, LowsAreTrue
    <3>3. disc[m] < disc[n]
      BY <1>1, <3>1, <3>2
    <3>4. m \in frames
      BY <1>1, <3>3 DEF CutInv, HangInv, OverIsFenced, Over
    <3>5. n \in After(n)
      BY <1>1 DEF After
    <3> QED
      BY <1>1, <3>1, <3>3, <3>4, <3>5
  <2> QED
    BY <2>1, <2>2
<1>11. LowsAreLow'
  <2> SUFFICES ASSUME NEW x \in members, NEW y \in members, <<x, y>> \in adj, <<x, y>> \notin untried',
                      y \in frames, y # from[x], NEW g \in frames, HangsFrom(g, x)
               PROVE  lowDisc'[g] <= disc[y]
    BY <1>2, <1>8 DEF LowsAreLow
  <2>1. lowDisc'[g] <= lowDisc[g] /\ lowDisc'[g] \in Nat
    BY <1>1, <1>4
  <2>2. CASE <<x, y>> \in untried
    <3>1. x = n /\ y = m
      BY <2>2, <1>1
    <3>2. g = n
      BY <3>1, <1>1 DEF HangsFrom
    <3> QED
      BY <3>1, <3>2, <1>1, <1>4
  <2>3. CASE <<x, y>> \notin untried
    <3>1. lowDisc[g] <= disc[y]
      BY <2>3 DEF CutInv, LowInv, LowsAreLow
    <3> QED
      BY <2>1, <3>1
  <2> QED
    BY <2>2, <2>3
<1>12. ResultInv'
  BY <1>2, <1>3, <1>7
     DEF CutInv, ResultInv, ChildrenReturn, ChildReturns, RootChildrenApart, NoneIsMissed, CutsAreTrue
<1> QED
  BY <1>5, <1>6, <1>9, <1>10, <1>11, <1>12 DEF CutInv, LowInv

-----------------------------------------------------------------------------
(* A node is over.                                                         *)

LEMMA NotCut ==
  ASSUME CutInv, NEW p \in members, NEW q,
         \A y \in members : <<p, y>> \in adj => Con(members \ {p}, y, q)
  PROVE  ~Splits(adj, members, p)
<1>1. ASSUME NEW e \in adj, {e[1], e[2]} \subseteq members, e[1] # e[2]
      PROVE  /\ e[1] = p => Together(adj, members \ {p}, e[2], q)
             /\ e[2] = p => Together(adj, members \ {p}, e[1], q)
  <2>1. e = <<e[1], e[2]>>
    BY DEF CutInv, CutShape, CutTypeOK
  <2>2. <<e[2], e[1]>> \in adj
    BY <1>1, <2>1 DEF CutInv, CutShape
  <2> QED
    BY <1>1, <2>1, <2>2 DEF Con
<1> QED
  BY <1>1, NotSplit

\* The node n with the last frame has been finished.
LastMeans(n) ==
  /\ n \in frames /\ n \in Reached /\ \A f \in frames : disc[f] <= disc[n]
  /\ \A y \in members : <<n, y>> \in adj => <<n, y>> \notin untried /\ y \in Reached

LEMMA LastFacts == ASSUME CutInv, NEW n, Finished(n) PROVE LastMeans(n)
<1>1. n \in frames /\ n \in Reached /\ n \in members /\ \A f \in frames : disc[f] <= disc[n]
  BY ShapeFacts DEF Finished, Last
<1>2. \A y \in members : <<n, y>> \notin untried
  BY DEF Finished
<1>3. \A y \in members : <<n, y>> \in adj => y \in Reached
  BY <1>1, <1>2 DEF CutInv, TreeInv, EntriesTried
<1> QED
  BY <1>1, <1>2, <1>3 DEF LastMeans

\* Edges out of what was reached after n lead to frames.
LEMMA LeadsToFrames ==
  ASSUME CutInv, NEW n, Finished(n), NEW x \in After(n), NEW y \in members, <<x, y>> \in adj, y \notin After(n)
  PROVE  /\ y \in frames /\ disc[y] < disc[n]
         /\ <<x, y>> \notin untried /\ HangsFrom(n, x)
<1> USE ShapeFacts
<1>1. LastMeans(n)
  BY LastFacts
<1>2. x \in Reached /\ x \in members /\ disc[n] <= disc[x]
  BY DEF After
<1>3. <<x, y>> \notin untried
  <2>1. x \in frames => x = n
    BY <1>1, <1>2 DEF LastMeans
  <2> QED
    BY <2>1, <1>1, <1>2 DEF LastMeans, CutInv, TreeInv, EntriesTried
<1>4. y \in Reached /\ disc[y] < disc[n]
  BY <1>1, <1>2, <1>3 DEF CutInv, TreeInv, EntriesTried, After, LastMeans
<1>5. y \in frames
  <2>1. <<y, x>> \in adj
    BY <1>2 DEF CutInv, CutShape
  <2> QED
    BY <2>1, <1>1, <1>2, <1>4 DEF CutInv, HangInv, OverIsFenced, Over, LastMeans
<1>6. HangsFrom(n, x)
  BY <1>1, <1>2 DEF HangsFrom, LastMeans
<1> QED
  BY <1>3, <1>4, <1>5, <1>6

\* The neighbours of n but for the frames hang from its children.
LEMMA NeighboursHang ==
  ASSUME CutInv, NEW n, Finished(n), NEW y \in members, <<n, y>> \in adj, y \notin frames
  PROVE  \E c \in Over : from[c] = n /\ c # n /\ Con(members \ {n}, y, c)
<1> USE ShapeFacts
<1>1. LastMeans(n)
  BY LastFacts
<1>2. y \in Over /\ <<y, n>> \in adj /\ n \in members /\ y # n
  BY <1>1 DEF LastMeans, CutInv, CutShape, Over
<1>3. disc[n] <= disc[y]
  BY <1>1, <1>2 DEF LastMeans, Over, CutInv, HangInv, OverIsFenced
<1>4. HangsFrom(n, y)
  BY <1>1, <1>3 DEF HangsFrom, LastMeans
<1> QED
  BY <1>1, <1>2, <1>4 DEF LastMeans, Over, CutInv, HangInv, ChildrenHold

-----------------------------------------------------------------------------
(* The search goes back from n to up.                                      *)

RetreatMeans(n, up) ==
  /\ LastMeans(n)
  /\ n \in members /\ up \in frames /\ up \in Reached /\ up \in members /\ up # n
  /\ disc[up] < disc[n] /\ \A f \in frames : f = n \/ disc[f] <= disc[up]
  /\ from[n] = up /\ <<up, n>> \in adj
  /\ frames' = frames \ {n} /\ Over' = Over \cup {n} /\ Reached' = Reached
  /\ \A x \in Node : x # up => lowDisc'[x] = lowDisc[x]
  /\ lowDisc'[up] = IF lowDisc[n] < lowDisc[up] THEN lowDisc[n] ELSE lowDisc[up]
  /\ cut' = cut \cup {m \in {up} : CutsOff(m, n)}
  /\ members' = members /\ adj' = adj /\ untried' = untried
  /\ timer' = timer /\ disc' = disc /\ from' = from

LEMMA RetreatFacts ==
  ASSUME CutInv, NEW n \in Node, NEW up \in Node, Retreat(n, up)
  PROVE  RetreatMeans(n, up)
<1> USE ShapeFacts
<1>1. LastMeans(n) /\ Finished(n)
  BY LastFacts DEF Retreat
<1>2. /\ up \in frames /\ up # n /\ \A f \in frames : f = n \/ disc[f] <= disc[up]
  BY DEF Retreat, Last
<1>3. n \in frames /\ n \in Reached /\ n \in members /\ up \in Reached /\ up \in members
  BY <1>1, <1>2 DEF LastMeans
<1>4. disc[up] < disc[n]
  BY <1>1, <1>2, <1>3 DEF LastMeans
<1>5. from[n] = up
  <2>1. from[n] # n
    BY <1>2, <1>3, <1>4 DEF CutInv, TreeInv, FramesAreAPath
  <2>2. from[n] \in frames /\ disc[up] <= disc[from[n]]
    BY <2>1, <1>2, <1>3, <1>4 DEF CutInv, TreeInv, FramesAreAPath
  <2>3. disc[from[n]] <= disc[up]
    BY <2>1, <2>2, <1>2
  <2> QED
    BY <2>2, <2>3, <1>3
<1>6. <<up, n>> \in adj
  BY <1>2, <1>3, <1>5 DEF CutInv, TreeInv, FromIsEarlier
<1>7. /\ frames' = frames \ {n} /\ members' = members /\ adj' = adj /\ untried' = untried
      /\ timer' = timer /\ disc' = disc /\ from' = from
      /\ cut' = cut \cup {m \in {up} : CutsOff(m, n)}
  BY DEF Retreat
<1>8. Reached' = Reached /\ Over' = Over \cup {n}
  BY <1>3, <1>7 DEF Reached, Over
<1>9. /\ \A x \in Node : x # up => lowDisc'[x] = lowDisc[x]
      /\ lowDisc'[up] = IF lowDisc[n] < lowDisc[up] THEN lowDisc[n] ELSE lowDisc[up]
  <2>1. lowDisc \in [Node -> Nat \cup {-1}] /\ lowDisc' = [lowDisc EXCEPT ![up] = Smaller(lowDisc[up], lowDisc[n])]
    BY DEF Retreat, CutInv, CutShape, CutTypeOK
  <2> QED
    BY <2>1 DEF Smaller
<1> QED
  BY <1>1, <1>2, <1>3, <1>4, <1>5, <1>6, <1>7, <1>8, <1>9 DEF RetreatMeans

\* If up is a root, or the low of n does not reach above it, then nothing but up leads out of
\* what was reached after n.
LEMMA FenceOfChild ==
  ASSUME CutInv, NEW n \in Node, NEW up \in Node, Retreat(n, up),
         from[up] = up \/ disc[up] <= lowDisc[n]
  PROVE  \A e \in adj : {e[1], e[2]} \subseteq members \ {up} => (e[1] \in After(n) <=> e[2] \in After(n))
<1> USE ShapeFacts
<1>0. RetreatMeans(n, up)
  BY RetreatFacts
<1>1. RetreatMeans(n, up) /\ LastMeans(n) /\ Finished(n)
  BY <1>0 DEF RetreatMeans, Retreat
<1>2. ASSUME NEW x \in After(n), NEW y \in members, <<x, y>> \in adj, y # up, y \notin After(n)
      PROVE  FALSE
  <2>1. y \in frames /\ disc[y] < disc[n] /\ <<x, y>> \notin untried /\ HangsFrom(n, x)
    BY <1>1, <1>2, LeadsToFrames
  <2>2. disc[y] < disc[up]
    BY <1>1, <1>2, <2>1 DEF RetreatMeans
  <2>3. from[up] # up
    BY <1>1, <2>1, <2>2 DEF RetreatMeans, CutInv, TreeInv, FramesAreAPath
  <2>4. y # from[x]
    <3>1. CASE x = n
      BY <3>1, <1>1, <1>2 DEF RetreatMeans
    <3>2. CASE x # n
      <4>1. x \in Reached /\ disc[n] < disc[x]
        BY <3>2, <1>1 DEF After, RetreatMeans, LastMeans
      <4>2. disc[n] <= disc[from[x]]
        BY <4>1, <1>1 DEF RetreatMeans, LastMeans, CutInv, TreeInv, SubtreesNest
      <4> QED
        BY <4>2, <1>1, <2>1 DEF LastMeans
    <3> QED
      BY <3>1, <3>2
  <2>5. lowDisc[n] <= disc[y]
    <3>1. x \in members
      BY DEF After
    <3> QED
      BY <3>1, <1>1, <1>2, <2>1, <2>4 DEF RetreatMeans, LastMeans, CutInv, LowInv, LowsAreLow
  <2> QED
    BY <1>1, <2>1, <2>2, <2>3, <2>5 DEF RetreatMeans, LastMeans
<1>3. ASSUME NEW e \in adj, {e[1], e[2]} \subseteq members \ {up}
      PROVE  e[1] \in After(n) <=> e[2] \in After(n)
  <2>1. e = <<e[1], e[2]>>
    BY DEF CutInv, CutShape, CutTypeOK
  <2>2. <<e[2], e[1]>> \in adj
    BY <1>3, <2>1 DEF CutInv, CutShape
  <2> QED
    BY <1>2, <1>3, <2>1, <2>2
<1> QED
  BY <1>3

\* Such a child makes a cut node of up, unless up is the root.
LEMMA CutOffIsTrue ==
  ASSUME CutInv, NEW n \in Node, NEW up \in Node, Retreat(n, up), CutsOff(up, n)
  PROVE  Splits(adj, members, up)
<1> USE ShapeFacts
<1>1. RetreatMeans(n, up)
  BY RetreatFacts
<1>2. from[up] # up /\ disc[up] <= lowDisc[n]
  BY <1>1 DEF CutsOff, RetreatMeans, LastMeans
<1>3. from[up] \in Reached /\ disc[from[up]] < disc[up] /\ <<up, from[up]>> \in adj
  BY <1>1, <1>2 DEF RetreatMeans, CutInv, TreeInv, FromIsEarlier, CutShape
<1>4. After(n) \subseteq members \ {up} /\ n \in After(n) /\ from[up] \notin After(n)
  BY <1>1, <1>3 DEF RetreatMeans, LastMeans, After
<1>5. from[up] \in members \ {up} /\ n \in members \ {up}
  BY <1>1, <1>2, <1>3 DEF RetreatMeans
<1>6. ~Together(adj, members \ {up}, n, from[up])
  <2>1. \A e \in adj : {e[1], e[2]} \subseteq members \ {up} => (e[1] \in After(n) <=> e[2] \in After(n))
    BY <1>2, FenceOfChild
  <2> QED
    BY <1>4, <2>1, ApartByFence
<1> QED
  BY <1>1, <1>3, <1>5, <1>6, SplitsNeighbours DEF RetreatMeans

\* A child that does not comes back to what was reached before up.
LEMMA ChildComesBack ==
  ASSUME CutInv, NEW n \in Node, NEW up \in Node, Retreat(n, up), from[up] # up, ~CutsOff(up, n)
  PROVE  Con(members \ {up}, n, from[up])
<1> USE ShapeFacts
<1>1. RetreatMeans(n, up)
  BY RetreatFacts
<1>2. lowDisc[n] < disc[up] /\ lowDisc[n] # disc[n]
  BY <1>1 DEF CutsOff, RetreatMeans, LastMeans
<1>3. PICK x \in After(n), g \in frames : <<x, g>> \in adj /\ disc[g] = lowDisc[n]
  BY <1>1, <1>2 DEF RetreatMeans, LastMeans, CutInv, LowInv, LowsAreTrue
<1>4. n \in After(n) /\ After(n) \subseteq members \ {up}
  BY <1>1 DEF RetreatMeans, LastMeans, After
<1>5. Con(members \ {up}, x, n)
  <2>1. Con(After(n), x, n)
    BY <1>1 DEF RetreatMeans, LastMeans, CutInv, HangInv, SubtreesHang
  <2> QED
    BY <2>1, <1>4, TogetherInMore DEF Con
<1>6. g \in members \ {up}
  BY <1>1, <1>2, <1>3 DEF RetreatMeans
<1>7. Con(members \ {up}, x, g)
  BY <1>3, <1>4, <1>6, TogetherEdge DEF Con
<1>8. Con(members \ {up}, g, from[up])
  <2>1. Con(Before(up), g, from[up])
    BY <1>1, <1>2, <1>3 DEF RetreatMeans, CutInv, HangInv, PathHangs
  <2>2. from[up] \in Reached /\ disc[from[up]] < disc[up]
    BY <1>1 DEF RetreatMeans, CutInv, TreeInv, FromIsEarlier
  <2>3. g \in Before(up) /\ from[up] \in Before(up)
    BY <2>2, <1>2, <1>3 DEF Before
  <2>4. Before(up) \subseteq members \ {up}
    BY <1>1 DEF RetreatMeans, Before
  <2> QED
    BY <2>1, <2>3, <2>4, TogetherInMore DEF Con
<1> QED
  BY <1>5, <1>7, <1>8, TogetherBack, TogetherOn DEF Con

LEMMA RetreatKeepsResults ==
  ASSUME CutInv, NEW n \in Node, NEW up \in Node, Retreat(n, up)
  PROVE  ResultInv'
<1> USE ShapeFacts
<1>0. RetreatMeans(n, up)
  BY RetreatFacts
<1>1. RetreatMeans(n, up) /\ LastMeans(n) /\ Finished(n)
  BY <1>0 DEF RetreatMeans, Retreat
<1>2. /\ members' = members /\ adj' = adj /\ from' = from /\ disc' = disc
      /\ frames' = frames \ {n} /\ Over' = Over \cup {n}
      /\ cut' = cut \cup {m \in {up} : CutsOff(m, n)} /\ from[n] = up /\ up # n
  BY <1>1 DEF RetreatMeans
<1>3. \A S, x, y : Con(S, x, y)' = Con(S, x, y)
  BY <1>2 DEF Con
<1>4. ChildrenReturn'
  <2> SUFFICES ASSUME NEW m \in Over', from[m] # m, from[from[m]] # from[m], from[m] \notin cut'
               PROVE  Con(members \ {from[m]}, m, from[from[m]])
    BY <1>2, <1>3 DEF ChildrenReturn, ChildReturns
  <2>1. CASE m = n
    BY <2>1, <1>2, ChildComesBack
  <2>2. CASE m # n
    BY <2>2, <1>2 DEF CutInv, ResultInv, ChildrenReturn, ChildReturns
  <2> QED
    BY <2>1, <2>2
<1>5. RootChildrenApart'
  <2>1. ASSUME NEW m \in Over, from[m] = up, from[up] = up, m # up
        PROVE  ~Con(members \ {up}, n, m)
    <3>1. m \notin After(n)
      <4>1. m # n /\ m \in Reached
        BY <1>1 DEF LastMeans, Over
      <4> QED
        BY <4>1, <2>1, <1>1 DEF After, LastMeans, RetreatMeans, CutInv, TreeInv, SubtreesNest
    <3>2. After(n) \subseteq members \ {up} /\ n \in After(n)
      BY <1>1 DEF RetreatMeans, LastMeans, After
    <3>3. \A e \in adj : {e[1], e[2]} \subseteq members \ {up} => (e[1] \in After(n) <=> e[2] \in After(n))
      BY <2>1, FenceOfChild
    <3> QED
      BY <3>1, <3>2, <3>3, ApartByFence DEF Con
  <2> SUFFICES ASSUME NEW a \in Over', NEW b \in Over', NEW r \in members,
                      from[a] = r, from[b] = r, from[r] = r, a # r, b # r, a # b
               PROVE  ~Con(members \ {r}, a, b)
    BY <1>2, <1>3 DEF RootChildrenApart
  <2>2. CASE a = n
    BY <2>1, <2>2, <1>2
  <2>3. CASE b = n
    BY <2>1, <2>3, <1>2, TogetherBack DEF Con
  <2>4. CASE a # n /\ b # n
    BY <2>4, <1>2 DEF CutInv, ResultInv, RootChildrenApart
  <2> QED
    BY <2>2, <2>3, <2>4
<1>6. NoneIsMissed'
  <2>1. ASSUME n \notin cut PROVE ~Splits(adj, members, n)
    <3>1. ASSUME NEW y \in members, <<n, y>> \in adj PROVE Con(members \ {n}, y, up)
      <4>1. CASE y \in frames
        <5>1. y # n /\ y \in Reached
          BY <3>1, <1>1, <4>1 DEF LastMeans, CutInv, CutShape
        <5>2. disc[y] < disc[n]
          BY <5>1, <4>1, <1>1 DEF LastMeans
        <5>3. Con(Before(n), y, up)
          BY <4>1, <5>2, <1>1, <1>2 DEF LastMeans, CutInv, HangInv, PathHangs
        <5>4. y \in Before(n) /\ up \in Before(n) /\ Before(n) \subseteq members \ {n}
          BY <5>1, <5>2, <1>1 DEF RetreatMeans, Before
        <5> QED
          BY <5>3, <5>4, TogetherInMore DEF Con
      <4>2. CASE y \notin frames
        <5>1. PICK c \in Over : from[c] = n /\ c # n /\ Con(members \ {n}, y, c)
          BY <3>1, <4>2, <1>1, NeighboursHang
        <5>2. Con(members \ {n}, c, up)
          BY <5>1, <2>1, <1>2 DEF CutInv, ResultInv, ChildrenReturn, ChildReturns
        <5> QED
          BY <5>1, <5>2, TogetherOn DEF Con
      <4> QED
        BY <4>1, <4>2
    <3> QED
      BY <3>1, <1>1, NotCut DEF RetreatMeans
  <2> QED
    BY <2>1, <1>2 DEF NoneIsMissed, CutInv, ResultInv
<1>7. CutsAreTrue'
  BY <1>2, CutOffIsTrue DEF CutsAreTrue, CutInv, ResultInv
<1> QED
  BY <1>4, <1>5, <1>6, <1>7 DEF ResultInv

\* The parts of the invariant that a smaller path of frames does not disturb.
LEMMA FewerFrames ==
  ASSUME CutInv, NEW n, LastMeans(n), n \in members, frames' = frames \ {n}, Over' = Over \cup {n},
         Reached' = Reached, members' = members, adj' = adj, untried' = untried,
         disc' = disc, from' = from
  PROVE  TreeInv' /\ SubtreesHang' /\ PathHangs' /\ OverIsFenced'
<1> USE ShapeFacts
<1>1. FromIsEarlier' /\ SubtreesNest'
  BY DEF CutInv, TreeInv, FromIsEarlier, SubtreesNest
<1>2. FramesAreAPath'
  <2> SUFFICES ASSUME NEW f \in frames, f # n
               PROVE  IF from[f] = f THEN \A g \in frames : disc[f] <= disc[g]
                      ELSE /\ from[f] \in frames /\ from[f] # n
                           /\ \A g \in frames : disc[g] < disc[f] => disc[g] <= disc[from[f]]
    BY DEF FramesAreAPath
  <2>1. CASE from[f] = f
    BY <2>1 DEF CutInv, TreeInv, FramesAreAPath
  <2>2. CASE from[f] # f
    <3>1. from[f] \in frames /\ \A g \in frames : disc[g] < disc[f] => disc[g] <= disc[from[f]]
      BY <2>2 DEF CutInv, TreeInv, FramesAreAPath
    <3>2. disc[from[f]] < disc[f] /\ disc[f] <= disc[n] /\ f \in Reached
      BY <2>2 DEF CutInv, TreeInv, FromIsEarlier, LastMeans
    <3>3. from[f] # n
      BY <3>2 DEF LastMeans
    <3> QED
      BY <2>2, <3>1, <3>3
  <2> QED
    BY <2>1, <2>2
<1>3. EntriesTried'
  BY DEF CutInv, TreeInv, EntriesTried, LastMeans
<1>4. \A f, S, x, y : After(f)' = After(f) /\ Before(f)' = Before(f) /\ Con(S, x, y)' = Con(S, x, y)
  BY DEF After, Before, Con
<1>5. SubtreesHang' /\ PathHangs'
  BY <1>4 DEF CutInv, HangInv, SubtreesHang, PathHangs
<1>6. OverIsFenced'
  BY DEF CutInv, HangInv, OverIsFenced, LastMeans
<1> QED
  BY <1>1, <1>2, <1>3, <1>5, <1>6 DEF TreeInv

\* What hangs from up afterwards hung from it or from n.
LEMMA HangsFromUp ==
  ASSUME CutInv, NEW n \in Node, NEW up \in Node, Retreat(n, up), NEW x \in Reached, NEW g, HangsFrom(g, x)'
  PROVE  HangsFrom(g, x) \/ (g = up /\ HangsFrom(n, x))
<1> USE ShapeFacts
<1>0. RetreatMeans(n, up)
  BY RetreatFacts
<1>1. /\ g \in frames /\ g # n /\ disc[g] <= disc[x]
      /\ \A f \in frames : f # n /\ disc[f] <= disc[x] => disc[f] <= disc[g]
  BY <1>0 DEF HangsFrom, RetreatMeans
<1>2. CASE disc[n] <= disc[x]
  <2>1. disc[up] <= disc[g] /\ disc[g] <= disc[up]
    BY <1>0, <1>1, <1>2 DEF RetreatMeans, LastMeans
  <2>2. g = up
    BY <2>1, <1>0, <1>1 DEF RetreatMeans
  <2>3. HangsFrom(n, x)
    BY <1>0, <1>2 DEF RetreatMeans, LastMeans, HangsFrom
  <2> QED
    BY <2>2, <2>3
<1>3. CASE ~(disc[n] <= disc[x])
  BY <1>1, <1>3 DEF HangsFrom
<1> QED
  BY <1>2, <1>3

LEMMA RetreatPreserves ==
  ASSUME CutInv, NEW n \in Node, NEW up \in Node, Retreat(n, up)
  PROVE  CutInv'
<1> USE ShapeFacts
<1>0. RetreatMeans(n, up)
  BY RetreatFacts
<1>1. LastMeans(n)
  BY <1>0 DEF RetreatMeans
<1>2. TreeInv' /\ SubtreesHang' /\ PathHangs' /\ OverIsFenced'
  BY <1>0, <1>1, FewerFrames DEF RetreatMeans
<1>3. \A f, S, x, y : After(f)' = After(f) /\ Con(S, x, y)' = Con(S, x, y)
  BY <1>0 DEF RetreatMeans, After, Con
<1>4. CutShape'
  <2>1. lowDisc' \in [Node -> Nat \cup {-1}] /\ lowDisc'[up] \in Nat
    BY <1>0, <1>1 DEF RetreatMeans, LastMeans, Retreat, CutInv, CutShape, CutTypeOK
  <2>2. CutTypeOK'
    BY <1>0, <2>1 DEF RetreatMeans, CutInv, CutShape, CutTypeOK
  <2>3. \A x \in Reached : lowDisc'[x] \in Nat
    BY <1>0, <2>1 DEF RetreatMeans
  <2> QED
    BY <1>0, <2>2, <2>3 DEF RetreatMeans, CutInv, CutShape
<1>5. ChildrenHold'
  <2> SUFFICES ASSUME NEW g, NEW x \in Reached, HangsFrom(g, x)', x # g
               PROVE  \E c \in Over \cup {n} : from[c] = g /\ c # g /\ Con(members \ {g}, x, c)
    BY <1>0, <1>3 DEF RetreatMeans, ChildrenHold
  <2>1. CASE HangsFrom(g, x)
    BY <2>1 DEF CutInv, HangInv, ChildrenHold, HangsFrom
  <2>2. CASE g = up /\ HangsFrom(n, x)
    <3>1. x \in After(n) /\ n \in After(n) /\ After(n) \subseteq members \ {up}
      BY <1>0, <1>1, <2>2 DEF RetreatMeans, LastMeans, HangsFrom, After
    <3>2. Con(After(n), x, n)
      BY <1>1, <3>1 DEF LastMeans, CutInv, HangInv, SubtreesHang
    <3>3. Con(members \ {up}, x, n)
      BY <3>1, <3>2, TogetherInMore DEF Con
    <3> QED
      BY <1>0, <2>2, <3>3 DEF RetreatMeans
  <2> QED
    BY <2>1, <2>2, HangsFromUp
<1>6. LowsAreTrue'
  <2> SUFFICES ASSUME NEW f \in frames, f # n
               PROVE  /\ lowDisc'[f] <= disc[f]
                      /\ lowDisc'[f] # disc[f] =>
                           \E x \in After(f), g \in frames \ {n} : <<x, g>> \in adj /\ disc[g] = lowDisc'[f]
    BY <1>0, <1>3 DEF RetreatMeans, LowsAreTrue
  <2>1. f \in Reached /\ disc[f] < disc[n] /\ lowDisc[f] <= disc[f]
    BY <1>1 DEF LastMeans, CutInv, LowInv, LowsAreTrue
  <2>2. CASE lowDisc'[f] = lowDisc[f]
    <3>1. ASSUME lowDisc[f] # disc[f]
          PROVE  \E x \in After(f), g \in frames \ {n} : <<x, g>> \in adj /\ disc[g] = lowDisc[f]
      <4>1. PICK x \in After(f), g \in frames : <<x, g>> \in adj /\ disc[g] = lowDisc[f]
        BY <3>1 DEF CutInv, LowInv, LowsAreTrue
      <4>2. g # n
        BY <4>1, <2>1, <1>1 DEF LastMeans
      <4> QED
        BY <4>1, <4>2
    <3> QED
      BY <3>1, <2>1, <2>2
  <2>3. CASE lowDisc'[f] # lowDisc[f]
    <3>1. f = up /\ lowDisc'[f] = lowDisc[n] /\ lowDisc[n] < lowDisc[up]
      BY <2>1, <2>3, <1>0 DEF RetreatMeans
    <3>2. lowDisc[n] # disc[n]
      BY <3>1, <2>1, <1>1 DEF LastMeans
    <3>3. PICK x \in After(n), g \in frames : <<x, g>> \in adj /\ disc[g] = lowDisc[n]
      BY <3>2, <1>1 DEF LastMeans, CutInv, LowInv, LowsAreTrue
    <3>4. x \in After(up) /\ g # n
      BY <3>1, <3>2, <3>3, <2>1, <1>1 DEF After, LastMeans
    <3>5. lowDisc[n] <= disc[up]
      BY <3>1, <2>1, <1>1 DEF LastMeans
    <3> QED
      BY <3>1, <3>3, <3>4, <3>5
  <2> QED
    BY <2>2, <2>3
<1>7. LowsAreLow'
  <2> SUFFICES ASSUME NEW x \in members, NEW y \in members, <<x, y>> \in adj, <<x, y>> \notin untried,
                      y \in frames, y # from[x], NEW g, g \in frames, g # n, HangsFrom(g, x)'
               PROVE  lowDisc'[g] <= disc[y]
    BY <1>0 DEF RetreatMeans, LowsAreLow
  <2>1. x \in Reached /\ g \in Reached /\ y \in Reached
    BY DEF CutInv, TreeInv, EntriesTried
  <2>2. lowDisc'[g] <= lowDisc[g] /\ lowDisc'[g] \in Nat
    BY <1>0, <1>1, <2>1 DEF RetreatMeans, LastMeans
  <2>3. CASE HangsFrom(g, x)
    <3>1. lowDisc[g] <= disc[y]
      BY <2>3 DEF CutInv, LowInv, LowsAreLow
    <3> QED
      BY <3>1, <2>1, <2>2
  <2>4. CASE g = up /\ HangsFrom(n, x)
    <3>1. lowDisc[n] <= disc[y]
      BY <2>4, <1>1 DEF LastMeans, CutInv, LowInv, LowsAreLow
    <3>2. lowDisc'[up] <= lowDisc[n]
      BY <1>0, <1>1 DEF RetreatMeans, LastMeans
    <3> QED
      BY <3>1, <3>2, <2>1, <2>2, <2>4, <1>1 DEF LastMeans
  <2> QED
    BY <2>1, <2>3, <2>4, HangsFromUp
<1> QED
  BY <1>2, <1>4, <1>5, <1>6, <1>7, RetreatKeepsResults DEF CutInv, HangInv, LowInv

-----------------------------------------------------------------------------
(* The search from a root ends.                                            *)

LEMMA RootIsJudged ==
  ASSUME CutInv, NEW n \in Node, LeaveRoot(n)
  PROVE  Splits(adj, members, n) <=> Cardinality(Children(n)) > 1
<1> USE ShapeFacts
<1>1. Finished(n) /\ frames = {n}
  BY DEF LeaveRoot
<1>2. LastMeans(n) /\ n \in members
  BY <1>1, LastFacts
<1>3. from[n] = n
  BY <1>1 DEF CutInv, TreeInv, FramesAreAPath, FromIsEarlier
<1>4. \A c \in Children(n) : c \in Over /\ c # n /\ from[c] = n /\ <<n, c>> \in adj
  BY <1>1 DEF Children, Over, CutInv, CutShape, TreeInv, FromIsEarlier
<1>5. IsFiniteSet(Children(n))
  BY ItemsAssumption, FS_Subset DEF Children
<1>6. ASSUME Cardinality(Children(n)) > 1
      PROVE  Splits(adj, members, n)
  <2>1. PICK a, b \in Children(n) : a # b
    BY <1>5, <1>6, LargeComponent
  <2>2. ~Con(members \ {n}, a, b)
    BY <2>1, <1>2, <1>3, <1>4 DEF CutInv, ResultInv, RootChildrenApart
  <2>3. a \in members \ {n} /\ b \in members \ {n}
    BY <2>1 DEF Children
  <2> QED
    BY <2>1, <2>2, <2>3, <1>2, <1>4, SplitsNeighbours DEF Con
<1>7. ASSUME ~(Cardinality(Children(n)) > 1)
      PROVE  ~Splits(adj, members, n)
  <2> DEFINE q == CHOOSE c \in Children(n) : TRUE
  <2>1. \A c \in Children(n) : c = q
    <3>1. CASE Children(n) = {}
      BY <3>1
    <3>2. CASE Children(n) # {}
      <4>1. q \in Children(n)
        BY <3>2
      <4>2. \A a, b \in Children(n) : a = b
        BY <1>5, <1>7, <3>2, SmallComponent
      <4> QED
        BY <4>1, <4>2
    <3> QED
      BY <3>1, <3>2
  <2>2. ASSUME NEW y \in members, <<n, y>> \in adj PROVE Con(members \ {n}, y, q)
    <3>1. y \notin frames
      BY <2>2, <1>1 DEF CutInv, CutShape
    <3>2. PICK c \in Over : from[c] = n /\ c # n /\ Con(members \ {n}, y, c)
      BY <2>2, <3>1, <1>1, NeighboursHang
    <3>3. c \in Children(n)
      BY <3>2 DEF Children, Over
    <3> HIDE DEF q
    <3> QED
      BY <3>2, <3>3, <2>1
  <2> HIDE DEF q
  <2> QED
    BY <2>2, <1>2, NotCut
<1> QED
  BY <1>6, <1>7

LEMMA LeavePreserves == ASSUME CutInv, NEW n \in Node, LeaveRoot(n) PROVE CutInv'
<1> USE ShapeFacts
<1>1. /\ Finished(n) /\ frames = {n} /\ frames' = {}
      /\ cut' = cut \cup {m \in {n} : Cardinality(Children(m)) > 1}
      /\ members' = members /\ adj' = adj /\ untried' = untried /\ timer' = timer
      /\ disc' = disc /\ lowDisc' = lowDisc /\ from' = from
  BY DEF LeaveRoot
<1>2. LastMeans(n) /\ n \in members /\ n \in Reached
  BY <1>1, LastFacts
<1>3. Reached' = Reached /\ Over' = Over \cup {n}
  BY <1>1, <1>2 DEF Reached, Over
<1>4. TreeInv' /\ SubtreesHang' /\ PathHangs' /\ OverIsFenced'
  BY <1>1, <1>2, <1>3, FewerFrames
<1>5. CutShape'
  BY <1>1, <1>2, <1>3 DEF CutInv, CutShape, CutTypeOK
<1>6. ChildrenHold' /\ LowsAreTrue' /\ LowsAreLow'
  BY <1>1 DEF ChildrenHold, LowsAreTrue, LowsAreLow
<1>7. from[n] = n
  BY <1>1 DEF CutInv, TreeInv, FramesAreAPath, FromIsEarlier
<1>8. \A S, x, y : Con(S, x, y)' = Con(S, x, y)
  BY <1>1 DEF Con
<1>9. ChildrenReturn'
  BY <1>1, <1>3, <1>7, <1>8 DEF CutInv, ResultInv, ChildrenReturn, ChildReturns
<1>10. RootChildrenApart'
  BY <1>1, <1>3, <1>7, <1>8 DEF CutInv, ResultInv, RootChildrenApart
<1>11. NoneIsMissed' /\ CutsAreTrue'
  BY <1>1, <1>3, RootIsJudged DEF CutInv, ResultInv, NoneIsMissed, CutsAreTrue
<1> QED
  BY <1>4, <1>5, <1>6, <1>9, <1>10, <1>11 DEF CutInv, HangInv, LowInv, ResultInv

-----------------------------------------------------------------------------
LEMMA CutStepPreserves == CutInv /\ CutNext => CutInv'
BY StartPreserves, AdvancePreserves, LookPreserves, RetreatPreserves, LeavePreserves DEF CutNext

\* When the search is over it has found all cut nodes, and no others.
LEMMA CutEnds == CutInv => CutsAreExact
<1> SUFFICES ASSUME CutInv, CutDone PROVE cut = {n \in members : Splits(adj, members, n)}
  BY DEF CutsAreExact
<1>1. Over = members
  BY DEF CutDone, Over, Reached
<1>2. cut \subseteq members
  BY DEF CutInv, CutShape, CutTypeOK
<1> QED
  BY <1>1, <1>2 DEF CutInv, ResultInv, NoneIsMissed, CutsAreTrue

-----------------------------------------------------------------------------
(* The hints.                                                              *)

LEMMA CutInitially ==
  ASSUME HintInit PROVE CutInv
<1>1. Reached = {} /\ Over = {} /\ frames = {} /\ cut = {} /\ members = {} /\ adj = {} /\ untried = {}
  BY DEF HintInit, Reached, Over
<1>2. CutShape
  BY <1>1 DEF HintInit, CutShape, CutTypeOK
<1>3. TreeInv
  BY <1>1 DEF TreeInv, FromIsEarlier, FramesAreAPath, SubtreesNest, EntriesTried
<1>4. HangInv
  BY <1>1 DEF HangInv, SubtreesHang, PathHangs, OverIsFenced, ChildrenHold
<1>5. LowInv
  BY <1>1 DEF LowInv, LowsAreTrue, LowsAreLow
<1>6. ResultInv
  BY <1>1 DEF ResultInv, ChildrenReturn, RootChildrenApart, NoneIsMissed, CutsAreTrue
<1> QED
  BY <1>2, <1>3, <1>4, <1>5, <1>6 DEF CutInv

LEMMA CutStutters == ASSUME CutInv, UNCHANGED cutVars PROVE CutInv'
<1>1. /\ members' = members /\ adj' = adj /\ timer' = timer /\ disc' = disc /\ lowDisc' = lowDisc
      /\ from' = from /\ frames' = frames /\ untried' = untried /\ cut' = cut
  BY DEF cutVars
<1>2. /\ Reached' = Reached /\ Over' = Over
      /\ \A f : After(f)' = After(f) /\ Before(f)' = Before(f)
      /\ \A S, x, y : Con(S, x, y)' = Con(S, x, y)
      /\ \A g, x : HangsFrom(g, x)' = HangsFrom(g, x)
      /\ \A n, p : ChildReturns(n, p)' = ChildReturns(n, p)
  BY <1>1 DEF Reached, Over, After, Before, Con, HangsFrom, ChildReturns
<1>3. CutShape'
  BY <1>1, <1>2 DEF CutInv, CutShape, CutTypeOK
<1>4. TreeInv'
  BY <1>1, <1>2 DEF CutInv, TreeInv, FromIsEarlier, FramesAreAPath, SubtreesNest, EntriesTried
<1>5. HangInv'
  BY <1>1, <1>2 DEF CutInv, HangInv, SubtreesHang, PathHangs, OverIsFenced, ChildrenHold
<1>6. LowInv'
  BY <1>1, <1>2 DEF CutInv, LowInv, LowsAreTrue, LowsAreLow
<1>7. ResultInv'
  BY <1>1, <1>2 DEF CutInv, ResultInv, ChildrenReturn, RootChildrenApart, NoneIsMissed, CutsAreTrue
<1> QED
  BY <1>3, <1>4, <1>5, <1>6, <1>7 DEF CutInv

\* Before the last phase there is nothing of it.
HintsWait == waves # "done" => members = {} /\ analysed = {} /\ hints = [n \in Node |-> 0]

\* Whole segments are analysed, and only large ones.
AnalysedAreWhole ==
  /\ analysed \subseteq Large
  /\ \A m, n \in Node : SameSegment(m, n) /\ m \in analysed => n \in analysed

\* The search is about a segment.
SearchIsOfSegment ==
  /\ members \subseteq analysed
  /\ adj = Adjacency(members, strong)
  /\ \A m \in members : members = SegmentOf(m)

\* What has been analysed has been judged, and nothing else.
JudgedRightly ==
  /\ hints \in [Node -> Nat]
  /\ \A m \in Node : hints[m] > 0 => m \in analysed \ members
  /\ \A m \in analysed \ members : WellHinted(SegmentOf(m))

HintInv == CutInv /\ HintsWait /\ AnalysedAreWhole /\ SearchIsOfSegment /\ JudgedRightly

\* The adjacency lists hold the same together as the edges.
LEMMA AdjacencyHolds ==
  ASSUME NEW E, E \subseteq Node \X Node, NEW S, NEW T, T \subseteq S, NEW x, NEW y
  PROVE  Together(Adjacency(S, E), T, x, y) <=> Together(E, T, x, y)
<1>1. ASSUME NEW U \in SUBSET T
      PROVE  (\A e \in Adjacency(S, E) : {e[1], e[2]} \subseteq T => (e[1] \in U <=> e[2] \in U))
             <=> (\A e \in E : {e[1], e[2]} \subseteq T => (e[1] \in U <=> e[2] \in U))
  <2>1. ASSUME \A e \in Adjacency(S, E) : {e[1], e[2]} \subseteq T => (e[1] \in U <=> e[2] \in U),
               NEW e \in E, {e[1], e[2]} \subseteq T
        PROVE  e[1] \in U <=> e[2] \in U
    <3>1. e = <<e[1], e[2]>>
      OBVIOUS
    <3>2. CASE e[1] = e[2]
      BY <3>2
    <3>3. CASE e[1] # e[2]
      <4>1. e \in S \X S
        BY <2>1, <3>1
      <4>2. e \in Adjacency(S, E)
        BY <4>1, <3>3 DEF Adjacency
      <4> QED
        BY <2>1, <4>2
    <3> QED
      BY <3>2, <3>3
  <2>2. ASSUME \A e \in E : {e[1], e[2]} \subseteq T => (e[1] \in U <=> e[2] \in U),
               NEW e \in Adjacency(S, E), {e[1], e[2]} \subseteq T
        PROVE  e[1] \in U <=> e[2] \in U
    <3>1. e \in E \/ <<e[2], e[1]>> \in E
      BY DEF Adjacency
    <3>2. CASE e \in E
      BY <2>2, <3>2
    <3>3. CASE <<e[2], e[1]>> \in E
      <4> DEFINE b == <<e[2], e[1]>>
      <4>1. b \in E /\ b[1] = e[2] /\ b[2] = e[1]
        BY <3>3
      <4> HIDE DEF b
      <4>2. b[1] \in U <=> b[2] \in U
        BY <2>2, <4>1
      <4> QED
        BY <4>1, <4>2
    <3> QED
      BY <3>1, <3>2, <3>3
  <2> QED
    BY <2>1, <2>2
<1> QED
  BY <1>1 DEF Together

LEMMA AdjacencySplits ==
  ASSUME NEW E, E \subseteq Node \X Node, NEW S, NEW n
  PROVE  Splits(Adjacency(S, E), S, n) <=> Splits(E, S, n)
<1>1. \A x, y : Together(Adjacency(S, E), S, x, y) <=> Together(E, S, x, y)
  BY AdjacencyHolds
<1>2. \A x, y : Together(Adjacency(S, E), S \ {n}, x, y) <=> Together(E, S \ {n}, x, y)
  BY AdjacencyHolds
<1> QED
  BY <1>1, <1>2 DEF Splits

\* Two items or fewer have no cut node.
LEMMA SmallSegments ==
  ASSUME NEW E, NEW S, IsFiniteSet(S), ~(Cardinality(S) > 2), NEW n \in S
  PROVE  ~Splits(E, S, n)
<1>1. IsFiniteSet(S \ {n}) /\ Cardinality(S \ {n}) = Cardinality(S) - 1 /\ Cardinality(S) \in Nat
  BY FS_RemoveElement, FS_CardinalityType
<1>2. \A x, y \in S \ {n} : x = y
  <2>1. ~(Cardinality(S \ {n}) > 1)
    BY <1>1
  <2>2. CASE S \ {n} = {}
    BY <2>2
  <2>3. CASE S \ {n} # {}
    BY <1>1, <2>1, <2>3, SmallComponent
  <2> QED
    BY <2>2, <2>3
<1> QED
  BY <1>2, TogetherSelf DEF Splits

-----------------------------------------------------------------------------
LEMMA HintBegins == HintInit => HintInv
<1> SUFFICES ASSUME HintInit PROVE HintInv
  OBVIOUS
<1>1. members = {} /\ analysed = {} /\ hints = [n \in Node |-> 0] /\ adj = {}
  BY DEF HintInit
<1>2. HintsWait /\ AnalysedAreWhole /\ JudgedRightly
  BY <1>1 DEF HintsWait, AnalysedAreWhole, JudgedRightly
<1>3. SearchIsOfSegment
  BY <1>1 DEF SearchIsOfSegment, Adjacency
<1> QED
  BY <1>2, <1>3, CutInitially DEF HintInv

LEMMA SegmentOfFacts ==
  /\ \A n \in Node : n \in SegmentOf(n) /\ SegmentOf(n) \subseteq Node
  /\ \A m, n \in Node : m \in SegmentOf(n) <=> SameSegment(m, n)
  /\ \A m, n \in Node : SameSegment(m, n) => SegmentOf(m) = SegmentOf(n)
BY DEF SegmentOf, SameSegment

\* The phases before do not touch the hints.
LEMMA EarlierPreserves ==
  ASSUME SegInv, HintInv, Next, UNCHANGED hintVars
  PROVE  HintInv'
<1>1. waves # "done" /\ strong' = strong
  <2>1. phase # "waves" => waves = "idle"
    BY DEF SegInv, PhaseInv, WavesIdle
  <2>2. WaveNext => waves = "running"
    BY DEF WaveNext, ProcessNode, NextWave, FinishWaves
  <2> QED
    BY <2>1, <2>2 DEF Next, Unite, BuildGraph, SearchStep, MergeCycles, NoCycles, WaveStep, inputVars
<1>2. UNCHANGED cutVars /\ analysed' = analysed /\ hints' = hints /\ members' = members /\ adj' = adj
  BY DEF hintVars, cutVars
<1>3. members = {} /\ analysed = {} /\ hints = [n \in Node |-> 0]
  BY <1>1 DEF HintInv, HintsWait
<1>4. CutInv'
  BY <1>2, CutStutters DEF HintInv
<1>5. HintsWait' /\ AnalysedAreWhole' /\ JudgedRightly'
  BY <1>2, <1>3 DEF HintsWait, AnalysedAreWhole, JudgedRightly
<1>6. SearchIsOfSegment'
  BY <1>1, <1>2, <1>3 DEF HintInv, SearchIsOfSegment
<1> QED
  BY <1>4, <1>5, <1>6 DEF HintInv

\* Segments do not change any more.
LEMMA SegmentsStay ==
  ASSUME UNCHANGED vars
  PROVE  /\ strong' = strong /\ waves' = waves /\ Large' = Large
         /\ \A n : SegmentOf(n)' = SegmentOf(n)
         /\ \A m, n : SameSegment(m, n)' = SameSegment(m, n)
<1>1. parent' = parent /\ strong' = strong /\ waves' = waves
  BY DEF vars, inputVars, forestVars, waveVars
<1>2. \A m, n : SameSegment(m, n)' = SameSegment(m, n)
  BY <1>1 DEF SameSegment
<1>3. \A n : SegmentOf(n)' = SegmentOf(n)
  BY <1>2 DEF SegmentOf
<1> QED
  BY <1>1, <1>2, <1>3 DEF Large

-----------------------------------------------------------------------------
(* The ranking of the hints.                                               *)

\* What is visited without n is what the edges between the other members hold together.
LEMMA MeasuredIsPart ==
  ASSUME strong \subseteq Node \X Node, adj = Adjacency(members, strong),
         NEW n, NEW m \in members \ {n}
  PROVE  MeasuredFrom(n, m) = Part(members, n, m)
<1> DEFINE rest == members \ {n}
           closed == {U \in SUBSET rest : m \in U /\ \A e \in adj : e[1] \in U /\ e[2] # n => e[2] \in U}
<1>1. \A x : Together(adj, rest, m, x) <=> Together(strong, rest, m, x)
  BY AdjacencyHolds
<1>2. \A e \in adj : e[1] \in members /\ e[2] \in members /\ <<e[2], e[1]>> \in adj
  BY DEF Adjacency
<1>3. ASSUME NEW x \in rest, \A U \in closed : x \in U
      PROVE  Together(adj, rest, m, x)
  <2> SUFFICES ASSUME NEW U \in SUBSET rest,
                      \A e \in adj : {e[1], e[2]} \subseteq rest => (e[1] \in U <=> e[2] \in U)
               PROVE  m \in U <=> x \in U
    BY DEF Together
  <2>1. CASE m \in U
    <3>1. U \in closed
      BY <1>2, <2>1
    <3> QED
      BY <1>3, <2>1, <3>1
  <2>2. CASE m \notin U
    <3>1. rest \ U \in closed
      BY <1>2, <2>2
    <3>2. x \in rest \ U
      BY <1>3, <3>1
    <3> QED
      BY <2>2, <3>2
  <2> QED
    BY <2>1, <2>2
<1>4. ASSUME NEW x \in rest, Together(adj, rest, m, x), NEW U \in closed
      PROVE  x \in U
  <2>1. ASSUME NEW e \in adj, {e[1], e[2]} \subseteq rest, e[2] \in U PROVE e[1] \in U
    <3> DEFINE b == <<e[2], e[1]>>
    <3>1. b \in adj /\ b[1] = e[2] /\ b[2] = e[1]
      BY <1>2
    <3> HIDE DEF b
    <3> QED
      BY <1>4, <2>1, <3>1
  <2>2. \A e \in adj : {e[1], e[2]} \subseteq rest => (e[1] \in U <=> e[2] \in U)
    BY <1>4, <2>1
  <2> QED
    BY <1>4, <2>2 DEF Together
<1>5. MeasuredFrom(n, m) = {x \in rest : \A U \in closed : x \in U}
  BY DEF MeasuredFrom
<1>6. Part(members, n, m) = {x \in rest : Together(strong, rest, m, x)}
  BY DEF Part
<1> HIDE DEF rest, closed
<1> QED
  BY <1>1, <1>3, <1>4, <1>5, <1>6

LEMMA LargestIsPart ==
  ASSUME strong \subseteq Node \X Node, adj = Adjacency(members, strong), NEW n
  PROVE  LargestWithout(n) = LargestPart(members, n)
<1>1. \A m \in members \ {n} : Cardinality(MeasuredFrom(n, m)) = Cardinality(Part(members, n, m))
  BY MeasuredIsPart
<1>2. {Cardinality(MeasuredFrom(n, m)) : m \in members \ {n}}
        = {Cardinality(Part(members, n, m)) : m \in members \ {n}}
  BY <1>1
<1> QED
  BY <1>2 DEF LargestWithout, LargestPart

LEMMA LargestType ==
  ASSUME IsFiniteSet(members), NEW n, members \ {n} # {}
  PROVE  LargestWithout(n) \in Nat
<1> DEFINE rest == members \ {n}
           C == {Cardinality(MeasuredFrom(n, m)) : m \in rest}
           id == [c \in C |-> c]
<1>1. IsFiniteSet(rest)
  BY FS_Subset
<1>2. \A m \in rest : Cardinality(MeasuredFrom(n, m)) \in Nat
  <2>1. ASSUME NEW m \in rest PROVE Cardinality(MeasuredFrom(n, m)) \in Nat
    <3>1. MeasuredFrom(n, m) \subseteq rest
      BY DEF MeasuredFrom
    <3> QED
      BY <1>1, <3>1, FS_Subset, FS_CardinalityType
  <2> QED
    BY <2>1
<1>3. C \subseteq Nat /\ C # {}
  BY <1>2
<1>4. IsFiniteSet(C)
  <2> DEFINE f == [m \in rest |-> Cardinality(MeasuredFrom(n, m))]
  <2>1. f \in Surjection(rest, C)
    BY DEF Surjection
  <2> HIDE DEF f, C, rest
  <2> QED
    BY <1>1, <2>1, FS_Surjection
<1>5. PICK c \in C : \A d \in C : id[d] <= id[c]
  <2>1. \A d \in C : id[d] \in Nat
    BY <1>3
  <2> HIDE DEF C, id
  <2> QED
    BY <1>3, <1>4, <2>1, GreatestValue
<1>6. c \in Nat /\ \A d \in C : d <= c
  BY <1>3, <1>5
<1>7. Greatest(C) \in C
  <2> HIDE DEF C
  <2> QED
    BY <1>5, <1>6 DEF Greatest
<1>8. Greatest(C) \in Nat
  <2> HIDE DEF C
  <2> QED
    BY <1>3, <1>7
<1> QED
  BY <1>8 DEF LargestWithout

\* Cut nodes and their order are a matter of the edges.
LEMMA SameEdges ==
  ASSUME strong' = strong, NEW S
  PROVE  CutNodes(S)' = CutNodes(S) /\ \A a, b : Precedes(S, a, b)' = Precedes(S, a, b)
<1>1. \A n, m : Part(S, n, m)' = Part(S, n, m)
  BY DEF Part
<1>2. \A n : LargestPart(S, n)' = LargestPart(S, n)
  BY <1>1 DEF LargestPart
<1> QED
  BY <1>2 DEF CutNodes, Precedes

LEMMA WellHintedStays ==
  ASSUME strong' = strong, NEW S, \A m \in S : hints'[m] = hints[m]
  PROVE  WellHinted(S)' <=> WellHinted(S)
<1>1. HintsOf(S)' = HintsOf(S)
  BY DEF HintsOf
<1>2. \A m \in HintsOf(S) : hints'[m] = hints[m]
  BY DEF HintsOf
<1> QED
  BY <1>1, <1>2, SameEdges DEF WellHinted

LEMMA JudgedStays ==
  ASSUME JudgedRightly, AnalysedAreWhole, UNCHANGED vars, hints' = hints,
         analysed' \ members' = analysed \ members
  PROVE  JudgedRightly'
<1>1. \A m : WellHinted(SegmentOf(m))' <=> WellHinted(SegmentOf(m))
  <2>1. \A m : SegmentOf(m)' = SegmentOf(m) /\ strong' = strong
    BY SegmentsStay
  <2>2. ASSUME NEW m PROVE WellHinted(SegmentOf(m))' <=> WellHinted(SegmentOf(m))
    <3>1. PICK S : S = SegmentOf(m)
      OBVIOUS
    <3>2. WellHinted(S)' <=> WellHinted(S)
      BY <2>1, WellHintedStays
    <3>3. SegmentOf(m)' = S
      BY <2>1, <3>1
    <3> QED
      BY <3>1, <3>2, <3>3
  <2> QED
    BY <2>2
<1> QED
  BY <1>1 DEF JudgedRightly

\* When the search of a segment is over, the right hints are taken.
LEMMA TakenAreWellHinted ==
  ASSUME SegInv, HintInv, TakeHints, NEW S, S = members
  PROVE  /\ WellHinted(S)'
         /\ hints' \in [Node -> Nat]
         /\ \A m \in Node \ members : hints'[m] = hints[m]
<1> DEFINE L == {m \in cut : Place(m) <= MaxHints}
           size == [m \in cut |-> LargestWithout(m)]
           place == [m \in cut |-> Place(m)]
<1>1. /\ CutDone /\ UNCHANGED vars
      /\ hints' = [m \in Node |-> IF m \in cut /\ Place(m) <= MaxHints THEN Place(m) ELSE hints[m]]
  BY DEF TakeHints
<1>2. strong \subseteq Node \X Node /\ adj = Adjacency(members, strong) /\ strong' = strong
  BY <1>1, SegmentsStay, SegmenterAssumption DEF SegInv, InputTypeOK, HintInv, SearchIsOfSegment
<1>3. cut = {m \in members : Splits(adj, members, m)}
  BY <1>1, CutEnds DEF HintInv, CutsAreExact
<1>4. cut = CutNodes(members)
  BY <1>2, <1>3, AdjacencySplits DEF CutNodes
<1>5. members \subseteq Node /\ IsFiniteSet(members) /\ cut \subseteq members /\ IsFiniteSet(cut)
      /\ cut \subseteq Nat
  BY <1>3, ItemsAssumption, FS_Subset DEF HintInv, CutInv, CutShape, CutTypeOK
<1>6. \A m \in cut : LargestWithout(m) \in Nat
  <2>1. \A m \in cut : members \ {m} # {}
    BY <1>3 DEF Splits
  <2> QED
    BY <1>5, <2>1, LargestType
<1>7. \A a, b \in cut : RanksBefore(a, b) <=> Outranks(size, a, b)
  BY DEF RanksBefore, Outranks
<1>8. \A a \in cut : place[a] = Cardinality(Ahead(cut, size, a)) + 1
  <2>1. ASSUME NEW a \in cut PROVE {b \in cut : RanksBefore(b, a)} = Ahead(cut, size, a)
    <3> HIDE DEF size
    <3> QED
      BY <1>7 DEF Ahead
  <2> HIDE DEF size
  <2> QED
    BY <2>1 DEF Place
<1>9. /\ \A a \in cut : place[a] \in Nat /\ place[a] > 0
      /\ \A a, b \in cut : place[a] < place[b] <=> Outranks(size, a, b)
      /\ \A a \in L, b \in cut \ L : Outranks(size, a, b)
      /\ Cardinality(L) = Smaller(MaxHints, Cardinality(cut))
  <2>1. L \in SUBSET cut /\ \A a \in cut : a \in L <=> place[a] <= MaxHints
    OBVIOUS
  <2>2. size \in [cut -> Nat]
    BY <1>6
  <2>3. place \in [cut -> Nat]
    <3>1. \A a \in cut : IsFiniteSet({b \in cut : RanksBefore(b, a)})
      BY <1>5, FS_Subset
    <3> QED
      BY <3>1, FS_CardinalityType DEF Place
  <2>4. cut \subseteq Nat /\ IsFiniteSet(cut) /\ MaxHints \in Nat
    BY <1>5, HintAssumption
  <2> HIDE DEF L, size, place
  <2>5. RankedList(cut, MaxHints, size, place, L)
    BY <1>8, <2>1, <2>2, <2>3, <2>4 DEF RankedList
  <2>6. /\ \A a \in cut : place[a] > 0
        /\ \A a, b \in cut : place[a] < place[b] <=> Outranks(size, a, b)
        /\ \A a \in L, b \in cut \ L : Outranks(size, a, b)
        /\ Cardinality(L) = Smaller(MaxHints, Cardinality(cut))
    BY ONLY <2>5, Ranking
  <2> QED
    BY <2>3, <2>6
<1>10. \A a, b \in cut : Outranks(size, a, b) <=> Precedes(members, a, b)
  <2>1. \A a \in cut : size[a] = LargestPart(members, a)
    BY <1>2, LargestIsPart
  <2> HIDE DEF size
  <2> QED
    BY <2>1 DEF Outranks, Precedes
<1>11. \A a \in cut : place[a] = Place(a)
  OBVIOUS
<1>12. /\ \A a \in L : hints'[a] = place[a]
       /\ \A m \in Node \ L : hints'[m] = hints[m]
       /\ hints' \in [Node -> Nat]
  <2>1. L \subseteq cut /\ cut \subseteq Node
    BY <1>5
  <2>2. \A a \in Node : hints'[a] = IF a \in L THEN place[a] ELSE hints[a]
    BY <1>1, <1>11
  <2>3. hints \in [Node -> Nat] /\ hints' = [a \in Node |-> hints'[a]]
    BY <1>1 DEF HintInv, JudgedRightly
  <2> HIDE DEF L, place
  <2> QED
    BY <1>9, <2>1, <2>2, <2>3
<1>13. \A m \in members : hints[m] = 0
  BY <1>5 DEF HintInv, JudgedRightly
<1> DEFINE kept == {m \in members : hints'[m] > 0}
<1>14. L \subseteq cut
  OBVIOUS
<1> HIDE DEF L, size, place
<1>15. kept = L
  <2>1. \A m \in L : m \in members /\ hints'[m] > 0
    BY <1>5, <1>9, <1>12, <1>14
  <2>2. \A m \in members : m \notin L => hints'[m] = 0
    BY <1>5, <1>12, <1>13
  <2> QED
    BY <2>1, <2>2
<1>16. /\ kept \subseteq CutNodes(members)
       /\ Cardinality(kept) = Smaller(MaxHints, Cardinality(CutNodes(members)))
       /\ \A a \in kept, b \in CutNodes(members) \ kept : Precedes(members, a, b)
       /\ \A a, b \in kept : hints'[a] < hints'[b] <=> Precedes(members, a, b)
  BY <1>4, <1>9, <1>10, <1>12, <1>14, <1>15
<1>17. /\ HintsOf(S)' = kept /\ CutNodes(S)' = CutNodes(members)
       /\ \A a, b : Precedes(S, a, b)' = Precedes(members, a, b)
  BY <1>2, SameEdges DEF HintsOf
<1> HIDE DEF kept
<1>18. WellHinted(S)'
  BY <1>16, <1>17 DEF WellHinted
<1>19. \A m \in Node \ members : hints'[m] = hints[m]
  BY <1>5, <1>12, <1>14
<1> QED
  BY <1>12, <1>18, <1>19

-----------------------------------------------------------------------------
LEMMA AnalysePreserves == ASSUME HintInv, NEW n, Analyse(n) PROVE HintInv'
<1> DEFINE S == SegmentOf(n)
<1>1. /\ waves = "done" /\ members = {} /\ n \in Large /\ n \notin analysed /\ n \in Node
      /\ BeginCut(S, strong) /\ analysed' = analysed \cup S /\ hints' = hints /\ UNCHANGED vars
  BY DEF Analyse, Idle, Large
<1>2. members' = S /\ adj' = Adjacency(S, strong)
  BY <1>1 DEF BeginCut
<1>3. n \in S /\ S \subseteq Node /\ \A m \in S : SameSegment(m, n) /\ SegmentOf(m) = S
  BY <1>1, SegmentOfFacts
<1>4. S \subseteq Large
  BY <1>1, <1>3 DEF Large
<1>5. S \cap analysed = {}
  BY <1>1, <1>3 DEF HintInv, AnalysedAreWhole
<1> HIDE DEF S
<1>6. CutInv'
  BY <1>1, <1>3, CutBegins
<1>7. HintsWait'
  BY <1>1, SegmentsStay DEF HintsWait
<1>8. AnalysedAreWhole'
  <2>1. \A a, b \in Node : SameSegment(a, b) /\ a \in S => b \in S
    BY <1>1, <1>3, SegmentOfFacts DEF S
  <2> QED
    BY <2>1, <1>1, <1>4, SegmentsStay DEF HintInv, AnalysedAreWhole
<1>9. SearchIsOfSegment'
  BY <1>1, <1>2, <1>3, SegmentsStay DEF SearchIsOfSegment
<1>10. JudgedRightly'
  <2>1. analysed' \ members' = analysed \ members
    BY <1>1, <1>2, <1>5
  <2> QED
    BY <1>1, <2>1, JudgedStays DEF HintInv
<1> QED
  BY <1>6, <1>7, <1>8, <1>9, <1>10 DEF HintInv

LEMMA CutStepKeepsHints == ASSUME HintInv, CutStep PROVE HintInv'
<1>1. CutNext /\ analysed' = analysed /\ hints' = hints /\ UNCHANGED vars
  BY DEF CutStep
<1>2. members' = members /\ adj' = adj
  BY <1>1 DEF CutNext, StartAt, AdvanceTo, LookAt, Retreat, LeaveRoot
<1>3. CutInv'
  BY <1>1, CutStepPreserves DEF HintInv
<1>4. JudgedRightly'
  BY <1>1, <1>2, JudgedStays DEF HintInv
<1> QED
  BY <1>1, <1>2, <1>3, <1>4, SegmentsStay
     DEF HintInv, HintsWait, AnalysedAreWhole, SearchIsOfSegment

LEMMA TakePreserves == ASSUME SegInv, HintInv, TakeHints PROVE HintInv'
<1>1. CutDone /\ analysed' = analysed /\ UNCHANGED vars /\ BeginCut({}, {})
  BY DEF TakeHints, EndCut
<1>2. members' = {} /\ adj' = {}
  BY <1>1 DEF BeginCut, Adjacency
<1>3. CutInv'
  BY <1>1, CutBegins
<1>4. PICK S : S = members
  OBVIOUS
<1>5. WellHinted(S)' /\ hints' \in [Node -> Nat] /\ \A m \in Node \ S : hints'[m] = hints[m]
  BY <1>4, TakenAreWellHinted
<1>6. HintsWait' /\ AnalysedAreWhole'
  BY <1>1, <1>2, SegmentsStay DEF HintInv, HintsWait, AnalysedAreWhole, TakeHints, Idle
<1>7. SearchIsOfSegment'
  BY <1>2, SegmentsStay DEF SearchIsOfSegment, Adjacency
<1>8. /\ strong' = strong /\ \A m : SegmentOf(m)' = SegmentOf(m)
      /\ S \subseteq analysed /\ analysed \subseteq Node /\ \A m \in S : SegmentOf(m) = S
  BY <1>1, <1>4, SegmentsStay DEF HintInv, SearchIsOfSegment, AnalysedAreWhole, Large
<1>9. ASSUME NEW m \in analysed PROVE WellHinted(SegmentOf(m))'
  <2>1. CASE m \in S
    <3>1. SegmentOf(m)' = S
      BY <1>8, <2>1
    <3> QED
      BY <1>5, <3>1
  <2>2. CASE m \notin S
    <3>1. PICK T : T = SegmentOf(m)
      OBVIOUS
    <3>2. T \subseteq Node /\ m \in T /\ \A x \in T : SegmentOf(x) = T
      BY <1>8, <3>1, SegmentOfFacts
    <3>3. \A x \in T : hints'[x] = hints[x]
      BY <1>5, <1>8, <2>2, <3>2
    <3>4. WellHinted(T)
      BY <1>4, <2>2, <3>1 DEF HintInv, JudgedRightly
    <3>5. WellHinted(T)'
      BY <1>8, <3>3, <3>4, WellHintedStays
    <3>6. SegmentOf(m)' = T
      BY <1>8, <3>1
    <3> QED
      BY <3>5, <3>6
  <2> QED
    BY <2>1, <2>2
<1>10. \A m \in Node : hints'[m] > 0 => m \in analysed
  BY <1>4, <1>5, <1>8 DEF HintInv, JudgedRightly
<1>11. JudgedRightly'
  BY <1>1, <1>2, <1>5, <1>9, <1>10 DEF JudgedRightly
<1> QED
  BY <1>3, <1>6, <1>7, <1>11 DEF HintInv

LEMMA HintsStutter == ASSUME HintInv, UNCHANGED <<vars, hintVars>> PROVE HintInv'
<1>1. UNCHANGED vars /\ UNCHANGED cutVars /\ analysed' = analysed /\ hints' = hints
      /\ members' = members /\ adj' = adj
  BY DEF hintVars, cutVars
<1>2. CutInv'
  BY <1>1, CutStutters DEF HintInv
<1>3. JudgedRightly'
  BY <1>1, JudgedStays DEF HintInv
<1> QED
  BY <1>1, <1>2, <1>3, SegmentsStay
     DEF HintInv, HintsWait, AnalysedAreWhole, SearchIsOfSegment

-----------------------------------------------------------------------------
\* The analysis of the segments changes nothing that was decided before: segment() with its
\* last phase is segment() without it.
THEOREM HintsKeepSegments == HintSpec => Spec
<1>1. HintInit => Init
  BY DEF HintInit
<1>2. [HintNext \/ HintsEnded]_<<vars, hintVars>> => [Next \/ Ended]_vars
  BY DEF HintNext, HintsEnded, Analyse, CutStep, TakeHints
<1> QED
  BY <1>1, <1>2, PTL DEF HintSpec, Spec

LEMMA HintInductive == HintSpec => [](SegInv /\ HintInv)
<1>1. SegInv /\ HintInv /\ [HintNext \/ HintsEnded]_<<vars, hintVars>> => HintInv'
  <2> SUFFICES ASSUME SegInv, HintInv, [HintNext \/ HintsEnded]_<<vars, hintVars>> PROVE HintInv'
    OBVIOUS
  <2>1. CASE HintNext
    BY <2>1, EarlierPreserves, AnalysePreserves, CutStepKeepsHints, TakePreserves DEF HintNext
  <2>2. CASE HintsEnded \/ UNCHANGED <<vars, hintVars>>
    BY <2>2, HintsStutter DEF HintsEnded
  <2> QED
    BY <2>1, <2>2
<1> QED
  BY <1>1, HintBegins, HintsKeepSegments, SegInductive, PTL DEF HintSpec

\* Every variable of segment() keeps its type, those of the last phase included.
THEOREM HintsTypeCorrect == HintSpec => []HintTypeOK
<1>1. HintInv => CutTypeOK /\ analysed \subseteq Node /\ hints \in [Node -> Nat]
  BY DEF HintInv, CutInv, CutShape, AnalysedAreWhole, JudgedRightly, Large
<1> QED
  BY <1>1, HintInductive, HintsKeepSegments, TypeCorrect, PTL DEF HintTypeOK

\* findArticulationHints() names, in every large segment, members whose removal would leave
\* others apart that strong edges hold together: all of them or as many as the cap allows,
\* those that leave the larger parts, in that order.
THEOREM HintsExact == HintSpec => []HintsAreFirstCutNodes
<1>1. ASSUME HintInv, Complete, NEW n \in Node, Cardinality(SegmentOf(n)) > LargeSegment
      PROVE  WellHinted(SegmentOf(n))
  <2>1. members = {} /\ analysed = Large
    BY <1>1 DEF Complete, Idle, HintInv, AnalysedAreWhole
  <2>2. \A m \in SegmentOf(n) : m \in Node /\ SegmentOf(m) = SegmentOf(n)
    BY SegmentOfFacts
  <2>3. CASE Cardinality(SegmentOf(n)) > 2
    <3>1. n \in analysed
      BY <1>1, <2>1, <2>3 DEF Large
    <3> QED
      BY <1>1, <2>1, <3>1 DEF HintInv, JudgedRightly
  <2>4. CASE ~(Cardinality(SegmentOf(n)) > 2)
    <3>1. HintsOf(SegmentOf(n)) = {}
      BY <1>1, <2>1, <2>2, <2>4 DEF HintInv, JudgedRightly, HintsOf, Large
    <3>2. IsFiniteSet(SegmentOf(n))
      BY ItemsAssumption, FS_Subset DEF SegmentOf
    <3>3. CutNodes(SegmentOf(n)) = {}
      BY <2>4, <3>2, SmallSegments DEF CutNodes
    <3>4. Cardinality({}) = Smaller(MaxHints, Cardinality({}))
      BY HintAssumption, FS_EmptySet DEF Smaller
    <3> QED
      BY <3>1, <3>3, <3>4 DEF WellHinted
  <2> QED
    BY <2>3, <2>4
<1>2. HintInv => HintsAreFirstCutNodes
  BY <1>1 DEF HintsAreFirstCutNodes
<1> QED
  BY <1>2, HintInductive, PTL
=============================================================================
