---------------------------- MODULE SegmentHints ----------------------------
(***************************************************************************)
(* segment() with its last phase: for each large segment, when segments    *)
(* and waves are final, the hints, which name members whose removal would  *)
(* split it (CutSearch), ranked by what their removal leaves and cut off   *)
(* after maxArticulationHints.  The list of a segment's hints is the place *)
(* of each member in it.                                                   *)
(***************************************************************************)
EXTENDS Segmenter, CutSearch

CONSTANTS
  LargeSegment,   \* threshold of the analysis
  MaxHints        \* maxArticulationHints: how many hints a segment may have

ASSUME HintAssumption == LargeSegment \in Nat /\ MaxHints \in Nat

VARIABLES
  analysed,   \* segments whose analysis has begun
  hints       \* place of an item among the hints of its segment, from 1; 0 if it is none

hintVars == <<cutVars, analysed, hints>>

HintTypeOK ==
  /\ TypeOK /\ CutTypeOK
  /\ analysed \subseteq Node /\ hints \in [Node -> Nat]

HintInit ==
  /\ Init
  /\ members = {} /\ adj = {} /\ untried = {} /\ frames = {} /\ cut = {} /\ timer = 0
  /\ disc = [n \in Node |-> -1] /\ lowDisc = [n \in Node |-> -1] /\ from = [n \in Node |-> n]
  /\ analysed = {} /\ hints = [n \in Node |-> 0]

SegmentOf(n) == {m \in Node : SameSegment(m, n)}

\* Two items or fewer have no hints.
Large == {n \in Node : Cardinality(SegmentOf(n)) > LargeSegment /\ Cardinality(SegmentOf(n)) > 2}

Analyse(n) ==
  /\ waves = "done" /\ Idle /\ n \in Large \ analysed
  /\ BeginCut(SegmentOf(n), strong)
  /\ analysed' = analysed \cup SegmentOf(n)
  /\ UNCHANGED <<vars, hints>>

CutStep ==
  /\ ~Idle /\ CutNext
  /\ UNCHANGED <<vars, analysed, hints>>

\* The members that are visited when a component is measured from m, n being removed.
MeasuredFrom(n, m) ==
  LET rest == members \ {n}
      closed == {U \in SUBSET rest : m \in U /\ \A e \in adj : e[1] \in U /\ e[2] # n => e[2] \in U}
  IN  {x \in rest : \A U \in closed : x \in U}

LargestWithout(n) == Greatest({Cardinality(MeasuredFrom(n, m)) : m \in members \ {n}})

\* The order of the hints: the larger remaining component first, then the smaller id.
RanksBefore(a, b) ==
  \/ LargestWithout(a) > LargestWithout(b)
  \/ LargestWithout(a) = LargestWithout(b) /\ a < b

Place(n) == Cardinality({m \in cut : RanksBefore(m, n)}) + 1

TakeHints ==
  /\ ~Idle /\ CutDone
  /\ hints' = [n \in Node |-> IF n \in cut /\ Place(n) <= MaxHints THEN Place(n) ELSE hints[n]]
  /\ EndCut
  /\ UNCHANGED <<vars, analysed>>

HintNext ==
  \/ Next /\ UNCHANGED hintVars
  \/ \E n \in graph.nodes : Analyse(n)
  \/ CutStep \/ TakeHints

\* segment() is one synchronous computation, and stops.
Complete == waves = "done" /\ Idle /\ Large \subseteq analysed
HintsEnded == (Complete \/ waves = "threw") /\ UNCHANGED <<vars, hintVars>>

HintSpec == HintInit /\ [][HintNext \/ HintsEnded]_<<vars, hintVars>>

-----------------------------------------------------------------------------
(* Properties.                                                             *)

\* What strong edges still hold together with m when n has left S, and the largest such part.
Part(S, n, m) == {x \in S \ {n} : Together(strong, S \ {n}, m, x)}
LargestPart(S, n) == Greatest({Cardinality(Part(S, n, m)) : m \in S \ {n}})

\* a leaves a larger part than b, or as large a one and has the smaller id.
Precedes(S, a, b) ==
  LargestPart(S, a) > LargestPart(S, b) \/ (LargestPart(S, a) = LargestPart(S, b) /\ a < b)

CutNodes(S) == {m \in S : Splits(strong, S, m)}
HintsOf(S) == {m \in S : hints[m] > 0}

WellHinted(S) ==
  /\ HintsOf(S) \subseteq CutNodes(S)
  /\ Cardinality(HintsOf(S)) = Smaller(MaxHints, Cardinality(CutNodes(S)))
  /\ \A a \in HintsOf(S), b \in CutNodes(S) \ HintsOf(S) : Precedes(S, a, b)
  /\ \A a, b \in HintsOf(S) : hints[a] < hints[b] <=> Precedes(S, a, b)

\* The hints of a large segment are members without which others of the segment are no longer
\* held together by strong edges: as many as there are, up to the cap, those that leave the
\* larger parts, in that order.  The search, whose low links and counts of children depend on
\* the order of the edges, neither misses a member that belongs on the list nor names another.
HintsAreFirstCutNodes ==
  Complete => \A n \in Node : Cardinality(SegmentOf(n)) > LargeSegment => WellHinted(SegmentOf(n))
=============================================================================
