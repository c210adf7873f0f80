CONSTANTS
  Node <- MCNode
  Edge <- MCEdge
  StrongPair <- MCStrongPair
  LargeSegment = 2
  MaxHints = 2
SPECIFICATION HintSpec
INVARIANTS HintTypeOK SegmentsAreExact OneMergePass ReferencedFirst HintsAreFirstCutNodes WavesRespectEdges WavesAreEarliest
