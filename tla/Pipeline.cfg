CONSTANTS
  Discovery = d
  Tier0 = {a1, a2}
  Tier1 = {b1, b2}
  Tier2 = {e1}
  MaxConcurrency = 2
  WriteTries = 2
SPECIFICATION Spec
SYMMETRY TierSymmetry
INVARIANTS
  TypeOK
  NothingRunsAfterReturn
  PhasesAreBarriers
  CompletedKeepsGates
  FindingsStoredOnce
  ShutdownStopsExtraction
