------------------------- MODULE MCExtractionPipeline -------------------------
(* A small instance of ExtractionPipeline.  The odd number of tier 1        *)
(* collectors makes the threshold fall between two counts; collectors of   *)
(* one tier are interchangeable.                                           *)
EXTENDS ExtractionPipeline, TLC

TierSymmetry == Permutations(Tier0) \cup Permutations(Tier1)
===============================================================================
