--------------------------- MODULE MCAssessmentRun ---------------------------
(***************************************************************************)
(* Small instances of AssessmentRun.  "Life" follows one run through every *)
(* interleaving of its trigger handler, two cancel handlers, the worker    *)
(* with one restart, and the sweeper.  "Pair" has two runs of one project. *)
(***************************************************************************)
EXTENDS AssessmentRun, TLC

CONSTANTS r1, r2, p1, o1

LifeProjectOf == r1 :> p1
PairProjectOf == r1 :> p1 @@ r2 :> p1
AllOneOrg     == [p \in Project |-> o1]

\* The two rows of a pair are interchangeable.
PairSymmetry == Permutations({r1, r2})
==============================================================================
