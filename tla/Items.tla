-------------------------------- MODULE Items --------------------------------
(***************************************************************************)
(* The configuration items that are segmented.  Their ids are numbers here *)
(* because the code sorts them.                                            *)
(***************************************************************************)
EXTENDS Integers, FiniteSets

CONSTANT Node

ASSUME ItemsAssumption == Node \subseteq Nat /\ IsFiniteSet(Node)

Smaller(a, b) == IF a < b THEN a ELSE b
=============================================================================
