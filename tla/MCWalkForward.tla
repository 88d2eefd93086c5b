--------------------------- MODULE MCWalkForward ----------------------------
(* Instances of WalkForward for TLC.  The players are interchangeable. *)
EXTENDS WalkForward, TLC

Knockout == {"RR", "QF", "SF", "F", "other"}
PlayerSymmetry == Permutations(Players)
=============================================================================
