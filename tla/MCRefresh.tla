------------------------------ MODULE MCRefresh -----------------------------
(* Instances of Refresh for TLC.  The tours are interchangeable, which the run *)
(* of liveness properties cannot use.                                         *)
EXTENDS Refresh, TLC

TourSymmetry == Permutations(Tours)
=============================================================================
