-------------------------- MODULE MCClosingCapture --------------------------
(* Instances of ClosingCapture for TLC.  Threads are interchangeable. *)
EXTENDS ClosingCapture, TLC

ThreadSymmetry == Permutations(Workers)
=============================================================================
