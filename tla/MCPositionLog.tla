---------------------------- MODULE MCPositionLog ---------------------------
(* Instances of PositionLog for TLC. *)
EXTENDS PositionLog
=============================================================================
