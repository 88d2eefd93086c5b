---------------------------- MODULE MCSettlement ----------------------------
(* Instances of Settlement for TLC: bet 1 took no; bet 2 took yes and has no *)
(* contracts, so that only the owner can rule on it.                        *)
EXTENDS Settlement, TLC

MCSide == [o \in Opps |-> IF o = 1 THEN "no" ELSE "yes"]
=============================================================================
