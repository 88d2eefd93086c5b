------------------------------- MODULE MCGate -------------------------------
(* An instance of Gate for TLC: three bets in two weeks, one without a size.   *)
(* One week is a percentile; two are BCa, which passes what is good on average. *)
EXTENDS Gate

MCWeek == [b \in Bets |-> IF b = 1 THEN 1 ELSE 2]
MCClvs == {-1, 2}
MCBcaPasses == {s \in UNION {[B -> Clvs] : B \in SUBSET Bets} : SumFunction(s) > 0}
=============================================================================
