----------------------------- MODULE MCIdentity -----------------------------
(* An instance of Identity for TLC: two rated namesakes, and two more of     *)
(* whom one is rated, in two matches that have one pair of surnames.         *)
(* Pinnacle prices an event, or a single other book lists it.                *)
EXTENDS Identity

Xinyu == [sur |-> "wang", initial |-> "x", given |-> "xinyu"]
Xiyu == [sur |-> "wang", initial |-> "x", given |-> "xiyu"]
Qinwen == [sur |-> "zheng", initial |-> "q", given |-> "qinwen"]
Qiwei == [sur |-> "zheng", initial |-> "q", given |-> "qiwei"]
MCPlayers == {Xinyu, Xiyu, Qinwen, Qiwei}
MCRated == {Xinyu, Xiyu, Qinwen}

MCMatches == {[id |-> 1, a |-> Xinyu, b |-> Qinwen, start |-> 1],
              [id |-> 2, a |-> Xiyu, b |-> Qiwei, start |-> 2]}

MCQuotes == {[pinnacle |-> TRUE, others |-> 0], [pinnacle |-> FALSE, others |-> 1]}
=============================================================================
