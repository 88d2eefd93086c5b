----------------------------- MODULE CloseOnce ------------------------------
(***************************************************************************)
(* What the closing-line log promises of one row: its close is recorded    *)
(* once.  Attempts that got no price leave no trace here; they may be      *)
(* repeated until one gets a price, and that one is final.                 *)
(***************************************************************************)
CONSTANTS
  Opps,        \* the rows
  Closes,      \* what may be recorded of one
  Unrecorded   \* none of them

VARIABLE log   \* the close of each row

Init == log = [o \in Opps |-> Unrecorded]

Record(o) ==
  /\ log[o] = Unrecorded
  /\ log'[o] \in Closes
  /\ log' = [log EXCEPT ![o] = log'[o]]

Next == \E o \in Opps : Record(o)

Spec == Init /\ [][Next]_log
=============================================================================
