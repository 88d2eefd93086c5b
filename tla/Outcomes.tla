------------------------------ MODULE Outcomes ------------------------------
(***************************************************************************)
(* The closing-line columns of one row of the `outcomes` table, as         *)
(* storage.py writes and reads them.  A missing row and a row whose        *)
(* columns are all NULL are read alike (every reader LEFT JOINs), so       *)
(* NoOutcome stands for both.                                              *)
(*                                                                         *)
(* Of the two prices, closing_price (the Kalshi mid) and sharp_close, only *)
(* their presence matters; `at` is closing_captured_at.                    *)
(***************************************************************************)
EXTENDS Integers

CONSTANTS
  Nil,        \* SQL NULL / Python None
  MaxTime     \* last instant of the modelled horizon

ASSUME MaxTimeAssumption == MaxTime \in Nat

Time == 0..MaxTime

Writers == {"auto", "manual"}        \* capture_close's `source`
Kinds == {"mid", "sharp_only", "missed"}

\* Variant: the two halves of the label swapped.
SourceSwapped(kind, writer) == [kind |-> writer, by |-> kind]

\* closing_source: 'auto' | 'manual' | 'sharp_only:<src>' | 'missed:<reason>[<src>]'
Source(kind, writer) == [kind |-> kind, by |-> writer]
Sources == [kind : Kinds, by : Writers]

\* NULL is none of the values.
ASSUME NilAssumption == Nil \notin Int /\ Nil \notin Sources

Row == [mid : BOOLEAN, at : Time \cup {Nil},
        source : Sources \cup {Nil}, sharp : BOOLEAN]

NoOutcome == [mid |-> FALSE, at |-> Nil, source |-> Nil, sharp |-> FALSE]

\* pending_captures' WHERE clause: neither a price nor an attempt recorded.
Pending(row) == ~row.mid /\ row.source = Nil

\* Variant: a sharp-only close is not taken for a close.
ClosedByMid(row) == row.mid

\* capture_close's test for "a real close was already recorded".
Closed(row) == row.mid \/ row.sharp

\* Variant: the row is replaced instead of merged.
ReplaceMissed(row, t, writer) ==
  [NoOutcome EXCEPT !.at = t, !.source = Source("missed", writer)]

\* The three UPSERTs capture_close makes.  record_outcome merges: a column that
\* is not named in the call keeps its value.
MergeMissed(row, t, writer) ==
  [row EXCEPT !.at = t, !.source = Source("missed", writer)]
MergeSharpOnly(row, t, writer) ==
  [row EXCEPT !.at = t, !.source = Source("sharp_only", writer), !.sharp = TRUE]
MergeMid(row, t, writer, sharp) ==
  [row EXCEPT !.mid = TRUE, !.at = t, !.source = Source("mid", writer), !.sharp = sharp]
=============================================================================
