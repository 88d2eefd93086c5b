-------------------------------- MODULE Gate --------------------------------
(***************************************************************************)
(* The go-live gate.  /stats reads every logged bet with its outcome       *)
(* (storage.settled_bets) and clv.summarize decides whether the paper test *)
(* has earned real money.  The log fills up underneath it: rows are        *)
(* logged, closing lines are captured or missed, results are recorded,     *)
(* corrected and voided, by the sweep and by the owner.                    *)
(*                                                                         *)
(* A sharp CLV is counted from min_effect_size, in whole units; prices     *)
(* are in cents.  With fewer than _BCA_MIN_CLUSTERS weeks the bootstrap is *)
(* a plain percentile, and its lower end is exactly the worst week's mean: *)
(* that week is drawn every time in 1 of at most 27 resamples.  From there *)
(* on its lower end is some function of the sample, which a fixed seed     *)
(* makes one function: the samples it lets pass are a parameter.           *)
(***************************************************************************)
EXTENDS Integers, FiniteSets, Functions

CONSTANTS
  Nil,          \* SQL NULL
  Bets,
  Week,         \* the ISO week of each bet
  Sized,        \* the bets with a contract count of their own
  Clvs,         \* net sharp CLV of a bet, less min_effect_size
  Fills,        \* prices a result may be recorded at
  Entry,        \* the logged price
  Contracts,    \* the size of every bet
  FeeNum, FeeDen,       \* fee_coefficient
  MinBets, MinWeeks,    \* MIN_BETS, min_clv_clusters
  BcaMinClusters,       \* _BCA_MIN_CLUSTERS
  BcaPasses,            \* the samples whose BCa lower bound is above min_effect_size
  CoverNum, CoverDen,   \* min_sharp_coverage
  MissNum, MissDen      \* max_missed_capture_rate

ASSUME BetsAssumption == IsFiniteSet(Bets)
ASSUME PriceAssumption ==
  /\ Fills \subseteq 1..99 /\ Entry \in Fills /\ Clvs \subseteq Int
  /\ Sized \subseteq Bets /\ Contracts \in Nat \ {0}
  /\ FeeNum \in Nat /\ FeeDen \in Nat \ {0}
ASSUME GateAssumption ==
  /\ MinBets \in Nat \ {0} /\ MinWeeks \in Nat /\ BcaMinClusters \in 1..4
  /\ CoverNum \in Nat /\ CoverDen \in Nat \ {0}
  /\ MissNum \in Nat /\ MissDen \in Nat \ {0}

VARIABLE log    \* per bet its row joined with its outcome, or Nil
-----------------------------------------------------------------------------
(* Rows. *)

\* kalshi_fee, rounded up to a cent.
Fee(fill) == (FeeNum * Contracts * fill * (100 - fill) + FeeDen * 100 - 1) \div (FeeDen * 100)

\* net_pnl
NetPnl(result, fill) ==
  (IF result = "win" THEN 100 * Contracts ELSE 0) - Contracts * fill - Fee(fill)

Fresh == [mid |-> FALSE, ref |-> Nil, clv |-> Nil, source |-> Nil,
          result |-> Nil, fill |-> Nil, filled |-> Nil, pnl |-> Nil]

Row == [mid : BOOLEAN, ref : {"pinnacle", "consensus", Nil}, clv : Clvs \cup {Nil},
        source : {"captured", "sharp_only", "missed", Nil},
        result : {"win", "loss", "void", Nil}, fill : Fills \cup {Nil},
        filled : {Contracts, Nil}, pnl : Int \cup {Nil}]

ASSUME NilAssumption ==
  /\ Nil \notin Int /\ Nil \notin Row
  /\ Nil \notin {"pinnacle", "consensus", "captured", "sharp_only", "missed", "win", "loss", "void"}

TypeOK == log \in [Bets -> Row \cup {Nil}]
Init == log = [b \in Bets |-> Nil]

IsClosed(row) == row.mid \/ row.ref # Nil

\* Variant: the fill of an earlier result stays.
ScoredKeepingFill(row, result, fill) ==
  [row EXCEPT !.result = result, !.fill = IF @ = Nil THEN fill ELSE @,
              !.filled = Contracts, !.pnl = NetPnl(result, fill)]

\* The columns of a win or a loss.
Scored(row, result, fill) ==
  [row EXCEPT !.result = result, !.fill = fill, !.filled = Contracts,
              !.pnl = NetPnl(result, fill)]

\* A void names no fill: the one of an earlier result stays.
Voided(row) == [row EXCEPT !.result = "void", !.pnl = 0]
-----------------------------------------------------------------------------
(* clv.summarize. *)

Logged(l) == {b \in DOMAIN l : l[b] # Nil}

\* Rows that are not void.
Counted(l) == {b \in Logged(l) : l[b].result # "void"}

\* Variant: a consensus reference counts like one of Pinnacle.
SharpOfAny(l) == {b \in Counted(l) : l[b].ref # Nil}

\* pinnacle_rows, the binding track.
Sharp(l) == {b \in Counted(l) : l[b].ref = "pinnacle"}

\* n_closed: any close, Kalshi's or a sharp one.
Closed(l) == {b \in Counted(l) : IsClosed(l[b])}

\* captures: attempts are counted whatever the result.
Attempts(l) == {b \in Logged(l) : l[b].source # Nil}
Missed(l) == {b \in Attempts(l) : l[b].source = "missed"}

Realized(l) == {b \in Counted(l) : l[b].result # Nil /\ l[b].fill # Nil /\ l[b].filled # Nil}
TotalPnl(l) == SumFunction([b \in Realized(l) |-> NetPnl(l[b].result, l[b].fill)])

Weeks(l) == {Week[b] : b \in Sharp(l)}
WeekSum(l, w) == SumFunction([b \in {b \in Sharp(l) : Week[b] = w} |-> l[b].clv])

\* pin_clvs
Sample(l) == [b \in Sharp(l) |-> l[b].clv]

\* sharp_ci[0] > min_effect_size.  A percentile's lower end is the worst week's mean.
LowerBoundExceeds(l) ==
  /\ Sharp(l) # {}
  /\ IF Cardinality(Weeks(l)) < BcaMinClusters
     THEN \A w \in Weeks(l) : WeekSum(l, w) > 0
     ELSE Sample(l) \in BcaPasses

\* Variant: it is enough that a result is known.
RoiKnown(l) == Realized(l) # {}

\* roi is not None and roi >= 0
RoiHolds(l) == Realized(l) # {} /\ TotalPnl(l) >= 0

\* missed_rate <= max_missed_capture_rate
MissedHolds(l) == MissDen * Cardinality(Missed(l)) <= MissNum * Cardinality(Attempts(l))

GoLive(l) ==
  /\ LowerBoundExceeds(l)
  /\ Cardinality(Sharp(l)) >= MinBets
  /\ Cardinality(Weeks(l)) >= MinWeeks
  /\ CoverDen * Cardinality(Sharp(l)) >= CoverNum * Cardinality(Closed(l))
  /\ RoiHolds(l)
  /\ MissedHolds(l)
-----------------------------------------------------------------------------
(* What happens to the log. *)

LogBet(b) == log[b] = Nil /\ log' = [log EXCEPT ![b] = Fresh]

\* _mark_missed, of a row that has no close.
Miss(b) ==
  /\ log[b] # Nil /\ ~IsClosed(log[b])
  /\ log' = [log EXCEPT ![b].source = "missed"]

\* capture_close: Kalshi's mid, a sharp reference, or both.
Close(b) ==
  /\ log[b] # Nil /\ ~IsClosed(log[b])
  /\ \E mid \in BOOLEAN, ref \in {"pinnacle", "consensus", Nil}, clv \in Clvs \cup {Nil} :
       /\ mid \/ ref # Nil
       /\ ref = Nil <=> clv = Nil
       /\ log' = [log EXCEPT ![b] = [@ EXCEPT !.mid = mid, !.ref = ref, !.clv = clv,
                    !.source = IF mid THEN "captured" ELSE "sharp_only"]]

\* auto_record_result: at the logged price and size, and only where no result is.
AutoResult(b) ==
  /\ log[b] # Nil /\ log[b].result = Nil
  /\ \/ log' = [log EXCEPT ![b] = Voided(@)]
     \/ \E result \in {"win", "loss"} :
          b \in Sized /\ log' = [log EXCEPT ![b] = Scored(@, result, Entry)]

\* run_result: the owner's word, over whatever was recorded; a bet without a size
\* needs one typed, which it may be.
OwnerResult(b) ==
  /\ log[b] # Nil
  /\ \/ log' = [log EXCEPT ![b] = Voided(@)]
     \/ \E result \in {"win", "loss"}, fill \in Fills :
          log' = [log EXCEPT ![b] = Scored(@, result, fill)]

Next == \E b \in Bets : LogBet(b) \/ Miss(b) \/ Close(b) \/ AutoResult(b) \/ OwnerResult(b)

Spec == Init /\ [][Next]_log
-----------------------------------------------------------------------------
(* Properties. *)

\* What is left of a log whose Kalshi mids, consensus references and voided closes
\* are forgotten; the attempts stay attempts.
OnlyPinnacle(l) ==
  [b \in Bets |->
     IF l[b] = Nil THEN Nil
     ELSE IF l[b].ref = "pinnacle" /\ l[b].result # "void"
          THEN [l[b] EXCEPT !.mid = FALSE]
          ELSE [l[b] EXCEPT !.mid = FALSE, !.ref = Nil, !.clv = Nil]]

\* clv.summarize, "PINNACLE only (a soft-book consensus is NOT a sharp line, so it
\* can't authorize real money)": an open gate stays open when every other kind of
\* close is taken out of the log; they can only hold it shut.
OnlySharpEvidenceOpens == GoLive(log) => GoLive(OnlyPinnacle(log))

\* clv.summarize, "the realized-ROI + capture-health co-gates keep a rosy CLV on a
\* biased/thin subsample from green-lighting real money": to learn that a bet was
\* lost, or that a closing line was missed, never opens the gate.
BadNewsNeverOpens ==
  [][\A b \in Bets :
       /\ log[b] # Nil
       /\ \/ log[b].result \in {"win", Nil} /\ log'[b].result = "loss"
          \/ log[b].source # "missed" /\ log'[b].source = "missed"
       => (GoLive(log') => GoLive(log))]_log

\* clv.summarize recomputes the P&L that run_result and auto_record_result stored,
\* from the fill they stored with it: over any sequence of results, corrections and
\* voids the two agree.
ReportedPnlIsRecorded ==
  TotalPnl(log) =
    SumFunction([b \in {b \in Logged(log) : log[b].result \in {"win", "loss"}} |-> log[b].pnl])
=============================================================================
