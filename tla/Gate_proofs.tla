----------------------------- MODULE Gate_proofs ----------------------------
(***************************************************************************)
(* Theorems about Gate, for every log of any number of weeks, every set of *)
(* thresholds and whatever the BCa bootstrap makes of a sample.            *)
(*                                                                         *)
(* Inv is inductive: beside the types it says that the row of a win or a   *)
(* loss holds the fill its P&L was computed from.  Two sums are equal when *)
(* they add the same numbers; that bad news lowers one needs the equation  *)
(* of a sum, which is proved here from the definition of the fold.         *)
(***************************************************************************)
EXTENDS Gate, FiniteSetTheorems, WellFoundedInduction, TLAPS

PnlOfFill(row) ==
  row.result \in {"win", "loss"} =>
    row.fill # Nil /\ row.filled # Nil /\ row.pnl = NetPnl(row.result, row.fill)

Inv == TypeOK /\ \A b \in Logged(log) : PnlOfFill(log[b])

-----------------------------------------------------------------------------
(* Rows. *)

\* A P&L is a whole number of cents.
LEMMA PnlType ==
  ASSUME NEW result, NEW fill \in Fills
  PROVE  NetPnl(result, fill) \in Int
<1>1. fill \in Int BY PriceAssumption
<1> DEFINE n == FeeNum * Contracts * fill * (100 - fill) + FeeDen * 100 - 1
           d == FeeDen * 100
<1>2. n \in Int BY <1>1, PriceAssumption
<1>3. d \in Int /\ d > 0 BY PriceAssumption
<1> HIDE DEF n, d
<1>4. n \div d \in Int BY <1>2, <1>3
<1>5. Fee(fill) = n \div d BY DEF Fee, n, d
<1> QED BY <1>1, <1>4, <1>5, PriceAssumption DEF NetPnl

\* A new row is a row.
LEMMA FreshType == Fresh \in Row /\ PnlOfFill(Fresh)
BY NilAssumption DEF Fresh, Row, PnlOfFill

\* A result leaves a row, whose P&L is that of its fill.
LEMMA ResultType ==
  ASSUME NEW row \in Row, NEW result \in {"win", "loss"}, NEW fill \in Fills
  PROVE  /\ Scored(row, result, fill) \in Row /\ PnlOfFill(Scored(row, result, fill))
         /\ Voided(row) \in Row /\ PnlOfFill(Voided(row))
<1>1. NetPnl(result, fill) \in Int BY PnlType
<1>2. fill # Nil /\ Contracts # Nil BY NilAssumption, PriceAssumption
<1>3. Voided(row) \in Row /\ Voided(row).result = "void"
  <2>1. "void" \in {"win", "loss", "void", Nil} /\ 0 \in Int \cup {Nil} OBVIOUS
  <2>2. \A void \in {"win", "loss", "void", Nil}, pnl \in Int \cup {Nil} :
          /\ [row EXCEPT !.result = void, !.pnl = pnl] \in Row
          /\ [row EXCEPT !.result = void, !.pnl = pnl].result = void
    BY DEF Row
  <2> QED BY <2>1, <2>2 DEF Voided
<1>4. \A pnl \in Int :
        /\ [row EXCEPT !.result = result, !.fill = fill, !.filled = Contracts, !.pnl = pnl] \in Row
        /\ [row EXCEPT !.result = result, !.fill = fill, !.filled = Contracts, !.pnl = pnl].result
             = result
        /\ [row EXCEPT !.result = result, !.fill = fill, !.filled = Contracts, !.pnl = pnl].fill = fill
        /\ [row EXCEPT !.result = result, !.fill = fill, !.filled = Contracts, !.pnl = pnl].filled
             = Contracts
        /\ [row EXCEPT !.result = result, !.fill = fill, !.filled = Contracts, !.pnl = pnl].pnl = pnl
  BY DEF Row
<1>5. PnlOfFill(Voided(row)) BY <1>3 DEF PnlOfFill
<1> QED BY <1>1, <1>2, <1>3, <1>4, <1>5 DEF Scored, PnlOfFill

\* So does a close or a miss.
LEMMA CaptureType ==
  ASSUME NEW row \in Row, PnlOfFill(row), NEW mid \in BOOLEAN,
         NEW ref \in {"pinnacle", "consensus", Nil}, NEW clv \in Clvs \cup {Nil},
         NEW source \in {"captured", "sharp_only", "missed"}
  PROVE  /\ [row EXCEPT !.source = source] \in Row
         /\ PnlOfFill([row EXCEPT !.source = source])
         /\ [row EXCEPT !.mid = mid, !.ref = ref, !.clv = clv, !.source = source] \in Row
         /\ PnlOfFill([row EXCEPT !.mid = mid, !.ref = ref, !.clv = clv, !.source = source])
BY DEF Row, PnlOfFill

\* Writing one row keeps the rest of the log as it is.
LEMMA OneRow ==
  ASSUME Inv, NEW b \in Bets, NEW row \in Row, PnlOfFill(row), log' = [log EXCEPT ![b] = row]
  PROVE  Inv'
<1>1. TypeOK' BY DEF Inv, TypeOK
<1>2. ASSUME NEW c \in Logged(log)' PROVE PnlOfFill(log[c])'
  <2>1. c \in Bets BY <1>2 DEF Logged, Inv, TypeOK
  <2>2. CASE c = b
    <3>1. log'[c] = row BY <2>2 DEF Inv, TypeOK
    <3> QED BY <3>1
  <2>3. CASE c # b
    <3>1. log'[c] = log[c] /\ c \in Logged(log) BY <1>2, <2>1, <2>3 DEF Logged, Inv, TypeOK
    <3> QED BY <3>1 DEF Inv
  <2> QED BY <2>2, <2>3
<1> QED BY <1>1, <1>2 DEF Inv

-----------------------------------------------------------------------------
(* The invariant. *)

LEMMA InitInv == Init => Inv
BY DEF Init, Inv, TypeOK, Logged

LEMMA NextInv ==
  ASSUME Inv, Next
  PROVE  Inv'
<1> PICK b \in Bets : LogBet(b) \/ Miss(b) \/ Close(b) \/ AutoResult(b) \/ OwnerResult(b)
  BY DEF Next
<1>1. log[b] # Nil => log[b] \in Row /\ PnlOfFill(log[b])
  BY DEF Inv, TypeOK, Logged
<1>2. CASE LogBet(b) BY <1>2, OneRow, FreshType DEF LogBet
<1>3. CASE Miss(b)
  <2>1. log' = [log EXCEPT ![b] = [log[b] EXCEPT !.source = "missed"]]
    BY <1>3 DEF Miss, Inv, TypeOK
  <2>2. log[b] # Nil BY <1>3 DEF Miss
  <2>3. /\ [log[b] EXCEPT !.source = "missed"] \in Row
        /\ PnlOfFill([log[b] EXCEPT !.source = "missed"])
    BY <1>1, <2>2, CaptureType
  <2> QED BY <2>1, <2>3, OneRow
<1>4. CASE Close(b)
  <2>1. PICK mid \in BOOLEAN, ref \in {"pinnacle", "consensus", Nil}, clv \in Clvs \cup {Nil} :
          log' = [log EXCEPT ![b] = [@ EXCEPT !.mid = mid, !.ref = ref, !.clv = clv,
                    !.source = IF mid THEN "captured" ELSE "sharp_only"]]
    BY <1>4 DEF Close
  <2> DEFINE source == IF mid THEN "captured" ELSE "sharp_only"
             row == [log[b] EXCEPT !.mid = mid, !.ref = ref, !.clv = clv, !.source = source]
  <2>2. log' = [log EXCEPT ![b] = row] BY <2>1 DEF Inv, TypeOK
  <2>3. log[b] # Nil BY <1>4 DEF Close
  <2>4. source \in {"captured", "sharp_only", "missed"} OBVIOUS
  <2>5. row \in Row /\ PnlOfFill(row)
    <3> HIDE DEF source
    <3> QED BY <1>1, <2>3, <2>4, CaptureType
  <2> HIDE DEF row
  <2> QED BY <2>2, <2>5, OneRow
<1>5. CASE AutoResult(b) \/ OwnerResult(b)
  <2>1. log[b] # Nil BY <1>5 DEF AutoResult, OwnerResult
  <2>2. Entry \in Fills BY PriceAssumption
  <2>3. \/ log' = [log EXCEPT ![b] = Voided(log[b])]
        \/ \E result \in {"win", "loss"}, fill \in Fills :
             log' = [log EXCEPT ![b] = Scored(log[b], result, fill)]
    BY <1>5, <2>2 DEF AutoResult, OwnerResult, Inv, TypeOK
  <2>4. CASE log' = [log EXCEPT ![b] = Voided(log[b])]
    <3>1. Voided(log[b]) \in Row /\ PnlOfFill(Voided(log[b])) BY <1>1, <2>1, <2>2, ResultType
    <3> QED BY <2>4, <3>1, OneRow
  <2>5. CASE \E result \in {"win", "loss"}, fill \in Fills :
               log' = [log EXCEPT ![b] = Scored(log[b], result, fill)]
    <3>1. PICK result \in {"win", "loss"}, fill \in Fills :
            log' = [log EXCEPT ![b] = Scored(log[b], result, fill)]
      BY <2>5
    <3>2. Scored(log[b], result, fill) \in Row /\ PnlOfFill(Scored(log[b], result, fill))
      BY <1>1, <2>1, ResultType
    <3> QED BY <3>1, <3>2, OneRow
  <2> QED BY <2>3, <2>4, <2>5
<1> QED BY <1>2, <1>3, <1>4, <1>5

LEMMA InvHolds == Spec => []Inv
<1>1. Inv /\ UNCHANGED log => Inv' BY DEF Inv, TypeOK, Logged, PnlOfFill
<1> QED BY InitInv, NextInv, <1>1, PTL DEF Spec

-----------------------------------------------------------------------------
(* The theorems. *)

\* Every row keeps its type: no write leaves a column with what it cannot hold.
THEOREM TypeCorrect == Spec => []TypeOK
<1>1. Inv => TypeOK BY DEF Inv
<1> QED BY InvHolds, <1>1, PTL

\* clv.summarize reports the P&L that was recorded with the results.
THEOREM ReportIsTheRecord == Spec => []ReportedPnlIsRecorded
<1>1. ASSUME Inv PROVE ReportedPnlIsRecorded
  <2> DEFINE S == {b \in Logged(log) : log[b].result \in {"win", "loss"}}
  <2>1. \A b \in Logged(log) : log[b] \in Row BY <1>1 DEF Inv, TypeOK, Logged
  <2>2. Realized(log) = S
    BY <1>1, <2>1, NilAssumption DEF Realized, Counted, Inv, PnlOfFill, Row
  <2>3. \A b \in S : NetPnl(log[b].result, log[b].fill) = log[b].pnl
    BY <1>1 DEF Inv, PnlOfFill
  <2>4. [b \in Realized(log) |-> NetPnl(log[b].result, log[b].fill)] = [b \in S |-> log[b].pnl]
    BY <2>2, <2>3
  <2> QED BY <2>4 DEF ReportedPnlIsRecorded, TotalPnl
<1> QED BY InvHolds, <1>1, PTL

\* A larger closed book only makes the coverage harder to reach.
LEMMA CoverageMonotone ==
  ASSUME NEW n \in Nat, NEW c \in Nat, NEW d \in Nat, d <= c,
         CoverDen * n >= CoverNum * c
  PROVE  CoverDen * n >= CoverNum * d
<1>1. PICK e \in Nat : c = d + e
  <2>1. c - d \in Nat /\ c = d + (c - d) OBVIOUS
  <2> QED BY <2>1
<1>2. CoverNum * c = CoverNum * d + CoverNum * e BY <1>1, GateAssumption
<1>3. CoverNum * e \in Nat /\ CoverNum * d \in Nat /\ CoverDen * n \in Nat BY GateAssumption
<1> QED BY <1>2, <1>3

\* Nothing but closes of Pinnacle can open the gate: an open gate stays open when
\* every other close is taken out of the log.
THEOREM PinnacleOpensTheGate == Spec => []OnlySharpEvidenceOpens
<1>1. ASSUME TypeOK PROVE OnlySharpEvidenceOpens
  <2> DEFINE o == OnlyPinnacle(log)
  <2>1. \A b \in Logged(log) : b \in Bets /\ log[b] \in Row BY <1>1 DEF TypeOK, Logged
  <2>2. DOMAIN o = Bets /\ DOMAIN log = Bets BY <1>1 DEF OnlyPinnacle, TypeOK
  <2>3. \A b \in Bets : b \notin Logged(log) => o[b] = Nil
    BY <2>2 DEF OnlyPinnacle, Logged
  <2>4. ASSUME NEW b \in Logged(log)
        PROVE  /\ o[b] \in Row
               /\ o[b].result = log[b].result /\ o[b].fill = log[b].fill
               /\ o[b].filled = log[b].filled /\ o[b].source = log[b].source
               /\ ~o[b].mid
               /\ IF log[b].ref = "pinnacle" /\ log[b].result # "void"
                  THEN o[b].ref = "pinnacle" /\ o[b].clv = log[b].clv
                  ELSE o[b].ref = Nil
    <3>1. log[b] # Nil /\ log[b] \in Row /\ b \in Bets BY <2>1, <2>4 DEF Logged
    <3>2. o[b] = IF log[b].ref = "pinnacle" /\ log[b].result # "void"
                 THEN [log[b] EXCEPT !.mid = FALSE]
                 ELSE [log[b] EXCEPT !.mid = FALSE, !.ref = Nil, !.clv = Nil]
      BY <3>1 DEF OnlyPinnacle
    <3> QED BY <3>1, <3>2 DEF Row
  <2> HIDE DEF o
  <2>5. Logged(o) = Logged(log)
    BY <2>1, <2>2, <2>3, <2>4, NilAssumption DEF Logged
  <2>6. Counted(o) = Counted(log) BY <2>4, <2>5 DEF Counted
  <2>7. Sharp(o) = Sharp(log)
    BY <2>4, <2>6, NilAssumption DEF Sharp, Counted
  <2>8. Weeks(o) = Weeks(log) BY <2>7 DEF Weeks
  <2>9. \A w : WeekSum(o, w) = WeekSum(log, w)
    <3>1. \A b \in Sharp(log) : o[b].clv = log[b].clv BY <2>4 DEF Sharp, Counted
    <3> TAKE w
    <3>2. [b \in {b \in Sharp(o) : Week[b] = w} |-> o[b].clv]
            = [b \in {b \in Sharp(log) : Week[b] = w} |-> log[b].clv]
      BY <2>7, <3>1
    <3> QED BY <3>2 DEF WeekSum
  <2>10. Sample(o) = Sample(log)
    <3>1. \A b \in Sharp(log) : o[b].clv = log[b].clv BY <2>4 DEF Sharp, Counted
    <3> QED BY <2>7, <3>1 DEF Sample
  <2>11. /\ IsFiniteSet(Closed(log)) /\ IsFiniteSet(Sharp(log))
         /\ Closed(o) \subseteq Closed(log)
    <3>1. Closed(log) \subseteq Bets /\ Sharp(log) \subseteq Bets
      BY <2>1 DEF Closed, Sharp, Counted
    <3>2. Closed(o) \subseteq Closed(log)
      BY <2>4, <2>6 DEF Closed, Counted, IsClosed, Row
    <3> QED BY <3>1, <3>2, BetsAssumption, FS_Subset
  <2>12. /\ Cardinality(Closed(o)) \in Nat /\ Cardinality(Closed(log)) \in Nat
         /\ Cardinality(Closed(o)) <= Cardinality(Closed(log))
         /\ Cardinality(Sharp(log)) \in Nat
    BY <2>11, FS_Subset, FS_CardinalityType
  <2>13. Attempts(o) = Attempts(log) BY <2>4, <2>5 DEF Attempts
  <2>14. Missed(o) = Missed(log) BY <2>4, <2>13 DEF Missed, Attempts
  <2>15. Realized(o) = Realized(log) BY <2>4, <2>6 DEF Realized, Counted
  <2>16. TotalPnl(o) = TotalPnl(log)
    <3>1. \A b \in Realized(log) : o[b].result = log[b].result /\ o[b].fill = log[b].fill
      BY <2>4 DEF Realized, Counted
    <3>2. [b \in Realized(o) |-> NetPnl(o[b].result, o[b].fill)]
            = [b \in Realized(log) |-> NetPnl(log[b].result, log[b].fill)]
      BY <2>15, <3>1
    <3> QED BY <3>2 DEF TotalPnl
  <2>17. ASSUME GoLive(log) PROVE GoLive(o)
    <3>1. LowerBoundExceeds(o)
      BY <2>7, <2>8, <2>9, <2>17, <2>10 DEF GoLive, LowerBoundExceeds
    <3>2. /\ Cardinality(Sharp(o)) >= MinBets
          /\ Cardinality(Weeks(o)) >= MinWeeks
          /\ MissedHolds(o) /\ RoiHolds(o)
      BY <2>7, <2>8, <2>13, <2>14, <2>15, <2>16, <2>17 DEF GoLive, MissedHolds, RoiHolds
    <3>3. CoverDen * Cardinality(Sharp(o)) >= CoverNum * Cardinality(Closed(o))
      <4>1. CoverDen * Cardinality(Sharp(log)) >= CoverNum * Cardinality(Closed(log))
        BY <2>17 DEF GoLive
      <4> QED BY <2>7, <2>12, <4>1, CoverageMonotone
    <3> QED BY <3>1, <3>2, <3>3 DEF GoLive
  <2> QED BY <2>17 DEF OnlySharpEvidenceOpens, o
<1> QED BY TypeCorrect, <1>1, PTL
-----------------------------------------------------------------------------
(* Sums. *)

\* A nonempty set of numbers has a least element.
LEMMA LeastNumber ==
  ASSUME NEW S \in SUBSET Nat, S # {}
  PROVE  \E n \in S : \A k \in S : n <= k
<1>1. PICK Less : /\ IsWellFoundedOn(Less, Nat)
                  /\ \A m, n \in Nat : m < n => <<m, n>> \in Less
  <2>1. \A m, n \in Nat : m < n => <<m, n>> \in OpToRel(<, Nat) BY DEF OpToRel
  <2> QED BY <2>1, NatLessThanWellFounded
<1>2. PICK n \in S : \A k \in S : <<k, n>> \notin Less
  <2>1. IsWellFoundedOn(Less, Nat) BY <1>1
  <2> QED BY <2>1, WFMin
<1>3. ASSUME NEW k \in S PROVE n <= k
  <2>1. n \in Nat /\ k \in Nat OBVIOUS
  <2>2. ~(k < n) BY <1>1, <1>2, <2>1
  <2> QED BY <2>1, <2>2
<1> QED BY <1>3

\* Induction on the subsets of a finite set, stated with a set of subsets.
LEMMA SubsetInduction ==
  ASSUME NEW S, IsFiniteSet(S), NEW D,
         \A s \in SUBSET S : (\A r \in SUBSET s : r # s => r \in D) => s \in D
  PROVE  S \in D
<1> DEFINE Open == {Cardinality(s) : s \in (SUBSET S) \ D}
<1>1. \A s \in SUBSET S : IsFiniteSet(s) /\ Cardinality(s) \in Nat
  BY FS_Subset, FS_CardinalityType
<1>2. Open \subseteq Nat BY <1>1
<1>3. ASSUME Open # {} PROVE FALSE
  <2>1. PICK n \in Open : \A m \in Open : n <= m
    <3> HIDE DEF Open
    <3> QED BY <1>2, <1>3, LeastNumber
  <2>2. PICK s \in (SUBSET S) \ D : Cardinality(s) = n BY <2>1
  <2>3. PICK r \in SUBSET s : r # s /\ r \notin D BY <2>2
  <2>4. Cardinality(r) \in Open /\ r \subseteq s BY <2>2, <2>3
  <2>5. Cardinality(r) < Cardinality(s)
    <3>1. Cardinality(r) <= Cardinality(s) /\ (Cardinality(r) = Cardinality(s) => r = s)
      BY <1>1, <2>2, <2>4, FS_Subset
    <3>2. Cardinality(r) \in Nat /\ Cardinality(s) \in Nat BY <1>1, <2>2, <2>4
    <3> QED BY <2>3, <3>1, <3>2
  <2>6. Cardinality(s) <= Cardinality(r) BY <2>1, <2>2, <2>4
  <2>7. Cardinality(r) \in Nat /\ Cardinality(s) \in Nat BY <1>1, <2>2, <2>4
  <2> QED BY <2>5, <2>6, <2>7
<1> QED BY <1>3

\* The element that a sum takes out of a set, and the rest.
First(s) == CHOOSE x \in s : TRUE
Rest(s) == s \ {First(s)}

\* g holds the sum of every subset of S.
Sums(f, S, g) ==
  g = [s \in SUBSET S |-> IF s = {} THEN 0 ELSE f[First(s)] + g[Rest(s)]]

LEMMA SumFold ==
  ASSUME NEW f, NEW S
  PROVE  SumFunctionOnSet(f, S) = (CHOOSE g : Sums(f, S, g))[S]
BY DEF SumFunctionOnSet, FoldFunctionOnSet, MapThenFoldSet, Sums, First, Rest

LEMMA RestIsSmaller ==
  ASSUME NEW s, s # {}
  PROVE  First(s) \in s /\ Rest(s) \subseteq s /\ Rest(s) # s
BY DEF First, Rest

\* Two such functions agree where both are defined.
LEMMA SumsAgree ==
  ASSUME NEW f, NEW S, NEW R, NEW g, NEW h, Sums(f, S, g), Sums(f, R, h),
         NEW u, u \subseteq S, u \subseteq R, IsFiniteSet(u)
  PROVE  g[u] = h[u]
<1> DEFINE D == {s \in SUBSET u : g[s] = h[s]}
<1>1. ASSUME NEW s \in SUBSET u, \A r \in SUBSET s : r # s => r \in D
      PROVE  s \in D
  <2>1. g[s] = IF s = {} THEN 0 ELSE f[First(s)] + g[Rest(s)] BY DEF Sums
  <2>2. h[s] = IF s = {} THEN 0 ELSE f[First(s)] + h[Rest(s)] BY DEF Sums
  <2>3. s # {} => g[Rest(s)] = h[Rest(s)] BY <1>1, RestIsSmaller
  <2> QED BY <2>1, <2>2, <2>3
<1> HIDE DEF D
<1>2. u \in D BY <1>1, SubsetInduction
<1> QED BY <1>2 DEF D

\* A finite set has one.
LEMMA SumsExist ==
  ASSUME NEW f, NEW S, IsFiniteSet(S)
  PROVE  \E g : Sums(f, S, g)
<1> DEFINE Sum(s) == (CHOOSE g : Sums(f, s, g))[s]
           D == {s \in SUBSET S : \E g : Sums(f, s, g)}
           T(v) == [s \in SUBSET v |-> IF s = {} THEN 0 ELSE f[First(s)] + Sum(Rest(s))]
<1>1. ASSUME NEW v \in SUBSET S, \A r \in SUBSET v : r # v => r \in D
      PROVE  v \in D
  <2>1. ASSUME NEW r \in SUBSET v, r # v PROVE Sums(f, r, CHOOSE g : Sums(f, r, g))
    <3>1. \E g : Sums(f, r, g) BY <1>1, <2>1
    <3> QED BY <3>1
  <2>2. ASSUME NEW r \in SUBSET v, r # v PROVE T(v)[r] = Sum(r)
    <3>1. PICK g : g = CHOOSE h : Sums(f, r, h) OBVIOUS
    <3>2. Sums(f, r, g) BY <2>1, <2>2, <3>1
    <3>3. Sum(r) = IF r = {} THEN 0 ELSE f[First(r)] + g[Rest(r)]
      BY <3>1, <3>2 DEF Sums
    <3>4. ASSUME r # {} PROVE g[Rest(r)] = Sum(Rest(r))
      <4>1. PICK q : q = Rest(r) OBVIOUS
      <4>2. q \in SUBSET v /\ q # v /\ q \subseteq r
        BY <2>2, <3>4, <4>1, RestIsSmaller
      <4>3. IsFiniteSet(q) BY <4>2, FS_Subset
      <4>4. Sums(f, q, CHOOSE h : Sums(f, q, h)) BY <2>1, <4>2
      <4> QED BY <3>2, <4>1, <4>2, <4>3, <4>4, SumsAgree
    <3>5. T(v)[r] = IF r = {} THEN 0 ELSE f[First(r)] + Sum(Rest(r))
      <4> HIDE DEF Sum
      <4> QED OBVIOUS
    <3> HIDE DEF T, Sum
    <3> QED BY <3>3, <3>4, <3>5
  <2>3. PICK t : t = T(v) OBVIOUS
  <2>4. t = [s \in SUBSET v |-> IF s = {} THEN 0 ELSE f[First(s)] + Sum(Rest(s))] BY <2>3
  <2>5. \A s \in SUBSET v : s # {} => t[Rest(s)] = Sum(Rest(s))
    <3> HIDE DEF T, Sum
    <3> SUFFICES ASSUME NEW s \in SUBSET v, s # {} PROVE t[Rest(s)] = Sum(Rest(s)) OBVIOUS
    <3>1. Rest(s) \in SUBSET v /\ Rest(s) # v BY RestIsSmaller
    <3> QED BY <2>2, <2>3, <3>1
  <2>6. Sums(f, v, t)
    <3> HIDE DEF T, Sum
    <3> QED BY <2>4, <2>5 DEF Sums
  <2> QED BY <2>6
<1> HIDE DEF D
<1>2. S \in D BY <1>1, SubsetInduction
<1> QED BY <1>2 DEF D

\* The equation of a sum.
LEMMA SumEquation ==
  ASSUME NEW f, NEW S, IsFiniteSet(S)
  PROVE  SumFunctionOnSet(f, S) =
           IF S = {} THEN 0 ELSE f[First(S)] + SumFunctionOnSet(f, Rest(S))
<1>1. PICK g : g = CHOOSE h : Sums(f, S, h) OBVIOUS
<1>2. PICK h : h = CHOOSE k : Sums(f, Rest(S), k) OBVIOUS
<1>3. Rest(S) \subseteq S /\ IsFiniteSet(Rest(S)) BY FS_Subset DEF Rest
<1>4. Sums(f, S, g) /\ Sums(f, Rest(S), h) BY <1>1, <1>2, <1>3, SumsExist
<1>5. g[S] = IF S = {} THEN 0 ELSE f[First(S)] + g[Rest(S)] BY <1>4 DEF Sums
<1>6. g[Rest(S)] = h[Rest(S)] BY <1>3, <1>4, SumsAgree
<1>7. SumFunctionOnSet(f, S) = g[S] BY <1>1, SumFold
<1>8. SumFunctionOnSet(f, Rest(S)) = h[Rest(S)] BY <1>2, SumFold
<1> QED BY <1>5, <1>6, <1>7, <1>8

\* The sum of nothing.
LEMMA SumOfNone ==
  ASSUME NEW f
  PROVE  SumFunctionOnSet(f, {}) = 0
<1>1. PICK e : e = {} OBVIOUS
<1>2. IsFiniteSet(e) BY <1>1, FS_EmptySet
<1>3. SumFunctionOnSet(f, e) = 0 BY <1>1, <1>2, SumEquation
<1> QED BY <1>1, <1>3

\* A sum of whole numbers is one.
LEMMA SumType ==
  ASSUME NEW f, NEW S, IsFiniteSet(S), \A x \in S : f[x] \in Int
  PROVE  SumFunctionOnSet(f, S) \in Int
<1> DEFINE D == {s \in SUBSET S : SumFunctionOnSet(f, s) \in Int}
<1>1. ASSUME NEW s \in SUBSET S, \A r \in SUBSET s : r # s => r \in D
      PROVE  s \in D
  <2>1. IsFiniteSet(s) BY FS_Subset
  <2>2. CASE s = {} BY <2>2, SumOfNone
  <2>3. CASE s # {}
    <3>1. First(s) \in s /\ SumFunctionOnSet(f, Rest(s)) \in Int BY <1>1, <2>3, RestIsSmaller
    <3>2. SumFunctionOnSet(f, s) = f[First(s)] + SumFunctionOnSet(f, Rest(s))
      BY <2>1, <2>3, SumEquation
    <3> QED BY <3>1, <3>2
  <2> QED BY <2>2, <2>3
<1> HIDE DEF D
<1>2. S \in D BY <1>1, SubsetInduction
<1> QED BY <1>2 DEF D

\* Any element may be taken out of a sum first.
LEMMA SumTakesOut ==
  ASSUME NEW f, NEW S, IsFiniteSet(S), \A x \in S : f[x] \in Int, NEW b \in S
  PROVE  SumFunctionOnSet(f, S) = f[b] + SumFunctionOnSet(f, S \ {b})
<1> DEFINE D == {s \in SUBSET S : \A x \in s :
                   SumFunctionOnSet(f, s) = f[x] + SumFunctionOnSet(f, s \ {x})}
<1>1. ASSUME NEW s \in SUBSET S, \A r \in SUBSET s : r # s => r \in D, NEW x \in s
      PROVE  SumFunctionOnSet(f, s) = f[x] + SumFunctionOnSet(f, s \ {x})
  <2>1. IsFiniteSet(s) /\ s # {} BY FS_Subset
  <2>2. PICK y : y = First(s) OBVIOUS
  <2>3. y \in s /\ SumFunctionOnSet(f, s) = f[y] + SumFunctionOnSet(f, s \ {y})
    BY <2>1, <2>2, RestIsSmaller, SumEquation DEF Rest
  <2>4. CASE x = y BY <2>3, <2>4
  <2>5. CASE x # y
    <3>1. PICK u : u = s \ {x, y} OBVIOUS
    <3>2. /\ u = (s \ {x}) \ {y} /\ u = (s \ {y}) \ {x}
          /\ x \in s \ {y} /\ y \in s \ {x} /\ s \ {x} # s /\ s \ {y} # s
      BY <2>3, <2>5, <3>1
    <3>3. SumFunctionOnSet(f, s \ {y}) = f[x] + SumFunctionOnSet(f, u) BY <1>1, <3>2
    <3>4. SumFunctionOnSet(f, s \ {x}) = f[y] + SumFunctionOnSet(f, u) BY <1>1, <3>2
    <3>5. IsFiniteSet(u) /\ \A z \in u : f[z] \in Int BY <2>1, <3>1, FS_Subset
    <3>6. SumFunctionOnSet(f, u) \in Int /\ f[x] \in Int /\ f[y] \in Int
      BY <2>3, <3>5, SumType
    <3> QED BY <2>3, <3>3, <3>4, <3>6
  <2> QED BY <2>4, <2>5
<1>2. \A s \in SUBSET S : (\A r \in SUBSET s : r # s => r \in D) => s \in D
  BY <1>1
<1> HIDE DEF D
<1>3. S \in D BY <1>2, SubsetInduction
<1> QED BY <1>3 DEF D

\* A sum of larger numbers is larger.
LEMMA SumMonotone ==
  ASSUME NEW f, NEW g, NEW S, IsFiniteSet(S),
         \A x \in S : f[x] \in Int /\ g[x] \in Int /\ f[x] <= g[x]
  PROVE  SumFunctionOnSet(f, S) <= SumFunctionOnSet(g, S)
<1> DEFINE D == {s \in SUBSET S : SumFunctionOnSet(f, s) <= SumFunctionOnSet(g, s)}
<1>1. ASSUME NEW s \in SUBSET S, \A r \in SUBSET s : r # s => r \in D
      PROVE  s \in D
  <2>1. IsFiniteSet(s) BY FS_Subset
  <2>2. CASE s = {} BY <2>2, SumOfNone
  <2>3. CASE s # {}
    <3>1. PICK y : y = First(s) OBVIOUS
    <3>2. PICK r : r = Rest(s) OBVIOUS
    <3>3. y \in s /\ r \subseteq s /\ r # s BY <2>3, <3>1, <3>2, RestIsSmaller
    <3>4. SumFunctionOnSet(f, r) <= SumFunctionOnSet(g, r) BY <1>1, <3>3
    <3>5. /\ SumFunctionOnSet(f, s) = f[y] + SumFunctionOnSet(f, r)
          /\ SumFunctionOnSet(g, s) = g[y] + SumFunctionOnSet(g, r)
      BY <2>1, <2>3, <3>1, <3>2, SumEquation
    <3>6. SumFunctionOnSet(f, r) \in Int /\ SumFunctionOnSet(g, r) \in Int
      BY <2>1, <3>3, FS_Subset, SumType
    <3>7. f[y] \in Int /\ g[y] \in Int /\ f[y] <= g[y] BY <3>3
    <3> QED BY <3>4, <3>5, <3>6, <3>7
  <2> QED BY <2>2, <2>3
<1> HIDE DEF D
<1>2. S \in D BY <1>1, SubsetInduction
<1> QED BY <1>2 DEF D

-----------------------------------------------------------------------------
(* Bad news. *)

\* The fee is a dollar per dollar at most: kalshi_fee never takes more than a
\* contract costs, or than it wins.
FeeAtMostOne == FeeNum <= FeeDen

LEMMA NatProduct ==
  ASSUME NEW a \in Nat, NEW b \in Nat
  PROVE  a * b \in Nat
OBVIOUS

LEMMA Monotone ==
  ASSUME NEW a \in Nat, NEW b \in Nat, NEW c \in Nat, a <= b
  PROVE  a * c <= b * c
OBVIOUS

\* A numerator below the next multiple of the divisor.
LEMMA RoundedUpTo ==
  ASSUME NEW x \in Nat, NEW d \in Nat \ {0}, NEW m \in Nat, x <= d * m
  PROVE  (x + d - 1) \div d <= m /\ (x + d - 1) \div d \in Nat
<1> DEFINE n == x + d - 1
           q == n \div d
<1>1. n \in Nat /\ n < d * (m + 1) OBVIOUS
<1>2. q \in Nat /\ d * q <= n
  <2> HIDE DEF n
  <2> QED BY <1>1
<1> HIDE DEF q, n
<1>3. ASSUME q >= m + 1 PROVE FALSE
  <2>1. PICK e \in Nat : q = (m + 1) + e
    <3>1. q - (m + 1) \in Nat /\ q = (m + 1) + (q - (m + 1)) BY <1>2, <1>3
    <3> QED BY <3>1
  <2>2. d * q = d * (m + 1) + d * e BY <2>1
  <2>3. d * e \in Nat /\ d * (m + 1) \in Nat BY NatProduct
  <2> QED BY <1>1, <1>2, <2>2, <2>3
<1>4. q <= m BY <1>2, <1>3
<1> QED BY <1>2, <1>4 DEF q, n

\* A lost bet loses money, whatever its fill, and a won one does not.
LEMMA LossIsALoss ==
  ASSUME FeeAtMostOne, NEW fill \in Fills
  PROVE  NetPnl("loss", fill) < 0 /\ NetPnl("win", fill) >= 0
<1>1. fill \in 1..99 /\ Contracts \in Nat \ {0} BY PriceAssumption
<1> DEFINE w == Contracts * (100 - fill)
           x == FeeNum * Contracts * fill * (100 - fill)
           d == FeeDen * 100
<1>2. w \in Nat
  <2>1. 100 - fill \in Nat BY <1>1
  <2> QED BY <1>1, <2>1, NatProduct
<1>3. x = (FeeNum * w) * fill
  <2>1. x = FeeNum * (Contracts * (100 - fill)) * fill BY <1>1, PriceAssumption
  <2> QED BY <2>1
<1>4. d \in Nat \ {0} BY PriceAssumption
<1>5. x \in Nat /\ x <= d * w
  <2> HIDE DEF w
  <2>1. FeeNum \in Nat /\ FeeDen \in Nat /\ fill \in Nat /\ fill <= 100 BY <1>1, PriceAssumption
  <2>2. FeeNum * w \in Nat /\ FeeDen * w \in Nat /\ FeeNum * w <= FeeDen * w
    BY <1>2, <2>1, NatProduct, Monotone DEF FeeAtMostOne
  <2>3. PICK u \in Nat : u = FeeNum * w BY <2>2
  <2>4. u * fill \in Nat /\ fill * u <= 100 * u
    <3>1. 100 \in Nat OBVIOUS
    <3>2. u * fill = fill * u BY <2>1
    <3> QED BY <2>1, <3>1, <3>2, NatProduct, Monotone
  <2>5. u * fill = fill * u BY <2>1
  <2>6. d * w = 100 * (FeeDen * w) BY <1>2, <2>1
  <2> HIDE DEF x, d
  <2> QED BY <1>3, <2>2, <2>3, <2>4, <2>5, <2>6
<1>6. Fee(fill) = (x + d - 1) \div d BY DEF Fee
<1> HIDE DEF x, d
<1>7. Fee(fill) \in Nat /\ Fee(fill) <= w BY <1>2, <1>4, <1>5, <1>6, RoundedUpTo
<1>8. Contracts * fill \in Nat /\ Contracts * fill > 0 /\ w = 100 * Contracts - Contracts * fill
  BY <1>1
<1> HIDE DEF w
<1>9. NetPnl("loss", fill) = 0 - Contracts * fill - Fee(fill) BY DEF NetPnl
<1>10. NetPnl("win", fill) = 100 * Contracts - Contracts * fill - Fee(fill) BY DEF NetPnl
<1>11. NetPnl("loss", fill) < 0 BY <1>7, <1>8, <1>9
<1>12. 100 * Contracts \in Int BY <1>1
<1>13. NetPnl("win", fill) >= 0 BY <1>7, <1>8, <1>10, <1>12
<1> QED BY <1>11, <1>13

\* Two logs with the same closes have the same sharp track and the same coverage.
LEMMA SameCloses ==
  ASSUME NEW l, NEW k, Logged(l) = Logged(k),
         \A c \in Logged(l) :
           /\ l[c].result = "void" <=> k[c].result = "void"
           /\ l[c].mid = k[c].mid /\ l[c].ref = k[c].ref /\ l[c].clv = k[c].clv
  PROVE  /\ Counted(l) = Counted(k)
         /\ Sharp(l) = Sharp(k) /\ Closed(l) = Closed(k) /\ Weeks(l) = Weeks(k)
         /\ LowerBoundExceeds(l) <=> LowerBoundExceeds(k)
<1>1. Counted(l) = Counted(k) BY DEF Counted
<1>2. Sharp(l) = Sharp(k) BY <1>1 DEF Sharp, Counted
<1>3. Closed(l) = Closed(k) BY <1>1 DEF Closed, Counted, IsClosed
<1>4. Weeks(l) = Weeks(k) BY <1>2 DEF Weeks
<1>5. \A w : WeekSum(l, w) = WeekSum(k, w)
  <2> TAKE w
  <2>1. \A c \in Sharp(l) : l[c].clv = k[c].clv BY DEF Sharp, Counted
  <2>2. [c \in {c \in Sharp(l) : Week[c] = w} |-> l[c].clv]
          = [c \in {c \in Sharp(k) : Week[c] = w} |-> k[c].clv]
    BY <1>2, <2>1
  <2> QED BY <2>2 DEF WeekSum
<1>6. Sample(l) = Sample(k)
  <2>1. \A c \in Sharp(l) : l[c].clv = k[c].clv BY DEF Sharp, Counted
  <2> QED BY <1>2, <2>1 DEF Sample
<1> QED BY <1>1, <1>2, <1>3, <1>4, <1>5, <1>6 DEF LowerBoundExceeds

\* The P&L of a realized bet.
Pnl(l) == [c \in Realized(l) |-> NetPnl(l[c].result, l[c].fill)]

LEMMA PnlOfLog ==
  ASSUME Inv
  PROVE  /\ IsFiniteSet(Realized(log)) /\ Realized(log) \subseteq Bets
         /\ \A c \in Realized(log) : Pnl(log)[c] \in Int
         /\ Realized(log) = {c \in Bets : log[c] # Nil /\ log[c].result \in {"win", "loss"}}
<1>1. \A c \in Logged(log) : c \in Bets /\ log[c] \in Row BY DEF Inv, TypeOK, Logged
<1>2. Realized(log) \subseteq Bets BY <1>1 DEF Realized, Counted
<1>3. ASSUME NEW c \in Realized(log) PROVE Pnl(log)[c] \in Int
  <2>1. log[c].fill \in Fills BY <1>1, <1>3 DEF Realized, Counted, Row
  <2> QED BY <1>3, <2>1, PnlType DEF Pnl
<1>4. Realized(log) = {c \in Logged(log) : log[c].result \in {"win", "loss"}}
  BY <1>1, NilAssumption DEF Realized, Counted, Inv, PnlOfFill, Row
<1>5. Realized(log) = {c \in Bets : log[c] # Nil /\ log[c].result \in {"win", "loss"}}
  BY <1>1, <1>4 DEF Logged, Inv, TypeOK
<1> QED BY <1>2, <1>3, <1>5, BetsAssumption, FS_Subset

\* A loss that is learned, or takes the place of a win, lowers the P&L: a return that
\* holds with it held without it.
LEMMA LossLowersRoi ==
  ASSUME Inv, FeeAtMostOne, NEW b \in Bets, log[b] # Nil, log[b].result \in {"win", Nil},
         NEW fill \in Fills, log' = [log EXCEPT ![b] = Scored(log[b], "loss", fill)],
         RoiHolds(log')
  PROVE  RoiHolds(log)
<1> DEFINE R == Realized(log)
           f == Pnl(log)
           g == Pnl(log')
<1>1. log[b] \in Row /\ Scored(log[b], "loss", fill) \in Row
      /\ PnlOfFill(Scored(log[b], "loss", fill))
  BY ResultType DEF Inv, TypeOK
<1>2. Inv' BY <1>1, OneRow
<1>3. log'[b] = Scored(log[b], "loss", fill) /\ \A c \in Bets \ {b} : log'[c] = log[c]
  BY DEF Inv, TypeOK
<1>4. log'[b].result = "loss" /\ log'[b].fill = fill /\ log'[b] # Nil
  <2>1. log'[b] # Nil BY <1>1, <1>3, NilAssumption
  <2>2. log[b] \in Row BY <1>1
  <2>3. \A result : /\ Scored(log[b], result, fill).result = result
                   /\ Scored(log[b], result, fill).fill = fill
    BY <2>2 DEF Scored, Row
  <2> QED BY <1>3, <2>1, <2>3
<1>5. /\ IsFiniteSet(R) /\ \A c \in R : f[c] \in Int
      /\ R = {c \in Bets : log[c] # Nil /\ log[c].result \in {"win", "loss"}}
  BY PnlOfLog
<1>6. Realized(log') = {c \in Bets : log'[c] # Nil /\ log'[c].result \in {"win", "loss"}}
  <2>1. \A c \in Logged(log') : c \in Bets /\ log'[c] \in Row
    BY <1>2 DEF Inv, TypeOK, Logged
  <2>2. Realized(log') = {c \in Logged(log') : log'[c].result \in {"win", "loss"}}
    <3>1. \A c \in Logged(log') : log'[c].result \in {"win", "loss"} =>
            log'[c].fill # Nil /\ log'[c].filled # Nil
      BY <1>2 DEF Inv, PnlOfFill
    <3> QED BY <2>1, <3>1, NilAssumption DEF Realized, Counted, Row
  <2>3. DOMAIN log' = Bets BY <1>2 DEF Inv, TypeOK
  <2> QED BY <2>1, <2>2, <2>3 DEF Logged
<1>7. Realized(log') = R \cup {b} BY <1>3, <1>4, <1>5, <1>6
<1>8. g[b] = NetPnl("loss", fill) /\ \A c \in R \ {b} : g[c] = f[c]
  <2>1. g = [c \in R \cup {b} |-> NetPnl(log'[c].result, log'[c].fill)] BY <1>7 DEF Pnl
  <2>2. f = [c \in R |-> NetPnl(log[c].result, log[c].fill)] BY DEF Pnl
  <2>3. \A c \in R \ {b} : log'[c] = log[c] BY <1>3, <1>5
  <2> HIDE DEF R, f, g
  <2>4. g[b] = NetPnl("loss", fill) BY <1>4, <2>1
  <2> QED BY <2>1, <2>2, <2>3, <2>4
<1>9. g[b] \in Int /\ g[b] < 0 BY <1>8, LossIsALoss, PnlType
<1>10. /\ TotalPnl(log) = SumFunctionOnSet(f, R)
       /\ TotalPnl(log') = SumFunctionOnSet(g, R \cup {b})
  BY <1>7 DEF TotalPnl, SumFunction, Pnl
<1>11. TotalPnl(log') >= 0 BY DEF RoiHolds
<1> HIDE DEF R, f, g
<1>12. \A c \in R \cup {b} : g[c] \in Int BY <1>5, <1>8, <1>9
<1>13. CASE b \in R
  <2>1. log[b].result = "win"
    BY <1>5, <1>13, NilAssumption
  <2>2. f[b] = NetPnl("win", log[b].fill) BY <1>13, <2>1 DEF f, R, Pnl
  <2>3. log[b].fill \in Fills
    <3>1. log[b].fill # Nil BY <1>13 DEF R, Realized
    <3> QED BY <1>1, <3>1 DEF Row
  <2>4. f[b] >= 0 BY <2>2, <2>3, LossIsALoss
  <2>5. \A c \in R : g[c] \in Int /\ f[c] \in Int /\ g[c] <= f[c]
    <3> TAKE c \in R
    <3>1. CASE c = b BY <1>5, <1>9, <1>13, <2>4, <3>1
    <3>2. CASE c # b BY <1>5, <1>8, <1>12, <3>2
    <3> QED BY <3>1, <3>2
  <2>6. SumFunctionOnSet(g, R) <= SumFunctionOnSet(f, R) BY <1>5, <2>5, SumMonotone
  <2>7. R \cup {b} = R BY <1>13
  <2>8. SumFunctionOnSet(g, R) \in Int /\ SumFunctionOnSet(f, R) \in Int
    BY <1>5, <2>5, SumType
  <2>9. TotalPnl(log) >= 0 BY <1>10, <1>11, <2>6, <2>7, <2>8
  <2> QED BY <1>13, <2>9 DEF RoiHolds, R
<1>14. CASE b \notin R
  <2>1. (R \cup {b}) \ {b} = R BY <1>14
  <2>2. IsFiniteSet(R \cup {b}) BY <1>5, FS_AddElement
  <2>3. PICK u : u = R \cup {b} OBVIOUS
  <2>4. SumFunctionOnSet(g, u) = g[b] + SumFunctionOnSet(g, u \ {b})
    <3>1. IsFiniteSet(u) /\ b \in u /\ \A c \in u : g[c] \in Int BY <1>12, <2>2, <2>3
    <3> QED BY <3>1, SumTakesOut
  <2>5. \A c \in R : g[c] \in Int /\ f[c] \in Int /\ g[c] <= f[c]
    BY <1>5, <1>8, <1>12, <1>14
  <2>6. SumFunctionOnSet(g, R) <= SumFunctionOnSet(f, R) BY <1>5, <2>5, SumMonotone
  <2>7. SumFunctionOnSet(g, R) \in Int /\ SumFunctionOnSet(f, R) \in Int
    BY <1>5, <2>5, SumType
  <2>8. TotalPnl(log) > 0 BY <1>9, <1>10, <1>11, <2>1, <2>3, <2>4, <2>6, <2>7
  <2>9. R # {}
    <3>1. SumFunctionOnSet(f, {}) = 0 BY SumOfNone
    <3> QED BY <1>10, <2>8, <3>1
  <2>10. TotalPnl(log) >= 0 BY <1>10, <2>7, <2>8
  <2> QED BY <2>9, <2>10 DEF RoiHolds, R
<1> QED BY <1>13, <1>14

\* One more missed line, of one more attempt at most, raises the missed rate.
LEMMA MissRaisesRate ==
  ASSUME NEW m \in Nat, NEW a \in Nat, m <= a, NEW n \in {a, a + 1},
         MissDen * (m + 1) <= MissNum * n
  PROVE  MissDen * m <= MissNum * a
<1>1. MissDen \in Nat /\ MissNum \in Nat BY GateAssumption
<1>2. /\ MissDen * m \in Nat /\ MissNum * a \in Nat /\ MissDen * a \in Nat
      /\ MissDen * (m + 1) = MissDen * m + MissDen /\ MissNum * (a + 1) = MissNum * a + MissNum
  BY <1>1, NatProduct
<1>3. CASE MissNum <= MissDen BY <1>1, <1>2, <1>3
<1>4. CASE MissDen <= MissNum
  <2>1. MissDen * a <= MissNum * a BY <1>1, <1>4, Monotone
  <2>2. m * MissDen <= a * MissDen BY <1>1, Monotone
  <2>3. m * MissDen = MissDen * m /\ a * MissDen = MissDen * a BY <1>1
  <2> QED BY <1>2, <2>1, <2>2, <2>3
<1> QED BY <1>1, <1>3, <1>4

\* BadNewsNeverOpens: to learn that a bet was lost, or that its closing line was
\* missed, never opens the gate.  With a coefficient above one a win at a middling
\* price may have cost more in fees than its correction to a loss at a low one.
THEOREM BadNewsOnlyShuts ==
  ASSUME FeeAtMostOne
  PROVE  Spec => BadNewsNeverOpens
<1>1. ASSUME Inv, [Next]_log, NEW b \in Bets, log[b] # Nil, GoLive(log'),
             \/ log[b].result \in {"win", Nil} /\ log'[b].result = "loss"
             \/ log[b].source # "missed" /\ log'[b].source = "missed"
      PROVE  GoLive(log)
  <2>1. log[b] \in Row BY <1>1 DEF Inv, TypeOK
  <2>2. log'[b] # log[b] BY <1>1, NilAssumption
  <2>3. PICK c \in Bets : LogBet(c) \/ Miss(c) \/ Close(c) \/ AutoResult(c) \/ OwnerResult(c)
    BY <1>1, <2>2 DEF Next
  <2>4. c = b
    <3>1. \A row : [log EXCEPT ![c] = row][b] # log[b] => c = b BY <1>1 DEF Inv, TypeOK
    <3>2. \E row : log' = [log EXCEPT ![c] = row]
      BY <2>3 DEF LogBet, Miss, Close, AutoResult, OwnerResult
    <3> QED BY <2>2, <3>1, <3>2
  <2>5. ~LogBet(b) BY <1>1 DEF LogBet
  <2>6. ~Close(b)
    <3> SUFFICES ASSUME Close(b) PROVE FALSE OBVIOUS
    <3>1. PICK mid \in BOOLEAN, ref \in {"pinnacle", "consensus", Nil}, clv \in Clvs \cup {Nil} :
            log' = [log EXCEPT ![b] = [@ EXCEPT !.mid = mid, !.ref = ref, !.clv = clv,
                      !.source = IF mid THEN "captured" ELSE "sharp_only"]]
      BY DEF Close
    <3>2. log'[b].result = log[b].result /\ log'[b].source # "missed"
      BY <1>1, <2>1, <3>1 DEF Inv, TypeOK, Row
    <3> QED BY <1>1, <3>2, NilAssumption
  <2>7. CASE Miss(b)
    <3>1. log' = [log EXCEPT ![b] = [log[b] EXCEPT !.source = "missed"]]
      BY <2>7 DEF Miss, Inv, TypeOK
    <3>2. /\ DOMAIN log' = Bets /\ DOMAIN log = Bets /\ \A d \in Bets \ {b} : log'[d] = log[d]
          /\ log'[b] = [log[b] EXCEPT !.source = "missed"]
      BY <1>1, <3>1 DEF Inv, TypeOK
    <3>3. log'[b] \in Row BY <2>1, <3>2, CaptureType, <1>1 DEF Inv, Logged, TypeOK
    <3>4. /\ log'[b].result = log[b].result /\ log'[b].mid = log[b].mid
          /\ log'[b].ref = log[b].ref /\ log'[b].clv = log[b].clv
          /\ log'[b].fill = log[b].fill /\ log'[b].filled = log[b].filled
          /\ log'[b].source = "missed"
      BY <2>1, <3>2 DEF Row
    <3>5. Logged(log') = Logged(log) BY <1>1, <3>2, <3>3, NilAssumption DEF Logged
    <3>6. \A d \in Logged(log) :
            /\ log'[d].result = log[d].result /\ log'[d].mid = log[d].mid
            /\ log'[d].ref = log[d].ref /\ log'[d].clv = log[d].clv
            /\ log'[d].fill = log[d].fill /\ log'[d].filled = log[d].filled
      BY <3>2, <3>4 DEF Logged
    <3>7. /\ Counted(log') = Counted(log)
          /\ Sharp(log') = Sharp(log) /\ Closed(log') = Closed(log) /\ Weeks(log') = Weeks(log)
          /\ LowerBoundExceeds(log') <=> LowerBoundExceeds(log)
      BY <3>5, <3>6, SameCloses
    <3>8. RoiHolds(log') => RoiHolds(log)
      <4>1. Realized(log') = Realized(log) BY <3>6, <3>7 DEF Realized, Counted
      <4>2. \A d \in Realized(log) : log'[d].result = log[d].result /\ log'[d].fill = log[d].fill
        BY <3>6 DEF Realized, Counted
      <4>3. [d \in Realized(log') |-> NetPnl(log'[d].result, log'[d].fill)]
              = [d \in Realized(log) |-> NetPnl(log[d].result, log[d].fill)]
        BY <4>1, <4>2
      <4> QED BY <4>1, <4>3 DEF RoiHolds, TotalPnl
    <3>9. MissedHolds(log') => MissedHolds(log)
      <4> DEFINE A == Attempts(log)
                 M == Missed(log)
      <4>1. log[b].source # "missed" BY <1>1, <3>4, NilAssumption
      <4>2. Attempts(log') = A \cup {b} /\ Missed(log') = M \cup {b} /\ b \notin M
        <5>1. b \in Logged(log) BY <1>1, <3>2 DEF Logged
        <5>2. \A d \in Logged(log) \ {b} : log'[d] = log[d] BY <3>2 DEF Logged
        <5>3. Attempts(log') = A \cup {b}
          BY <3>4, <3>5, <5>1, <5>2, NilAssumption DEF Attempts
        <5>4. \A d : d \in M <=> d \in Logged(log) /\ log[d].source = "missed"
          BY NilAssumption DEF Missed, Attempts
        <5>5. \A d : d \in Missed(log') <=> d \in Logged(log) /\ log'[d].source = "missed"
          BY <3>5, NilAssumption DEF Missed, Attempts
        <5>6. Missed(log') = M \cup {b} BY <3>4, <5>1, <5>2, <5>4, <5>5
        <5> QED BY <4>1, <5>3, <5>4, <5>6
      <4>3. M \subseteq A /\ A \subseteq Bets
        BY <3>2 DEF Missed, Attempts, Logged
      <4>4. IsFiniteSet(A) /\ IsFiniteSet(M) BY <4>3, BetsAssumption, FS_Subset
      <4> HIDE DEF A, M
      <4>5. /\ Cardinality(M) \in Nat /\ Cardinality(A) \in Nat
            /\ Cardinality(M) <= Cardinality(A)
            /\ Cardinality(M \cup {b}) = Cardinality(M) + 1
            /\ Cardinality(A \cup {b}) \in {Cardinality(A), Cardinality(A) + 1}
        BY <4>2, <4>3, <4>4, FS_Subset, FS_CardinalityType, FS_AddElement
      <4> SUFFICES ASSUME MissedHolds(log') PROVE MissedHolds(log) OBVIOUS
      <4>6. MissDen * (Cardinality(M) + 1) <= MissNum * Cardinality(A \cup {b})
        BY <4>2, <4>5 DEF MissedHolds
      <4>7. MissDen * Cardinality(M) <= MissNum * Cardinality(A)
        <5>1. PICK m : m = Cardinality(M) OBVIOUS
        <5>2. PICK a : a = Cardinality(A) OBVIOUS
        <5>3. PICK n : n = Cardinality(A \cup {b}) OBVIOUS
        <5> QED BY <4>5, <4>6, <5>1, <5>2, <5>3, MissRaisesRate
      <4> QED BY <4>7 DEF MissedHolds, A, M
    <3> QED BY <1>1, <3>7, <3>8, <3>9 DEF GoLive
  <2>8. CASE AutoResult(b) \/ OwnerResult(b)
    <3>1. Entry \in Fills BY PriceAssumption
    <3>2. \/ log' = [log EXCEPT ![b] = Voided(log[b])]
          \/ \E result \in {"win", "loss"}, fill \in Fills :
               log' = [log EXCEPT ![b] = Scored(log[b], result, fill)]
      BY <1>1, <2>8, <3>1 DEF AutoResult, OwnerResult, Inv, TypeOK
    <3>3. /\ Voided(log[b]).result = "void" /\ Voided(log[b]).source = log[b].source
          /\ \A result, fill : /\ Scored(log[b], result, fill).result = result
                               /\ Scored(log[b], result, fill).source = log[b].source
                               /\ Scored(log[b], result, fill).mid = log[b].mid
                               /\ Scored(log[b], result, fill).ref = log[b].ref
                               /\ Scored(log[b], result, fill).clv = log[b].clv
      BY <2>1 DEF Voided, Scored, Row
    <3>4. /\ DOMAIN log = Bets /\ \A row : /\ DOMAIN [log EXCEPT ![b] = row] = Bets
                                            /\ [log EXCEPT ![b] = row][b] = row
                                            /\ \A d \in Bets \ {b} : [log EXCEPT ![b] = row][d] = log[d]
      BY <1>1 DEF Inv, TypeOK
    <3>5. PICK result \in {"win", "loss"}, fill \in Fills :
            log' = [log EXCEPT ![b] = Scored(log[b], result, fill)]
      BY <1>1, <3>2, <3>3, <3>4
    <3>6. /\ log'[b].result = result /\ log'[b].source = log[b].source
          /\ log'[b].mid = log[b].mid /\ log'[b].ref = log[b].ref /\ log'[b].clv = log[b].clv
      BY <3>3, <3>4, <3>5
    <3>7. result = "loss" /\ log[b].result \in {"win", Nil} BY <1>1, <3>6
    <3>8. RoiHolds(log') => RoiHolds(log) BY <1>1, <3>5, <3>7, LossLowersRoi
    <3>9. Logged(log') = Logged(log)
      <4>1. Scored(log[b], result, fill) \in Row BY <2>1, <3>5, ResultType
      <4>2. log'[b] # Nil BY <3>4, <3>5, <4>1, NilAssumption
      <4> QED BY <1>1, <3>4, <3>5, <4>2 DEF Logged
    <3>10. \A d \in Logged(log) \ {b} : log'[d] = log[d] BY <3>4, <3>5 DEF Logged
    <3>11. \A d \in Logged(log) :
             /\ log'[d].result = "void" <=> log[d].result = "void"
             /\ log'[d].mid = log[d].mid /\ log'[d].ref = log[d].ref /\ log'[d].clv = log[d].clv
      BY <3>6, <3>7, <3>10, NilAssumption
    <3>12. /\ Sharp(log') = Sharp(log) /\ Closed(log') = Closed(log) /\ Weeks(log') = Weeks(log)
           /\ LowerBoundExceeds(log') <=> LowerBoundExceeds(log)
      BY <3>9, <3>11, SameCloses
    <3>13. \A d \in Logged(log) : log'[d].source = log[d].source BY <3>6, <3>10
    <3>14. Attempts(log') = Attempts(log) BY <3>9, <3>13 DEF Attempts
    <3>15. Missed(log') = Missed(log) BY <3>13, <3>14 DEF Missed, Attempts
    <3> QED BY <1>1, <3>8, <3>12, <3>14, <3>15 DEF GoLive, MissedHolds
  <2> QED BY <2>3, <2>4, <2>5, <2>6, <2>7, <2>8
<1>2. Inv /\ [Next]_log =>
        [\A b \in Bets :
          /\ log[b] # Nil
          /\ \/ log[b].result \in {"win", Nil} /\ log'[b].result = "loss"
             \/ log[b].source # "missed" /\ log'[b].source = "missed"
          => (GoLive(log') => GoLive(log))]_log
  BY <1>1
<1> QED BY <1>2, InvHolds, PTL DEF Spec, BadNewsNeverOpens
=============================================================================
