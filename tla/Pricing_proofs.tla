--------------------------- MODULE Pricing_proofs ---------------------------
(***************************************************************************)
(* Theorems about Pricing, for every ladder, every view and every          *)
(* configuration that its assumptions allow.                               *)
(*                                                                         *)
(* Inv is inductive: beside the types, the bids do not cross and a result  *)
(* is the evaluation of the bids and the view it stands beside.  On bids   *)
(* that do not cross at most one side is actionable, and from that follows *)
(* the type of an alert.  The other market of a match has any book of      *)
(* SiblingBooks: the gates of the model do not depend on it, and two edges *)
(* over one chance and its complement bound what two bets cost together.   *)
(***************************************************************************)
EXTENDS Pricing, FiniteSetTheorems, WellFoundedInduction, TLAPS

Books == [Sides -> [Prices -> 0..MaxSize]]

Inv ==
  /\ TypeOK /\ Uncrossed(bids)
  /\ result # Nil => result = Evaluation(bids, view, flat)

-----------------------------------------------------------------------------
(* Numbers. *)

\* A nonempty set of numbers has a least element.
LEMMA LeastNumber ==
  ASSUME NEW S \in SUBSET Nat, S # {}
  PROVE  \E n \in S : \A k \in S : n <= k
<1>1. PICK Less : /\ IsWellFoundedOn(Less, Nat)
                  /\ \A m, n \in Nat : m < n => <<m, n>> \in Less
  <2>1. \A m, n \in Nat : m < n => <<m, n>> \in OpToRel(<, Nat) BY DEF OpToRel
  <2> QED BY <2>1, NatLessThanWellFounded
<1>2. PICK n \in S : \A k \in S : <<k, n>> \notin Less
  <2>1. IsWellFoundedOn(Less, Nat) BY <1>1
  <2> QED BY <2>1, WFMin
<1>3. ASSUME NEW k \in S PROVE n <= k
  <2>1. n \in Nat /\ k \in Nat OBVIOUS
  <2>2. ~(k < n) BY <1>1, <1>2, <2>1
  <2> QED BY <2>1, <2>2
<1> QED BY <1>3

LEMMA Division ==
  ASSUME NEW a \in Int, NEW b \in Nat \ {0}
  PROVE  a \div b \in Int /\ b * (a \div b) <= a
OBVIOUS

LEMMA NatDivision ==
  ASSUME NEW a \in Nat, NEW b \in Nat \ {0}
  PROVE  a \div b \in Nat
OBVIOUS

LEMMA PositiveProduct ==
  ASSUME NEW a \in Nat \ {0}, NEW b \in Nat \ {0}
  PROVE  a * b \in Nat \ {0}
OBVIOUS

LEMMA NatProduct ==
  ASSUME NEW a \in Nat, NEW b \in Nat
  PROVE  a * b \in Nat
OBVIOUS

LEMMA IntProduct ==
  ASSUME NEW a \in Int, NEW b \in Int
  PROVE  a * b \in Int
OBVIOUS

LEMMA Monotone ==
  ASSUME NEW a \in Int, NEW b \in Int, NEW c \in Nat, a <= b
  PROVE  c * a <= c * b
OBVIOUS

-----------------------------------------------------------------------------
(* The ladder. *)

\* The best bid is one of the levels, and none is better.
LEMMA BestBidFits ==
  ASSUME NEW b \in Books, NEW s \in Sides, BestBid(b, s) # Nil
  PROVE  /\ BestBid(b, s) \in Levels(b, s) /\ BestBid(b, s) \in 1..99
         /\ \A x \in Levels(b, s) : x <= BestBid(b, s)
<1>1. Levels(b, s) # {} /\ BestBid(b, s) = Max(Levels(b, s)) BY DEF BestBid
<1>2. \A x \in Levels(b, s) : x \in 1..99 BY MarketAssumption DEF Levels, Full
<1> DEFINE Gap(x) == 99 - x
<1>3. \A x \in Levels(b, s) : Gap(x) \in Nat BY <1>2
<1> HIDE DEF Gap
<1>4. PICK g \in {Gap(x) : x \in Levels(b, s)} : \A h \in {Gap(x) : x \in Levels(b, s)} : g <= h
  <2>1. {Gap(x) : x \in Levels(b, s)} \in SUBSET Nat /\ {Gap(x) : x \in Levels(b, s)} # {}
    BY <1>1, <1>3
  <2> QED BY <2>1, LeastNumber
<1>5. PICK x \in Levels(b, s) : Gap(x) = g BY <1>4
<1>6. \A y \in Levels(b, s) : x >= y
  <2>1. \A y \in Levels(b, s) : Gap(x) <= Gap(y) BY <1>4, <1>5
  <2> QED BY <1>2, <2>1 DEF Gap
<1>7. /\ Max(Levels(b, s)) \in Levels(b, s)
      /\ \A y \in Levels(b, s) : Max(Levels(b, s)) >= y
  BY <1>5, <1>6 DEF Max
<1> QED BY <1>1, <1>2, <1>7

\* An ask is a price.
LEMMA AskType ==
  ASSUME NEW b \in Books, NEW s \in Sides, Ask(b, s) # Nil
  PROVE  /\ Ask(b, s) \in 1..99 /\ BestBid(b, Other(s)) \in 1..99
         /\ BestBid(b, Other(s)) \in Levels(b, Other(s))
         /\ Ask(b, s) = Full - BestBid(b, Other(s))
<1>1. Other(s) \in Sides BY DEF Other, Sides
<1>2. BestBid(b, Other(s)) # Nil /\ Ask(b, s) = Full - BestBid(b, Other(s)) BY DEF Ask
<1> QED BY <1>1, <1>2, BestBidFits DEF Full

-----------------------------------------------------------------------------
(* One side. *)

\* A chance of the view, and of any record with a chance.
LEMMA ChanceOfView ==
  ASSUME NEW v \in Views
  PROVE  v.p \in 0..Full
BY MarketAssumption DEF Views

LEMMA ChanceType ==
  ASSUME NEW v, v.p \in 0..Full
  PROVE  /\ P(v, "yes") \in 0..100 /\ P(v, "no") \in 0..100
         /\ P(v, "yes") + P(v, "no") = 100
BY DEF P, Full

\* A price with an edge is no higher than the chance.
LEMMA EdgeBelowChance ==
  ASSUME NEW p \in 0..100, NEW price \in 1..99, NetEdge(p, price) >= MinEdge
  PROVE  price <= p
<1> SUFFICES ASSUME p < price PROVE FALSE OBVIOUS
<1>1. price * (100 - price) \in Nat BY NatProduct
<1>2. FeeNum * price * (100 - price) \in Nat
  <2> DEFINE x == FeeNum * price
             y == 100 - price
  <2>1. x \in Nat BY NatProduct, ConfigAssumption
  <2>2. y \in Nat OBVIOUS
  <2> HIDE DEF x, y
  <2>3. x * y \in Nat BY <2>1, <2>2, NatProduct
  <2> QED BY <2>3 DEF x, y
<1>3. FeeDen * 100 \in Nat \ {0} BY ConfigAssumption
<1>4. p - price <= -1 /\ p - price \in Int OBVIOUS
<1>5. (FeeDen * 100) * (p - price) <= (FeeDen * 100) * (-1) BY <1>3, <1>4, Monotone
<1>6. (FeeDen * 100) * (p - price) < 0
  <2>1. (FeeDen * 100) * (-1) = -(FeeDen * 100) BY <1>3
  <2>2. (FeeDen * 100) * (p - price) \in Int BY <1>3, <1>4, IntProduct
  <2> QED BY <1>3, <1>5, <2>1, <2>2
<1>7. NetEdge(p, price) = (FeeDen * 100) * (p - price) - FeeNum * price * (100 - price)
  BY DEF NetEdge, Full
<1>8. (FeeDen * 100) * (p - price) \in Int BY <1>3, <1>4, IntProduct
<1> QED BY <1>2, <1>6, <1>7, <1>8, ConfigAssumption

\* On bids that do not cross, one side at most is actionable.
LEMMA OneActionable ==
  ASSUME NEW b \in Books, Uncrossed(b), NEW v, v.p \in 0..Full
  PROVE  ~(Actionable(b, v, "yes") /\ Actionable(b, v, "no"))
<1> SUFFICES ASSUME Actionable(b, v, "yes"), Actionable(b, v, "no") PROVE FALSE OBVIOUS
<1>1. "yes" \in Sides /\ "no" \in Sides /\ Other("yes") = "no" /\ Other("no") = "yes"
  BY DEF Sides, Other
<1>2. /\ Ask(b, "yes") # Nil /\ NetEdge(P(v, "yes"), Ask(b, "yes")) >= MinEdge
      /\ Ask(b, "no") # Nil /\ NetEdge(P(v, "no"), Ask(b, "no")) >= MinEdge
  BY DEF Actionable
<1>3. /\ Ask(b, "yes") \in 1..99 /\ Ask(b, "yes") = 100 - BestBid(b, "no")
      /\ Ask(b, "no") \in 1..99 /\ Ask(b, "no") = 100 - BestBid(b, "yes")
      /\ BestBid(b, "no") \in Levels(b, "no") /\ BestBid(b, "yes") \in Levels(b, "yes")
  BY <1>1, <1>2, AskType DEF Full
<1>4. BestBid(b, "yes") + BestBid(b, "no") < 100 BY <1>3 DEF Uncrossed, Full
<1>5. BestBid(b, "yes") \in Int /\ BestBid(b, "no") \in Int
  <2>1. BestBid(b, "no") \in 1..99 /\ BestBid(b, "yes") \in 1..99 BY <1>1, <1>2, AskType
  <2> QED BY <2>1
<1>6. Ask(b, "yes") + Ask(b, "no") > 100 BY <1>3, <1>4, <1>5
<1>7. Ask(b, "yes") <= P(v, "yes") /\ Ask(b, "no") <= P(v, "no")
  BY <1>2, <1>3, ChanceType, EdgeBelowChance
<1>8. P(v, "yes") \in Int /\ P(v, "no") \in Int /\ P(v, "yes") + P(v, "no") = 100
  BY ChanceType
<1> QED BY <1>3, <1>6, <1>7, <1>8

\* The best of one actionable side, and of none.
LEMMA BestOfOne ==
  ASSUME NEW b, NEW v, NEW s \in Sides, \A t \in Sides : Actionable(b, v, t) <=> t = s
  PROVE  Best(b, v) = s
<1> DEFINE sides == {t \in Sides : Actionable(b, v, t)}
           edge(t) == NetEdge(P(v, t), Ask(b, t))
           Better(t) == \A u \in sides \ {t} : edge(t) > edge(u) \/ (edge(t) = edge(u) /\ t = "yes")
<1>1. sides = {s} OBVIOUS
<1>2. Best(b, v) = IF sides = {} THEN Nil ELSE CHOOSE t \in sides : Better(t)
  BY DEF Best
<1> HIDE DEF sides
<1>3. s \in sides /\ Better(s) BY <1>1
<1> HIDE DEF Better
<1>4. (CHOOSE t \in sides : Better(t)) \in sides BY <1>3
<1> QED BY <1>1, <1>2, <1>4

LEMMA BestOfNone ==
  ASSUME NEW b, NEW v, \A t \in Sides : ~Actionable(b, v, t)
  PROVE  Best(b, v) = Nil
<1>1. {t \in Sides : Actionable(b, v, t)} = {} OBVIOUS
<1> QED BY <1>1 DEF Best

\* The best side is the actionable one.
LEMMA BestFits ==
  ASSUME NEW b \in Books, Uncrossed(b), NEW v, v.p \in 0..Full
  PROVE  /\ \A s \in Sides : Actionable(b, v, s) <=> Best(b, v) = s
         /\ Best(b, v) \in Sides \cup {Nil}
<1>1. ~(Actionable(b, v, "yes") /\ Actionable(b, v, "no")) BY OneActionable
<1>2. CASE \A s \in Sides : ~Actionable(b, v, s)
  BY <1>2, BestOfNone, MarketAssumption
<1>3. CASE \E s \in Sides : Actionable(b, v, s)
  <2>1. PICK s \in Sides : Actionable(b, v, s) BY <1>3
  <2>2. \A t \in Sides : Actionable(b, v, t) <=> t = s BY <1>1, <2>1 DEF Sides
  <2>3. Best(b, v) = s BY <2>2, BestOfOne
  <2> QED BY <2>2, <2>3
<1> QED BY <1>2, <1>3

-----------------------------------------------------------------------------
(* The stake. *)

\* A divisor of the code is positive.
LEMMA Divisors ==
  ASSUME NEW price \in 1..99
  PROVE  /\ KellyDen * FeeDen * (Full - price) * price \in Nat \ {0}
         /\ CapDen * price \in Nat \ {0}
<1>1. price \in Nat \ {0} /\ 100 - price \in Nat \ {0} OBVIOUS
<1>2. KellyDen * FeeDen \in Nat \ {0} BY PositiveProduct, ConfigAssumption
<1> DEFINE x == KellyDen * FeeDen
           y == 100 - price
<1>3. x \in Nat \ {0} /\ y \in Nat \ {0} BY <1>1, <1>2
<1> HIDE DEF x, y
<1>4. x * y \in Nat \ {0} BY <1>3, PositiveProduct
<1>5. (x * y) * price \in Nat \ {0} BY <1>1, <1>4, PositiveProduct
<1>6. CapDen * price \in Nat \ {0} BY <1>1, PositiveProduct, ConfigAssumption
<1> QED BY <1>5, <1>6 DEF x, y, Full

\* A net edge is a number.
LEMMA EdgeType ==
  ASSUME NEW p \in 0..100, NEW price \in 1..99
  PROVE  NetEdge(p, price) \in Int
<1> DEFINE x == FeeNum * price
           y == 100 - price
           d == FeeDen * 100
           e == p - price
<1>1. x \in Int /\ y \in Int /\ d \in Int /\ e \in Int BY IntProduct, ConfigAssumption
<1> HIDE DEF x, y, d, e
<1>2. x * y \in Int /\ d * e \in Int BY <1>1, IntProduct
<1>3. NetEdge(p, price) = d * e - x * y BY DEF NetEdge, Full, x, y, d, e
<1> QED BY <1>2, <1>3

\* kelly_stake is a whole number of contracts within the cap.
LEMMA KellyFits ==
  ASSUME NEW p \in 0..100, NEW price \in 1..99
  PROVE  /\ KellyContracts(p, price) \in Int
         /\ (CapDen * price) * KellyContracts(p, price) <= CapNum * Bankroll * Full
<1> DEFINE n == KellyNum * Bankroll * NetEdge(p, price)
           d == KellyDen * FeeDen * (Full - price) * price
           a == CapNum * Bankroll * Full
           c == CapDen * price
<1>1. n \in Int
  <2>1. KellyNum * Bankroll \in Int BY IntProduct, ConfigAssumption
  <2>2. NetEdge(p, price) \in Int BY EdgeType
  <2> QED BY <2>1, <2>2, IntProduct
<1>2. a \in Int
  <2>1. CapNum * Bankroll \in Int BY IntProduct, ConfigAssumption
  <2> QED BY <2>1, IntProduct DEF Full
<1>3. d \in Nat \ {0} /\ c \in Nat \ {0} BY Divisors
<1>4. Capped(price) = a \div c BY DEF Capped
<1>5. KellyContracts(p, price) =
        IF n \div d <= Capped(price) THEN n \div d ELSE Capped(price)
  BY DEF KellyContracts
<1> HIDE DEF n, d, a, c
<1>6. n \div d \in Int /\ a \div c \in Int /\ c * (a \div c) <= a
  BY <1>1, <1>2, <1>3, Division
<1>7. KellyContracts(p, price) \in Int /\ KellyContracts(p, price) <= a \div c
  BY <1>4, <1>5, <1>6
<1>8. c * KellyContracts(p, price) <= c * (a \div c) BY <1>3, <1>6, <1>7, Monotone
<1>9. c * KellyContracts(p, price) \in Int /\ c * (a \div c) \in Int
  BY <1>3, <1>6, <1>7, IntProduct
<1>10. c * KellyContracts(p, price) <= a BY <1>2, <1>6, <1>8, <1>9
<1> QED BY <1>7, <1>10 DEF a, c

\* A flat stake is a whole number of contracts that it pays for.
LEMMA FlatFits ==
  ASSUME NEW stake \in Nat, NEW price \in 1..99
  PROVE  /\ FlatContracts(stake, price) \in Nat
         /\ price * FlatContracts(stake, price) <= stake * Full
<1> DEFINE a == stake * Full
           whole == a \div price
<1>1. a \in Nat BY DEF Full
<1>2. whole \in Nat /\ price * whole <= a
  <2>1. a \in Int /\ price \in Nat \ {0} BY <1>1
  <2> HIDE DEF a
  <2> QED BY <1>1, <2>1, NatDivision, Division
<1>3. FlatContracts(stake, price) = whole
      \/ (whole > 0 /\ FlatContracts(stake, price) = whole - 1)
  BY DEF FlatContracts
<1> HIDE DEF whole
<1>4. FlatContracts(stake, price) \in Nat /\ FlatContracts(stake, price) <= whole
  BY <1>2, <1>3
<1>5. price * FlatContracts(stake, price) <= price * whole BY <1>2, <1>4, Monotone
<1>6. price * FlatContracts(stake, price) \in Int /\ price * whole \in Int
  BY <1>2, <1>4, IntProduct
<1> QED BY <1>1, <1>2, <1>4, <1>5, <1>6 DEF a

-----------------------------------------------------------------------------
(* The evaluation. *)

Passes(b, v, k) == ~Fails(b, v, Gates[k])
Failing(b, v) == {k \in 1..12 : (\A j \in 1..(k - 1) : Passes(b, v, j)) /\ ~Passes(b, v, k)}

\* An evaluation is the alert of bids that pass every gate, or the first gate that fails.
LEMMA EvaluationFits ==
  ASSUME NEW b, NEW v, NEW stake
  PROVE  /\ (\A k \in 1..12 : Passes(b, v, k)) => Evaluation(b, v, stake) = Alert(b, v, stake)
         /\ \A k \in Failing(b, v) :
              Evaluation(b, v, stake) = [status |-> "abstain", reason |-> Gates[k]]
         /\ (\A k \in 1..12 : Passes(b, v, k)) \/ Failing(b, v) # {}
<1>1. Len(Gates) = 12 BY DEF Gates
<1>2. Evaluation(b, v, stake) =
        IF Failing(b, v) = {} THEN Alert(b, v, stake)
        ELSE [status |-> "abstain", reason |-> Gates[CHOOSE k \in Failing(b, v) : TRUE]]
  BY <1>1 DEF Evaluation, Failing, Passes
<1>3. (\A k \in 1..12 : Passes(b, v, k)) => Failing(b, v) = {} BY DEF Failing
<1>4. ASSUME NEW k \in Failing(b, v), NEW l \in Failing(b, v) PROVE k = l
  <2>1. /\ k \in 1..12 /\ l \in 1..12 /\ ~Passes(b, v, k) /\ ~Passes(b, v, l)
        /\ \A j \in 1..(k - 1) : Passes(b, v, j)
        /\ \A j \in 1..(l - 1) : Passes(b, v, j)
    BY <1>4 DEF Failing
  <2>2. ~(k < l) BY <2>1
  <2>3. ~(l < k) BY <2>1
  <2> QED BY <2>1, <2>2, <2>3
<1>5. ASSUME NEW k \in Failing(b, v)
      PROVE  Evaluation(b, v, stake) = [status |-> "abstain", reason |-> Gates[k]]
  <2>1. (CHOOSE l \in Failing(b, v) : TRUE) \in Failing(b, v) BY <1>5
  <2>2. (CHOOSE l \in Failing(b, v) : TRUE) = k BY <1>4, <1>5, <2>1
  <2> QED BY <1>2, <1>5, <2>2
<1>6. ASSUME NEW k \in 1..12, ~Passes(b, v, k) PROVE Failing(b, v) # {}
  <2> DEFINE S == {j \in 1..12 : ~Passes(b, v, j)}
  <2>1. S \in SUBSET Nat /\ S # {} BY <1>6
  <2>2. PICK n \in S : \A j \in S : n <= j BY <2>1, LeastNumber
  <2>3. n \in Failing(b, v) BY <2>2 DEF Failing
  <2> QED BY <2>3
<1> QED BY <1>2, <1>3, <1>5, <1>6

\* An alert is one of an actionable side, at a price, for a number of contracts.
LEMMA AlertFits ==
  ASSUME NEW b \in Books, Uncrossed(b), NEW v, v.p \in 0..Full, NEW stake \in FlatStakes,
         \A k \in 1..12 : Passes(b, v, k)
  PROVE  LET alert == Alert(b, v, stake) IN
         /\ alert \in Alerts /\ alert.side = Best(b, v)
         /\ alert.price = Ask(b, alert.side) /\ Actionable(b, v, alert.side)
         /\ alert.contracts = IF stake # Nil THEN FlatContracts(stake, alert.price)
                              ELSE KellyContracts(P(v, alert.side), alert.price)
<1> DEFINE s == Best(b, v)
           price == Ask(b, s)
           n == IF stake # Nil THEN FlatContracts(stake, price)
                ELSE KellyContracts(P(v, s), price)
<1>1. Best(b, v) # Nil
  <2>1. Gates[9] = "no_edge" BY DEF Gates
  <2>2. ~Fails(b, v, "no_edge") BY <2>1 DEF Passes
  <2> QED BY <2>2 DEF Fails
<1>2. s \in Sides /\ Actionable(b, v, s) BY <1>1, BestFits
<1>3. price \in 1..99 BY <1>2, AskType DEF Actionable
<1>4. n \in Nat
  <2>1. CASE stake # Nil
    <3>1. stake \in Nat BY <2>1, ConfigAssumption
    <3> QED BY <1>3, <2>1, <3>1, FlatFits
  <2>2. CASE stake = Nil
    <3>1. P(v, s) \in 0..100 BY <1>2, ChanceType DEF Sides
    <3>2. KellyContracts(P(v, s), price) \in Int BY <1>3, <3>1, KellyFits
    <3>3. KellyContracts(P(v, s), price) >= 1 BY <1>2 DEF Actionable
    <3> QED BY <2>2, <3>2, <3>3
  <2> QED BY <2>1, <2>2
<1>5. Alert(b, v, stake) = [status |-> "alert", side |-> s, price |-> price, contracts |-> n]
  BY DEF Alert
<1> HIDE DEF n, s, price
<1>6. Alert(b, v, stake) \in Alerts BY <1>2, <1>3, <1>4, <1>5 DEF Alerts, Full
<1> QED BY <1>2, <1>5, <1>6 DEF n, s, price

\* Every evaluation has its type.
LEMMA EvaluationType ==
  ASSUME NEW b \in Books, Uncrossed(b), NEW v \in Views, NEW stake \in FlatStakes
  PROVE  Evaluation(b, v, stake) \in Alerts \cup Abstentions
<1>1. CASE \A k \in 1..12 : Passes(b, v, k)
  BY <1>1, AlertFits, EvaluationFits, ChanceOfView
<1>2. CASE Failing(b, v) # {}
  <2>1. PICK k \in Failing(b, v) :
          Evaluation(b, v, stake) = [status |-> "abstain", reason |-> Gates[k]]
    BY <1>2, EvaluationFits
  <2>2. k \in 1..12 BY DEF Failing
  <2>3. DOMAIN Gates = 1..12 BY DEF Gates
  <2>4. Gates[k] \in Range(Gates) BY <2>2, <2>3 DEF Range
  <2> QED BY <2>1, <2>4 DEF Abstentions
<1> QED BY <1>1, <1>2, EvaluationFits

-----------------------------------------------------------------------------
(* The invariant. *)

LEMMA InitInv == Init => Inv
<1> SUFFICES ASSUME Init PROVE Inv OBVIOUS
<1>1. 0 \in 0..MaxSize BY MarketAssumption
<1>2. bids \in Books BY <1>1 DEF Init, Books
<1>3. \A s \in Sides : Levels(bids, s) = {} BY DEF Init, Levels
<1>4. Uncrossed(bids) BY <1>3 DEF Uncrossed, Sides
<1> QED BY <1>2, <1>4 DEF Init, Inv, TypeOK, Books

LEMMA NextInv ==
  ASSUME Inv, [Next]_vars
  PROVE  Inv'
<1>1. CASE BidsMove
  <2>1. PICK s \in Sides, x \in Prices, size \in 0..MaxSize :
          bids' = [bids EXCEPT ![s][x] = size] /\ Uncrossed(bids')
    BY <1>1 DEF BidsMove
  <2>2. bids \in Books BY DEF Inv, TypeOK, Books
  <2>3. bids' \in Books BY <2>1, <2>2 DEF Books
  <2> QED BY <1>1, <2>1, <2>3 DEF BidsMove, Inv, TypeOK, Books, Uncrossed, Levels
<1>2. CASE Evaluate
  <2>1. bids \in Books /\ Uncrossed(bids) /\ view \in Views /\ flat \in FlatStakes
    BY DEF Inv, TypeOK, Books
  <2>2. result' = Evaluation(bids, view, flat) /\ UNCHANGED <<bids, view, flat>>
    BY <1>2 DEF Evaluate
  <2>3. result' \in Alerts \cup Abstentions BY <2>1, <2>2, EvaluationType
  <2>4. TypeOK' BY <2>1, <2>2, <2>3 DEF TypeOK, Books
  <2>5. Uncrossed(bids)' BY <2>1, <2>2 DEF Uncrossed, Levels
  <2>6. (result = Evaluation(bids, view, flat))'
    <3>1. Evaluation(bids, view, flat)' = Evaluation(bids, view, flat) BY <2>2
    <3> QED BY <2>2, <3>1
  <2> QED BY <2>4, <2>5, <2>6 DEF Inv
<1>3. CASE UNCHANGED vars
  <2>1. UNCHANGED <<bids, view, flat, result>> BY <1>3 DEF vars
  <2>2. Evaluation(bids, view, flat)' = Evaluation(bids, view, flat) BY <2>1
  <2>3. TypeOK' BY <2>1 DEF Inv, TypeOK
  <2>4. Uncrossed(bids)' BY <2>1 DEF Inv, Uncrossed, Levels
  <2> QED BY <2>1, <2>2, <2>3, <2>4 DEF Inv
<1> QED BY <1>1, <1>2, <1>3 DEF Next

LEMMA InvHolds == Spec => []Inv
BY InitInv, NextInv, PTL DEF Spec

\* TypeOK: an evaluation of any bids and any view is an alert at a price between
\* 0 and 1 for a whole number of contracts, or a documented abstention.
THEOREM TypeCorrect == Spec => []TypeOK
<1>1. Inv => TypeOK BY DEF Inv
<1> QED BY <1>1, InvHolds, PTL

\* OneSideAtMost: the model never backs both players of one market, so that
\* evaluate_market never drops an actionable side.
THEOREM OneSide == Spec => []OneSideAtMost
<1>1. ASSUME Inv PROVE OneSideAtMost
  <2> DEFINE sides == {s \in Sides : Actionable(bids, view, s)}
  <2>1. bids \in Books /\ Uncrossed(bids) /\ view \in Views BY <1>1 DEF Inv, TypeOK, Books
  <2>2. sides = {} \/ sides = {"yes"} \/ sides = {"no"} BY <2>1, OneActionable, ChanceOfView DEF Sides
  <2>3. Cardinality({}) = 0 /\ Cardinality({"yes"}) = 1 /\ Cardinality({"no"}) = 1
    BY FS_EmptySet, FS_Singleton
  <2> HIDE DEF sides
  <2>4. Cardinality(sides) <= 1 BY <2>2, <2>3
  <2> QED BY <2>4 DEF OneSideAtMost, sides
<1> QED BY <1>1, InvHolds, PTL

\* An alert has passed every gate.
LEMMA AlertPasses ==
  ASSUME NEW b, NEW v, NEW stake, Evaluation(b, v, stake).status = "alert"
  PROVE  \A k \in 1..12 : Passes(b, v, k)
<1> SUFFICES ASSUME Failing(b, v) # {} PROVE FALSE BY EvaluationFits
<1>1. PICK k \in Failing(b, v) :
        Evaluation(b, v, stake) = [status |-> "abstain", reason |-> Gates[k]]
  BY EvaluationFits
<1>2. Evaluation(b, v, stake).status = "abstain" BY <1>1
<1> QED BY <1>2

\* An alert beside a market is the alert of that market.
LEMMA AlertOfMarket ==
  ASSUME Inv, IsAlert
  PROVE  /\ result \in Alerts /\ Actionable(bids, view, result.side)
         /\ result.side = Best(bids, view) /\ \A k \in 1..12 : Passes(bids, view, k)
         /\ result.price = Ask(bids, result.side) /\ P(view, result.side) \in 0..100
         /\ result.contracts = IF flat # Nil THEN FlatContracts(flat, result.price)
                               ELSE KellyContracts(P(view, result.side), result.price)
<1>1. /\ bids \in Books /\ Uncrossed(bids) /\ view \in Views /\ flat \in FlatStakes
      /\ result = Evaluation(bids, view, flat) /\ result.status = "alert"
  BY DEF Inv, TypeOK, Books, IsAlert
<1>2. \A k \in 1..12 : Passes(bids, view, k) BY <1>1, AlertPasses
<1>3. result = Alert(bids, view, flat) BY <1>1, <1>2, EvaluationFits
<1>4. /\ result \in Alerts /\ Actionable(bids, view, result.side)
      /\ result.price = Ask(bids, result.side) /\ result.side = Best(bids, view)
      /\ result.contracts = IF flat # Nil THEN FlatContracts(flat, result.price)
                            ELSE KellyContracts(P(view, result.side), result.price)
  BY <1>1, <1>2, <1>3, AlertFits, ChanceOfView
<1>5. result.side \in Sides BY <1>4 DEF Alerts
<1>6. P(view, result.side) \in 0..100 BY <1>1, <1>5, ChanceOfView, ChanceType DEF Sides
<1> QED BY <1>2, <1>4, <1>6

\* StakeWithinCap: an order costs no more than the flat stake, or than
\* max_stake_pct of the bankroll.
THEOREM WithinCap == Spec => []StakeWithinCap
<1>1. ASSUME Inv, IsAlert
      PROVE  IF flat # Nil THEN result.contracts * result.price <= flat * Full
             ELSE (result.contracts * result.price) * CapDen <= CapNum * Bankroll * Full
  <2> DEFINE n == result.contracts
             price == result.price
  <2>1. n \in Nat /\ price \in 1..99 /\ P(view, result.side) \in 0..100
        /\ n = IF flat # Nil THEN FlatContracts(flat, price)
               ELSE KellyContracts(P(view, result.side), price)
    BY <1>1, AlertOfMarket DEF Alerts, Full
  <2> HIDE DEF n, price
  <2>2. CASE flat # Nil
    <3>1. flat \in Nat BY <1>1, <2>2, ConfigAssumption DEF Inv, TypeOK
    <3>2. price * n <= flat * Full BY <2>1, <2>2, <3>1, FlatFits
    <3>3. n * price = price * n BY <2>1
    <3> QED BY <2>2, <3>2, <3>3 DEF n, price
  <2>3. CASE flat = Nil
    <3>1. (CapDen * price) * n <= CapNum * Bankroll * Full BY <2>1, <2>3, KellyFits
    <3>2. CapDen \in Nat BY ConfigAssumption
    <3>3. (n * price) * CapDen = (CapDen * price) * n BY <2>1, <3>2
    <3> QED BY <2>3, <3>1, <3>3 DEF n, price
  <2> QED BY <2>2, <2>3
<1>2. Inv => StakeWithinCap BY <1>1 DEF StakeWithinCap
<1> QED BY <1>2, InvHolds, PTL

\* A fee rounded up once for n contracts exceeds n linear fees by less than a cent.
LEMMA RoundingCostsACent ==
  ASSUME NEW d \in Nat \ {0}, NEW e \in Int, NEW fee \in Int, NEW n \in Nat, NEW m \in Int,
         NEW c \in Int, d * c <= n * fee + d - 1, d * e - fee >= m
  PROVE  (n * e - c + 1) * d > n * m
<1>1. d * e \in Int /\ n * m \in Int /\ n * fee \in Int /\ n * (d * e) \in Int /\ d * c \in Int
  BY IntProduct
<1>2. n * m <= n * (d * e - fee) BY <1>1, Monotone
<1>3. n * (d * e - fee) = n * (d * e) - n * fee BY <1>1
<1>4. (n * e - c + 1) * d = n * (d * e) - d * c + d OBVIOUS
<1> QED BY <1>1, <1>2, <1>3, <1>4

\* AlertEarnsItsEdge: an order of an alert earns min_net_edge per contract after
\* the fee of the whole order too, but for less than a cent.
THEOREM EarnsItsEdge == Spec => []AlertEarnsItsEdge
<1>1. ASSUME Inv, IsAlert
      PROVE  LET n == result.contracts
                 earned == n * (P(view, result.side) - result.price) - Fee(result.price, n)
             IN (earned + 1) * FeeDen * Full > n * MinEdge
  <2> DEFINE n == result.contracts
             price == result.price
             e == P(view, result.side) - price
             d == FeeDen * Full
             fee == FeeNum * price * (Full - price)
             c == Fee(price, n)
  <2>1. /\ n \in Nat /\ price \in 1..99 /\ P(view, result.side) \in 0..100
        /\ NetEdge(P(view, result.side), price) >= MinEdge
    BY <1>1, AlertOfMarket DEF Alerts, Full, Actionable
  <2>2. e \in Int /\ d \in Nat \ {0} BY <2>1, ConfigAssumption DEF Full
  <2>3. fee \in Int
    <3>1. FeeNum * price \in Int BY <2>1, IntProduct, ConfigAssumption
    <3>2. Full - price \in Int BY <2>1 DEF Full
    <3> QED BY <3>1, <3>2, IntProduct
  <2>4. d * e - fee >= MinEdge BY <2>1 DEF NetEdge
  <2>5. c = (n * fee + d - 1) \div d
    <3>1. FeeNum * n * price * (Full - price) = n * fee
      BY <2>1, ConfigAssumption DEF Full
    <3> QED BY <3>1 DEF Fee
  <2> HIDE DEF n, e, d, fee, c
  <2>6. n * fee + d - 1 \in Int BY <2>1, <2>2, <2>3, IntProduct
  <2>7. c \in Int /\ d * c <= n * fee + d - 1 BY <2>2, <2>5, <2>6, Division
  <2>8. (n * e - c + 1) * d > n * MinEdge
    BY <2>1, <2>2, <2>3, <2>4, <2>7, RoundingCostsACent, ConfigAssumption
  <2>9. (n * e - c + 1) * FeeDen * Full = (n * e - c + 1) * d
    <3> DEFINE x == n * e - c + 1
    <3>1. x \in Int BY <2>1, <2>2, <2>7, IntProduct
    <3> HIDE DEF x
    <3>2. x * FeeDen * Full = x * (FeeDen * Full) BY <3>1, ConfigAssumption DEF Full
    <3> QED BY <3>2 DEF x, d
  <2>10. (n * e - c + 1) * FeeDen * Full > n * MinEdge BY <2>8, <2>9
  <2> QED BY <2>10 DEF n, e, c
<1>2. Inv => AlertEarnsItsEdge BY <1>1 DEF AlertEarnsItsEdge
<1> QED BY <1>2, InvHolds, PTL

-----------------------------------------------------------------------------
(* The two markets of a match. *)

\* SiblingView, of any view.
SwappedView(v) == [yes |-> v.no, no |-> v.yes, context |-> v.context, p |-> Full - v.p]

\* Where something is quoted, the gates that come before the edge depend on the
\* view alone, and not on which player it calls Yes.
LEMMA SwappedGates ==
  ASSUME NEW b, NEW c, Quoted(b), Quoted(c), NEW v \in Views, v.no # Absent, NEW k \in 1..8
  PROVE  Passes(c, SwappedView(v), k) <=> Passes(b, v, k)
<1>1. PICK w : w = SwappedView(v) OBVIOUS
<1>2. /\ w.yes = v.no /\ w.no = v.yes /\ w.context = v.context
      /\ v.yes \in Histories /\ v.no \in Histories /\ v.yes # Absent
  BY <1>1, MarketAssumption DEF SwappedView, Views, Absent
<1>3. Experience(w) = Experience(v)
  <2>1. \A h \in Histories : h.n \in Nat BY MarketAssumption
  <2>2. v.yes.n \in Nat /\ v.no.n \in Nat BY <1>2, <2>1
  <2> QED BY <1>2, <2>2 DEF Experience
<1>4. /\ Gates[1] = "empty_book" /\ Gates[2] = "unresolved_market" /\ Gates[3] = "unknown_tour"
      /\ Gates[4] = "unresolved_player" /\ Gates[5] = "insufficient_history"
      /\ Gates[6] = "unknown_format" /\ Gates[7] = "stale_ratings" /\ Gates[8] = "thin_player"
  BY DEF Gates
<1>5. CASE k \in {1, 2}
  <2>1. ~Fails(b, v, "empty_book") /\ ~Fails(c, w, "empty_book")
    BY DEF Fails, Quoted, Sides
  <2>2. ~Fails(b, v, "unresolved_market") /\ ~Fails(c, w, "unresolved_market")
    BY <1>2 DEF Fails
  <2> QED BY <1>1, <1>4, <1>5, <2>1, <2>2 DEF Passes
<1>6. CASE k \in {3, 6}
  <2>1. Fails(c, w, "unknown_tour") <=> Fails(b, v, "unknown_tour") BY <1>2 DEF Fails
  <2>2. Fails(c, w, "unknown_format") <=> Fails(b, v, "unknown_format") BY <1>2 DEF Fails
  <2> QED BY <1>1, <1>4, <1>6, <2>1, <2>2 DEF Passes
<1>7. CASE k \in {4, 5, 7, 8}
  <2>1. Fails(c, w, "unresolved_player") <=> Fails(b, v, "unresolved_player")
    BY <1>2 DEF Fails
  <2>2. Fails(c, w, "insufficient_history") <=> Fails(b, v, "insufficient_history")
    BY <1>3 DEF Fails
  <2>3. Fails(c, w, "stale_ratings") <=> Fails(b, v, "stale_ratings") BY <1>2 DEF Fails
  <2>4. Fails(c, w, "thin_player") <=> Fails(b, v, "thin_player") BY <1>3 DEF Fails
  <2> QED BY <1>1, <1>4, <1>7, <2>1, <2>2, <2>3, <2>4 DEF Passes
<1> QED BY <1>5, <1>6, <1>7

\* An abstention for a reason of the model is due to one of those gates.
LEMMA UnfitFails ==
  ASSUME NEW b, NEW v, NEW stake, Unfit(Evaluation(b, v, stake))
  PROVE  \E k \in 1..8 : k \in Failing(b, v)
<1>1. ~(\A k \in 1..12 : Passes(b, v, k))
  <2> SUFFICES ASSUME \A k \in 1..12 : Passes(b, v, k) PROVE FALSE OBVIOUS
  <2>1. Evaluation(b, v, stake) = Alert(b, v, stake) BY EvaluationFits
  <2>2. Alert(b, v, stake).status = "alert" BY DEF Alert
  <2> QED BY <2>1, <2>2 DEF Unfit
<1>2. PICK k \in Failing(b, v) :
        Evaluation(b, v, stake) = [status |-> "abstain", reason |-> Gates[k]]
  BY <1>1, EvaluationFits
<1>3. k \in 1..12 /\ Gates[k] \in ModelReasons BY <1>2 DEF Failing, Unfit
<1>4. k \notin 9..12
  <2>1. /\ Gates[9] = "no_edge" /\ Gates[10] = "one_sided_book"
        /\ Gates[11] = "spread_too_wide" /\ Gates[12] = "insufficient_liquidity"
    BY DEF Gates
  <2> QED BY <1>3, <2>1 DEF ModelReasons
<1> QED BY <1>2, <1>3, <1>4

\* What the model says of a match it says on both markets.
LEMMA SameReason ==
  ASSUME NEW b, NEW c, Quoted(b), Quoted(c), NEW v \in Views, v.no # Absent, NEW stake,
         Unfit(Evaluation(b, v, stake)) \/ Unfit(Evaluation(c, SwappedView(v), stake))
  PROVE  Evaluation(c, SwappedView(v), stake) = Evaluation(b, v, stake)
<1>1. PICK w : w = SwappedView(v) OBVIOUS
<1>2. \A k \in 1..8 : Passes(c, w, k) <=> Passes(b, v, k) BY <1>1, SwappedGates
<1>3. PICK k \in 1..8 : k \in Failing(b, v) \/ k \in Failing(c, w) BY <1>1, UnfitFails
<1>4. k \in Failing(b, v) /\ k \in Failing(c, w)
  <2>1. k \in 1..12 /\ \A j \in 1..(k - 1) : j \in 1..8 OBVIOUS
  <2> QED BY <1>2, <1>3, <2>1 DEF Failing
<1>5. /\ Evaluation(b, v, stake) = [status |-> "abstain", reason |-> Gates[k]]
      /\ Evaluation(c, w, stake) = [status |-> "abstain", reason |-> Gates[k]]
  BY <1>4, EvaluationFits
<1> QED BY <1>1, <1>5

\* An edge is what the chance pays less what the contract costs.
LEMMA EdgeIsGain ==
  ASSUME NEW p \in 0..100, NEW price \in 1..99
  PROVE  Cost(price) \in Int /\ NetEdge(p, price) = (FeeDen * Full) * p - Cost(price)
<1> DEFINE x == FeeNum * price
           y == 100 - price
           d == FeeDen * 100
<1>1. x \in Int /\ y \in Int /\ d \in Int BY IntProduct, ConfigAssumption
<1>2. NetEdge(p, price) = d * (p - price) - x * y /\ Cost(price) = d * price + x * y
  BY DEF NetEdge, Cost, Full
<1>3. d * p = (FeeDen * Full) * p BY DEF Full
<1> HIDE DEF x, y, d
<1>4. x * y \in Int /\ d * price \in Int /\ d * p \in Int BY <1>1, IntProduct
<1>5. d * (p - price) = d * p - d * price BY <1>1
<1> QED BY <1>2, <1>3, <1>4, <1>5

\* SiblingIsConsistent: on its two markets, whatever rests in each of them, the
\* model abstains from a match for the same reason, and where it backs both
\* players the bets cost less than the dollar they pay, by min_net_edge each.
THEOREM BothMarketsAreConsistent == Spec => []SiblingIsConsistent
<1>1. ASSUME Inv, result # Nil, view.no # Absent, NEW b \in SiblingBooks
      PROVE  LET other == Evaluation(b, SwappedView(view), flat) IN
             /\ Quoted(bids) /\ Quoted(b) /\ (Unfit(result) \/ Unfit(other)) => other = result
             /\ IsAlert /\ other.status = "alert" /\ other.side = result.side =>
                  Cost(result.price) + Cost(other.price) + 2 * MinEdge <= FeeDen * Full * Full
  <2>1. PICK w : w = SwappedView(view) OBVIOUS
  <2>2. PICK other : other = Evaluation(b, w, flat) OBVIOUS
  <2>3. /\ view \in Views /\ flat \in FlatStakes /\ result = Evaluation(bids, view, flat)
        /\ b \in Books /\ Uncrossed(b)
    BY <1>1, SiblingAssumption DEF Inv, TypeOK, Books
  <2>4. Quoted(bids) /\ Quoted(b) /\ (Unfit(result) \/ Unfit(other)) => other = result
    BY <1>1, <2>1, <2>2, <2>3, SameReason
  <2>5. ASSUME IsAlert, other.status = "alert", other.side = result.side
        PROVE  Cost(result.price) + Cost(other.price) + 2 * MinEdge <= FeeDen * Full * Full
    <3>1. PICK s : s = result.side OBVIOUS
    <3>2. PICK p : p = P(view, s) OBVIOUS
    <3>3. /\ s \in Sides /\ result.price \in 1..99 /\ p \in 0..100
          /\ NetEdge(p, result.price) >= MinEdge
      BY <1>1, <2>5, <3>1, <3>2, AlertOfMarket DEF Alerts, Actionable, Full
    <3>4. w.p \in 0..100 /\ P(w, s) = 100 - p
      <4>1. view.p \in 0..100 BY <2>3, ChanceOfView DEF Full
      <4> QED BY <2>1, <3>2, <3>3, <4>1 DEF SwappedView, P, Sides, Full
    <3>5. other.price \in 1..99 /\ NetEdge(100 - p, other.price) >= MinEdge
      <4>1. \A k \in 1..12 : Passes(b, w, k) BY <2>2, <2>5, AlertPasses
      <4>2. other = Alert(b, w, flat) BY <2>2, <4>1, EvaluationFits
      <4>3. /\ other \in Alerts /\ other.price = Ask(b, s) /\ Actionable(b, w, s)
        BY <2>3, <2>5, <3>1, <3>4, <4>1, <4>2, AlertFits DEF Full
      <4> QED BY <3>4, <4>3 DEF Alerts, Actionable, Full
    <3> DEFINE d == FeeDen * Full
               x == Cost(result.price)
               y == Cost(other.price)
    <3>6. x \in Int /\ y \in Int /\ d * p - x >= MinEdge /\ d * (100 - p) - y >= MinEdge
      <4>1. 100 - p \in 0..100 BY <3>3
      <4> QED BY <3>3, <3>5, <4>1, EdgeIsGain
    <3>7. d \in Int /\ MinEdge \in Int BY ConfigAssumption DEF Full
    <3>8. FeeDen * Full * Full = d * 100 BY DEF Full
    <3> HIDE DEF d, x, y
    <3>9. d * p \in Int /\ d * (100 - p) = d * 100 - d * p BY <3>3, <3>7, IntProduct
    <3> QED BY <3>6, <3>7, <3>8, <3>9 DEF x, y
  <2> QED BY <2>1, <2>2, <2>4, <2>5
<1>2. SiblingView = SwappedView(view) BY DEF SiblingView, SwappedView
<1>3. Inv => SiblingIsConsistent BY <1>1, <1>2 DEF SiblingIsConsistent
<1> QED BY <1>3, InvHolds, PTL

-----------------------------------------------------------------------------
(* Depth: the sum of a ladder. *)

\* Induction on the subsets of a finite set, stated with a set of subsets.
LEMMA SubsetInduction ==
  ASSUME NEW S, IsFiniteSet(S), NEW D,
         \A s \in SUBSET S : (\A r \in SUBSET s : r # s => r \in D) => s \in D
  PROVE  S \in D
<1> DEFINE Open == {Cardinality(s) : s \in (SUBSET S) \ D}
<1>1. \A s \in SUBSET S : IsFiniteSet(s) /\ Cardinality(s) \in Nat
  BY FS_Subset, FS_CardinalityType
<1>2. Open \subseteq Nat BY <1>1
<1>3. ASSUME Open # {} PROVE FALSE
  <2>1. PICK n \in Open : \A m \in Open : n <= m
    <3> HIDE DEF Open
    <3> QED BY <1>2, <1>3, LeastNumber
  <2>2. PICK s \in (SUBSET S) \ D : Cardinality(s) = n BY <2>1
  <2>3. PICK r \in SUBSET s : r # s /\ r \notin D BY <2>2
  <2>4. Cardinality(r) \in Open /\ r \subseteq s BY <2>2, <2>3
  <2>5. Cardinality(r) < Cardinality(s)
    <3>1. Cardinality(r) <= Cardinality(s) /\ (Cardinality(r) = Cardinality(s) => r = s)
      BY <1>1, <2>2, <2>4, FS_Subset
    <3>2. Cardinality(r) \in Nat /\ Cardinality(s) \in Nat BY <1>1, <2>2, <2>4
    <3> QED BY <2>3, <3>1, <3>2
  <2>6. Cardinality(s) <= Cardinality(r) BY <2>1, <2>2, <2>4
  <2>7. Cardinality(r) \in Nat /\ Cardinality(s) \in Nat BY <1>1, <2>2, <2>4
  <2> QED BY <2>5, <2>6, <2>7
<1> QED BY <1>3

\* The element that a sum takes out of a set, and the rest.
First(s) == CHOOSE x \in s : TRUE
Rest(s) == s \ {First(s)}

\* g holds the sum of every subset of S.
Sums(f, S, g) ==
  g = [s \in SUBSET S |-> IF s = {} THEN 0 ELSE f[First(s)] + g[Rest(s)]]

LEMMA SumFold ==
  ASSUME NEW f, NEW S
  PROVE  SumFunctionOnSet(f, S) = (CHOOSE g : Sums(f, S, g))[S]
BY DEF SumFunctionOnSet, FoldFunctionOnSet, MapThenFoldSet, Sums, First, Rest

LEMMA RestIsSmaller ==
  ASSUME NEW s, s # {}
  PROVE  First(s) \in s /\ Rest(s) \subseteq s /\ Rest(s) # s
BY DEF First, Rest

\* Two such functions agree where both are defined.
LEMMA SumsAgree ==
  ASSUME NEW f, NEW S, NEW R, NEW g, NEW h, Sums(f, S, g), Sums(f, R, h),
         NEW u, u \subseteq S, u \subseteq R, IsFiniteSet(u)
  PROVE  g[u] = h[u]
<1> DEFINE D == {s \in SUBSET u : g[s] = h[s]}
<1>1. ASSUME NEW s \in SUBSET u, \A r \in SUBSET s : r # s => r \in D
      PROVE  s \in D
  <2>1. g[s] = IF s = {} THEN 0 ELSE f[First(s)] + g[Rest(s)] BY DEF Sums
  <2>2. h[s] = IF s = {} THEN 0 ELSE f[First(s)] + h[Rest(s)] BY DEF Sums
  <2>3. s # {} => g[Rest(s)] = h[Rest(s)] BY <1>1, RestIsSmaller
  <2> QED BY <2>1, <2>2, <2>3
<1> HIDE DEF D
<1>2. u \in D BY <1>1, SubsetInduction
<1> QED BY <1>2 DEF D

\* A finite set has one.
LEMMA SumsExist ==
  ASSUME NEW f, NEW S, IsFiniteSet(S)
  PROVE  \E g : Sums(f, S, g)
<1> DEFINE Sum(s) == (CHOOSE g : Sums(f, s, g))[s]
           D == {s \in SUBSET S : \E g : Sums(f, s, g)}
           T(v) == [s \in SUBSET v |-> IF s = {} THEN 0 ELSE f[First(s)] + Sum(Rest(s))]
<1>1. ASSUME NEW v \in SUBSET S, \A r \in SUBSET v : r # v => r \in D
      PROVE  v \in D
  <2>1. ASSUME NEW r \in SUBSET v, r # v PROVE Sums(f, r, CHOOSE g : Sums(f, r, g))
    <3>1. \E g : Sums(f, r, g) BY <1>1, <2>1
    <3> QED BY <3>1
  <2>2. ASSUME NEW r \in SUBSET v, r # v PROVE T(v)[r] = Sum(r)
    <3>1. PICK g : g = CHOOSE h : Sums(f, r, h) OBVIOUS
    <3>2. Sums(f, r, g) BY <2>1, <2>2, <3>1
    <3>3. Sum(r) = IF r = {} THEN 0 ELSE f[First(r)] + g[Rest(r)]
      BY <3>1, <3>2 DEF Sums
    <3>4. ASSUME r # {} PROVE g[Rest(r)] = Sum(Rest(r))
      <4>1. PICK q : q = Rest(r) OBVIOUS
      <4>2. q \in SUBSET v /\ q # v /\ q \subseteq r
        BY <2>2, <3>4, <4>1, RestIsSmaller
      <4>3. IsFiniteSet(q) BY <4>2, FS_Subset
      <4>4. Sums(f, q, CHOOSE h : Sums(f, q, h)) BY <2>1, <4>2
      <4> QED BY <3>2, <4>1, <4>2, <4>3, <4>4, SumsAgree
    <3>5. T(v)[r] = IF r = {} THEN 0 ELSE f[First(r)] + Sum(Rest(r))
      <4> HIDE DEF Sum
      <4> QED OBVIOUS
    <3> HIDE DEF T, Sum
    <3> QED BY <3>3, <3>4, <3>5
  <2>3. PICK t : t = T(v) OBVIOUS
  <2>4. t = [s \in SUBSET v |-> IF s = {} THEN 0 ELSE f[First(s)] + Sum(Rest(s))] BY <2>3
  <2>5. \A s \in SUBSET v : s # {} => t[Rest(s)] = Sum(Rest(s))
    <3> HIDE DEF T, Sum
    <3> SUFFICES ASSUME NEW s \in SUBSET v, s # {} PROVE t[Rest(s)] = Sum(Rest(s)) OBVIOUS
    <3>1. Rest(s) \in SUBSET v /\ Rest(s) # v BY RestIsSmaller
    <3> QED BY <2>2, <2>3, <3>1
  <2>6. Sums(f, v, t)
    <3> HIDE DEF T, Sum
    <3> QED BY <2>4, <2>5 DEF Sums
  <2> QED BY <2>6
<1> HIDE DEF D
<1>2. S \in D BY <1>1, SubsetInduction
<1> QED BY <1>2 DEF D

\* The equation of a sum.
LEMMA SumEquation ==
  ASSUME NEW f, NEW S, IsFiniteSet(S)
  PROVE  SumFunctionOnSet(f, S) =
           IF S = {} THEN 0 ELSE f[First(S)] + SumFunctionOnSet(f, Rest(S))
<1>1. PICK g : g = CHOOSE h : Sums(f, S, h) OBVIOUS
<1>2. PICK h : h = CHOOSE k : Sums(f, Rest(S), k) OBVIOUS
<1>3. Rest(S) \subseteq S /\ IsFiniteSet(Rest(S)) BY FS_Subset DEF Rest
<1>4. Sums(f, S, g) /\ Sums(f, Rest(S), h) BY <1>1, <1>2, <1>3, SumsExist
<1>5. g[S] = IF S = {} THEN 0 ELSE f[First(S)] + g[Rest(S)] BY <1>4 DEF Sums
<1>6. g[Rest(S)] = h[Rest(S)] BY <1>3, <1>4, SumsAgree
<1>7. SumFunctionOnSet(f, S) = g[S] BY <1>1, SumFold
<1>8. SumFunctionOnSet(f, Rest(S)) = h[Rest(S)] BY <1>2, SumFold
<1> QED BY <1>5, <1>6, <1>7, <1>8

\* The sum of nothing.
LEMMA SumOfNone ==
  ASSUME NEW f
  PROVE  SumFunctionOnSet(f, {}) = 0
<1>1. PICK e : e = {} OBVIOUS
<1>2. IsFiniteSet(e) BY <1>1, FS_EmptySet
<1>3. SumFunctionOnSet(f, e) = 0 BY <1>1, <1>2, SumEquation
<1> QED BY <1>1, <1>3

\* What rests on one level only is what rests on that level.
LEMMA SumOfOne ==
  ASSUME NEW f, NEW S, IsFiniteSet(S), NEW y \in S, f[y] \in Int,
         \A x \in S : x # y => f[x] = 0
  PROVE  SumFunctionOnSet(f, S) = f[y]
<1> DEFINE D == {s \in SUBSET S : SumFunctionOnSet(f, s) = IF y \in s THEN f[y] ELSE 0}
<1>1. ASSUME NEW s \in SUBSET S, \A r \in SUBSET s : r # s => r \in D
      PROVE  s \in D
  <2>1. CASE s = {} BY <2>1, SumOfNone
  <2>2. CASE s # {}
    <3>1. PICK x : x = First(s) OBVIOUS
    <3>2. PICK r : r = s \ {x} OBVIOUS
    <3>3. x \in s /\ r = Rest(s) /\ r # s BY <2>2, <3>1, <3>2, RestIsSmaller DEF Rest
    <3>4. SumFunctionOnSet(f, r) = IF y \in r THEN f[y] ELSE 0 BY <1>1, <3>2, <3>3
    <3>5. SumFunctionOnSet(f, s) = f[x] + SumFunctionOnSet(f, r)
      <4>1. IsFiniteSet(s) BY FS_Subset
      <4> QED BY <2>2, <3>1, <3>3, <4>1, SumEquation
    <3>6. CASE x = y BY <3>2, <3>3, <3>4, <3>5, <3>6
    <3>7. CASE x # y
      <4>1. f[x] = 0 /\ (y \in s <=> y \in r) BY <3>2, <3>3, <3>7
      <4> QED BY <3>4, <3>5, <4>1
    <3> QED BY <3>6, <3>7
  <2> QED BY <2>1, <2>2
<1> HIDE DEF D
<1>2. S \in D BY <1>1, SubsetInduction
<1> QED BY <1>2 DEF D

\* The bids that meet the ask are those of the best bid: above it nothing rests.
LEMMA DepthAtTheAsk ==
  ASSUME NEW b \in Books, NEW s \in Sides, Ask(b, s) # Nil
  PROVE  Depth(b, s, Ask(b, s)) = b[Other(s)][Full - Ask(b, s)]
<1> DEFINE o == Other(s)
           y == BestBid(b, o)
           T == {x \in Prices : x >= y}
<1>1. o \in Sides BY DEF Other, Sides
<1>2. y \in 1..99 /\ y \in Levels(b, o) /\ Ask(b, s) = 100 - y /\ 100 - Ask(b, s) = y
  BY AskType DEF Full
<1>3. \A x \in Prices : x \in Int /\ b[o][x] \in Int /\ b[o][x] >= 0
  BY <1>1, MarketAssumption DEF Books, Full
<1>4. \A x \in Levels(b, o) : x <= y
  <2>1. y # Nil BY <1>2, MarketAssumption
  <2> QED BY <1>1, <2>1, BestBidFits
<1>5. \A x \in T : x # y => b[o][x] = 0
  <2> HIDE DEF y, o
  <2> SUFFICES ASSUME NEW x \in Prices, x >= y, x # y PROVE b[o][x] = 0 OBVIOUS
  <2>1. x \notin Levels(b, o) BY <1>2, <1>3, <1>4
  <2> QED BY <1>3, <2>1 DEF Levels
<1>6. IsFiniteSet(T) /\ y \in T
  <2>1. IsFiniteSet(1..99)
    <3>1. 1 \in Int /\ 99 \in Int OBVIOUS
    <3> QED BY <3>1, FS_Interval
  <2>2. T \subseteq 1..99
    <3>1. Prices \subseteq 1..99 BY MarketAssumption DEF Full
    <3> QED BY <3>1
  <2>3. y \in T BY <1>2 DEF Levels
  <2> QED BY <2>1, <2>2, <2>3, FS_Subset
<1>7. Depth(b, s, Ask(b, s)) = SumFunctionOnSet(b[o], T) BY <1>2 DEF Depth, Full
<1>8. b[o][y] \in Int BY <1>3, <1>6
<1> HIDE DEF T, y, o
<1>9. SumFunctionOnSet(b[o], T) = b[o][y] BY <1>5, <1>6, <1>8, SumOfOne
<1> QED BY <1>2, <1>7, <1>9 DEF o, Full

\* AlertPriceHasDepth: the min_liquidity contracts that let an alert pass rest at
\* the price it names, all of them, and at no worse one.
THEOREM DepthIsAtItsPrice == Spec => []AlertPriceHasDepth
<1>1. ASSUME Inv, IsAlert
      PROVE  bids[Other(result.side)][Full - result.price] >= MinLiquidity
  <2>1. PICK s : s = result.side OBVIOUS
  <2>2. bids \in Books /\ s \in Sides BY <1>1, <2>1, AlertOfMarket DEF Inv, TypeOK, Books, Alerts
  <2>3. s = Best(bids, view) /\ result.price = Ask(bids, s) /\ Passes(bids, view, 12)
    BY <1>1, <2>1, AlertOfMarket
  <2>4. Ask(bids, s) # Nil BY <1>1, <2>1, AlertOfMarket DEF Actionable
  <2>5. Gates[12] = "insufficient_liquidity" BY DEF Gates
  <2>6. ~(Depth(bids, s, Ask(bids, s)) < MinLiquidity) BY <2>3, <2>5 DEF Passes, Fails
  <2>7. Depth(bids, s, Ask(bids, s)) = bids[Other(s)][Full - Ask(bids, s)]
    BY <2>2, <2>4, DepthAtTheAsk
  <2>8. bids[Other(s)][Full - Ask(bids, s)] \in Int /\ MinLiquidity \in Int
    <3>1. Full - Ask(bids, s) \in Prices BY <2>2, <2>4, AskType DEF Levels, Full
    <3>2. Other(s) \in Sides BY DEF Other, Sides
    <3>3. MinLiquidity \in Nat /\ 0..MaxSize \subseteq Int BY ConfigAssumption, MarketAssumption
    <3> QED BY <2>2, <3>1, <3>2, <3>3 DEF Books
  <2> QED BY <2>1, <2>3, <2>6, <2>7, <2>8
<1>2. Inv => AlertPriceHasDepth BY <1>1 DEF AlertPriceHasDepth
<1> QED BY <1>2, InvHolds, PTL
=============================================================================
