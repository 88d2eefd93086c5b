------------------------------- MODULE Pricing ------------------------------
(***************************************************************************)
(* The decision of engine.evaluate_resolution: the model's view of a match *)
(* and the resting bids of its market become an alert or an abstention.    *)
(*                                                                         *)
(* Prices and probabilities are cents of a dollar.  Edges are scaled by    *)
(* FeeDen * Full * Full, so that every threshold is compared exactly; the  *)
(* doubles of the code differ only where a comparison is an exact tie.     *)
(* The text of an alert and its flag for an implausible edge are left out. *)
(***************************************************************************)
EXTENDS Integers, Sequences, FiniteSets, FiniteSetsExt, Functions

CONSTANTS
  Nil,              \* absent
  Prices,           \* prices at which bids rest
  MaxSize,          \* contracts per level
  MaxLevels,        \* bound on the levels of one side
  Probabilities,    \* P(the Yes player wins) for the pairs of players
  Histories,        \* what the artifact knows of a player
  FeeNum, FeeDen,   \* fee_coefficient
  MinEdge,          \* min_net_edge, scaled
  MinPrice, MaxPrice, MaxSpread,
  MinLiquidity, MinMatches, ThinMatches, MaxStaleness,
  Bankroll, KellyNum, KellyDen, CapNum, CapDen,
  FlatStakes,       \* values of paper_flat_stake, in dollars; Nil for Kelly
  RoundedUp,        \* prices whose double lies above the decimal
  SiblingBooks      \* bids that may rest in the other market of the match

Full == 100
Sides == {"yes", "no"}

ASSUME MarketAssumption ==
  /\ Prices \subseteq 1..(Full - 1) /\ Probabilities \subseteq 0..Full
  /\ MaxSize \in Nat /\ MaxLevels \in Nat
  /\ Histories \subseteq [resolved : BOOLEAN, n : Nat, idle : Nat]
  /\ Nil \notin Int /\ Nil \notin Sides /\ Nil \notin Histories

ASSUME ConfigAssumption ==
  /\ FeeNum \in Nat /\ FeeDen \in Nat \ {0} /\ MinEdge \in Nat
  /\ MinPrice \in 0..Full /\ MaxPrice \in 0..Full /\ MaxSpread \in Nat
  /\ MinLiquidity \in Nat /\ MinMatches \in Nat /\ ThinMatches \in Nat
  /\ MaxStaleness \in Nat
  /\ Bankroll \in Nat \ {0} /\ {KellyNum, KellyDen, CapNum, CapDen} \subseteq Nat \ {0}
  /\ KellyNum <= KellyDen /\ CapNum <= CapDen
  /\ FlatStakes \subseteq Nat \cup {Nil} /\ RoundedUp \subseteq 1..(Full - 1)

VARIABLES
  bids,     \* contracts resting at each price, per side
  view,     \* the model's view of the two players of the market
  flat,     \* the configured paper_flat_stake
  result    \* the evaluation of these bids and this view; Nil after they moved

vars == <<bids, view, flat, result>>

Absent == Nil
Contexts == {"known", "unknown_tour", "unknown_format"}
Views == [yes : Histories, no : Histories \cup {Absent}, context : Contexts, p : Probabilities]
Alerts == [status : {"alert"}, side : Sides, price : 1..(Full - 1), contracts : Nat]

\* The reasons of evaluate_resolution, predict and win_probability, in order.
Gates == <<"empty_book", "unresolved_market", "unknown_tour", "unresolved_player",
           "insufficient_history", "unknown_format", "stale_ratings", "thin_player",
           "no_edge", "one_sided_book", "spread_too_wide", "insufficient_liquidity">>

Abstentions == [status : {"abstain"}, reason : Range(Gates)]

Init ==
  /\ bids = [s \in Sides |-> [x \in Prices |-> 0]]
  /\ view \in Views /\ flat \in FlatStakes
  /\ result = Nil

-----------------------------------------------------------------------------
(* reconstruct_asks, spread, depth_at_ask.                                  *)

Other(s) == IF s = "yes" THEN "no" ELSE "yes"

Levels(b, s) == {x \in Prices : b[s][x] > 0}
BestBid(b, s) == IF Levels(b, s) = {} THEN Nil ELSE Max(Levels(b, s))

\* Variant: the ask reconstructed from the bids of its own side.
OwnSideAsk(b, s) == IF BestBid(b, s) = Nil THEN Nil ELSE Full - BestBid(b, s)

\* Buying one side is filled by the resting bids of the other.
Ask(b, s) == IF BestBid(b, Other(s)) = Nil THEN Nil ELSE Full - BestBid(b, Other(s))

Spread(b) == Ask(b, "yes") - BestBid(b, "yes")

\* Variant: every bid of the opposing side counts, at whatever price.
WholeLadder(b, s, price) == SumFunction(b[Other(s)])

\* The opposing bids that meet a price.
Depth(b, s, price) ==
  SumFunctionOnSet(b[Other(s)], {x \in Prices : x >= Full - price})

-----------------------------------------------------------------------------
(* edge.py.                                                                 *)

\* Variant: the edge before the fee.
GrossEdge(p, price) == FeeDen * Full * (p - price)

\* net_edge.
NetEdge(p, price) == FeeDen * Full * (p - price) - FeeNum * price * (Full - price)

\* kalshi_fee: the fee of an order in cents, rounded up.
Fee(price, contracts) ==
  (FeeNum * contracts * price * (Full - price) + FeeDen * Full - 1) \div (FeeDen * Full)

Capped(price) == (CapNum * Bankroll * Full) \div (CapDen * price)

\* Variant: the fraction of the bankroll without its cap.
Uncapped(p, price) ==
  (KellyNum * Bankroll * NetEdge(p, price)) \div (KellyDen * FeeDen * (Full - price) * price)

\* kelly_stake: whole contracts of the capped stake.
KellyContracts(p, price) ==
  LET kelly == (KellyNum * Bankroll * NetEdge(p, price))
                 \div (KellyDen * FeeDen * (Full - price) * price)
  IN IF kelly <= Capped(price) THEN kelly ELSE Capped(price)

\* Variant: the No side is priced with the Yes player's chance.
SameP(v, s) == v.p

\* The chance that the side pays.
P(v, s) == IF s = "yes" THEN v.p ELSE Full - v.p

\* _evaluate_side
Actionable(b, v, s) ==
  LET price == Ask(b, s) IN
  /\ price # Nil
  /\ price \in MinPrice..MaxPrice
  /\ NetEdge(P(v, s), price) >= MinEdge
  /\ KellyContracts(P(v, s), price) >= 1

\* evaluate_market: the better of the actionable sides, the Yes side if equal.
Best(b, v) ==
  LET sides == {s \in Sides : Actionable(b, v, s)}
      edge(s) == NetEdge(P(v, s), Ask(b, s))
  IN IF sides = {} THEN Nil
     ELSE CHOOSE s \in sides :
            \A t \in sides \ {s} : edge(s) > edge(t) \/ (edge(s) = edge(t) /\ s = "yes")

-----------------------------------------------------------------------------
(* Model.predict, win_probability and the gates, in the order of the code.  *)

Stale(h) == h.idle > MaxStaleness

\* Variant: the matches of the Yes player alone.
YesExperience(v) == v.yes.n

\* min(na, nb)
Experience(v) == IF v.yes.n <= v.no.n THEN v.yes.n ELSE v.no.n

Fails(b, v, gate) ==
  CASE gate = "empty_book"           -> Ask(b, "yes") = Nil /\ Ask(b, "no") = Nil
    [] gate = "unresolved_market"    -> v.no = Absent
    [] gate = "unknown_tour"         -> v.context = gate
    [] gate = "unresolved_player"    -> ~v.yes.resolved \/ ~v.no.resolved
    [] gate = "insufficient_history" -> Experience(v) < MinMatches
    [] gate = "unknown_format"       -> v.context = gate
    [] gate = "stale_ratings"        -> Stale(v.yes) \/ Stale(v.no)
    [] gate = "thin_player"          -> Experience(v) < ThinMatches
    [] gate = "no_edge"              -> Best(b, v) = Nil
    [] gate = "one_sided_book"       -> \E s \in Sides : Ask(b, s) = Nil
    [] gate = "spread_too_wide"      -> Spread(b) > MaxSpread
    [] gate = "insufficient_liquidity" ->
         Depth(b, Best(b, v), Ask(b, Best(b, v))) < MinLiquidity

\* The flat stake in whole contracts, by // on doubles: a price whose double lies
\* above the decimal loses one contract when it divides the stake.
FlatContracts(stake, price) ==
  LET whole == (stake * Full) \div price
      short == (stake * Full) % price = 0 /\ price \in RoundedUp /\ whole > 0
  IN IF short THEN whole - 1 ELSE whole

\* The alert for the best side.
Alert(b, v, stake) ==
  LET s == Best(b, v)
      price == Ask(b, s)
  IN [status |-> "alert", side |-> s, price |-> price,
      contracts |-> IF stake # Nil THEN FlatContracts(stake, price)
                    ELSE KellyContracts(P(v, s), price)]

\* The first gate that fails decides the reason.
Evaluation(b, v, stake) ==
  LET passes(k) == ~Fails(b, v, Gates[k])
      failing == {k \in 1..Len(Gates) : (\A j \in 1..(k - 1) : passes(j)) /\ ~passes(k)}
  IN IF failing = {} THEN Alert(b, v, stake)
     ELSE [status |-> "abstain", reason |-> Gates[CHOOSE k \in failing : TRUE]]

-----------------------------------------------------------------------------
(* The exchange moves, the bot evaluates.  A bid that meets an opposing one *)
(* is filled and does not rest.                                             *)

Uncrossed(b) == \A x \in Levels(b, "yes"), y \in Levels(b, "no") : x + y < Full

ASSUME SiblingAssumption ==
  \A b \in SiblingBooks : b \in [Sides -> [Prices -> 0..MaxSize]] /\ Uncrossed(b)

BidsMove ==
  /\ \E s \in Sides, x \in Prices, size \in 0..MaxSize :
       LET b == [bids EXCEPT ![s][x] = size] IN
       /\ bids' = b /\ Uncrossed(b) /\ Cardinality(Levels(b, s)) <= MaxLevels
  /\ result' = Nil /\ UNCHANGED <<view, flat>>

Evaluate ==
  /\ result = Nil /\ result' = Evaluation(bids, view, flat)
  /\ UNCHANGED <<bids, view, flat>>

Next == BidsMove \/ Evaluate

Spec == Init /\ [][Next]_vars

-----------------------------------------------------------------------------
(* Properties.                                                              *)

\* The evaluation is an alert with a price strictly between 0 and 1 and a
\* whole number of contracts, or one of the documented abstentions.
TypeOK ==
  /\ bids \in [Sides -> [Prices -> 0..MaxSize]] /\ view \in Views /\ flat \in FlatStakes
  /\ result \in Alerts \cup Abstentions \cup {Nil}

IsAlert == result # Nil /\ result.status = "alert"

\* evaluate_market keeps the better of the two actionable sides and drops the
\* other.  Nothing is dropped: on the bids of an exchange, which do not cross,
\* the model never backs both players of one market.
OneSideAtMost == Cardinality({s \in Sides : Actionable(bids, view, s)}) <= 1

\* The gate of an alert charges the linear fee per contract, the P&L of
\* clv.net_pnl the fee of the whole order rounded up (kalshi_fee).  If the
\* model is right the order earns min_net_edge per contract after the second
\* one too, but for less than a cent.
AlertEarnsItsEdge ==
  IsAlert /\ result.contracts > 0 =>
    LET n == result.contracts
        earned == n * (P(view, result.side) - result.price) - Fee(result.price, n)
    IN (earned + 1) * FeeDen * Full > n * MinEdge

\* An order suggested by an alert costs no more than the stake it stands for:
\* the flat stake, or max_stake_pct of the bankroll (kelly_stake caps first).
StakeWithinCap ==
  IsAlert =>
    LET cost == result.contracts * result.price IN
    IF flat # Nil THEN cost <= flat * Full ELSE cost * CapDen <= CapNum * Bankroll * Full

\* engine.depth_at_ask sums every level that meets the ask, and an alert names one
\* price: the min_liquidity contracts of the gate all rest at that price, on the
\* best bid of the other side.  The alert's own contract count is compared with no
\* depth, neither by the code nor here.
AlertPriceHasDepth ==
  IsAlert => bids[Other(result.side)][Full - result.price] >= MinLiquidity

\* The other market of the match: the other player is its Yes player, and its bids
\* are its own.
SiblingView == [yes |-> view.no, no |-> view.yes, context |-> view.context, p |-> Full - view.p]

\* Of one contract with its linear fee, scaled.
Cost(price) == FeeDen * Full * price + FeeNum * price * (Full - price)

Quoted(b) == \E s \in Sides : Ask(b, s) # Nil
ModelReasons == {"unknown_tour", "unresolved_player", "insufficient_history",
                 "unknown_format", "stale_ratings", "thin_player"}
Unfit(evaluation) == evaluation.status = "abstain" /\ evaluation.reason \in ModelReasons

\* A match is scanned from the market whose ticker comes first and checked from the
\* one of the player typed first (engine.scan_series, client.resolve_match).  Each
\* has its own bids, so the prices, and with them the selection, may differ.  What
\* must not differ is what the model says of the match: it abstains on both markets
\* for the same reason.  And where the two markets back the two players, which the
\* log takes for two positions, both bets together cost less than the dollar one of
\* them pays, by min_net_edge each after fees.
SiblingIsConsistent ==
  result # Nil /\ view.no # Absent =>
    \A b \in SiblingBooks :
      LET other == Evaluation(b, SiblingView, flat) IN
      /\ Quoted(bids) /\ Quoted(b) /\ (Unfit(result) \/ Unfit(other)) => other = result
      /\ IsAlert /\ other.status = "alert" /\ other.side = result.side =>
           Cost(result.price) + Cost(other.price) + 2 * MinEdge <= FeeDen * Full * Full

=============================================================================
