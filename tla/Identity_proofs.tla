--------------------------- MODULE Identity_proofs --------------------------
(***************************************************************************)
(* Theorems about Identity, for every set of players, matches, boards and  *)
(* stamps.                                                                 *)
(*                                                                         *)
(* Inv is inductive.  A row names the two players of its match and the ids *)
(* they were resolved to (RowFits); a price is one of an event with the    *)
(* surnames of the match, for the side taken (PriceFits); a capture that   *)
(* holds a board with such an event has checked the start (Checked).  The  *)
(* last one is what makes the memo of a capture matter: the check and the  *)
(* price of one capture see the same events, whatever became of the start  *)
(* in between.                                                             *)
(***************************************************************************)
EXTENDS Identity, FiniteSetTheorems, WellFoundedInduction, TLAPS

\* The surnames of a match that the feed can be searched for.
Searchable(m) == Cardinality(Surnames(m)) = 2

Named(priced, named) ==
  /\ priced \in Rated /\ CanonicalKey(priced) = CanonicalKey(named)
  /\ named \in Rated => priced = named

RowFits(m, row) ==
  /\ row.market_player \in {m.a, m.b} /\ row.opponent = Opponent(m, row.market_player)
  /\ Named(row.model[1], row.market_player) /\ Named(row.model[2], row.opponent)
  /\ row.by = "auto" => row.checked

PriceFits(m, row, price) ==
  /\ Surnames(price.event) = Surnames(m)
  /\ SurnameKey(price.of) = SurnameKey(Backed(row))
  /\ price.event = m => price.of = Backed(row)

RowsFit == \A m \in Logged :
  /\ RowFits(m, rows[m])
  /\ \A price \in {rows[m].entry, rows[m].close} \ {Nil} : PriceFits(m, rows[m], price)

Checked == capture # Nil =>
  (Searchable(capture.match) /\ Candidates(capture.events, capture.match) # {} => capture.checked)

Inv == TypeOK /\ RowsFit /\ Checked

-----------------------------------------------------------------------------
(* Names. *)

\* A name is resolved to a rated player with its key, and a rated one to himself.
LEMMA ResolveFits ==
  ASSUME NEW p \in Players, Resolve(p) # Nil
  PROVE  Resolve(p) \in Players /\ Named(Resolve(p), p)
<1> DEFINE bucket == {r \in Rated : CanonicalKey(r) = CanonicalKey(p)}
<1>1. IsFiniteSet(bucket) BY PlayersAssumption, FS_Subset
<1>2. CASE Cardinality(bucket) = 1
  <2>1. PICK r : bucket = {r} BY <1>1, <1>2, FS_Singleton
  <2>2. Resolve(p) = r BY <1>2, <2>1 DEF Resolve
  <2>3. r \in Rated /\ CanonicalKey(r) = CanonicalKey(p) BY <2>1
  <2>4. p \in Rated => p = r BY <2>1
  <2> QED BY <2>2, <2>3, <2>4, PlayersAssumption DEF Named
<1>3. CASE Cardinality(bucket) # 1
  <2>1. p \in bucket /\ Resolve(p) = p BY <1>3 DEF Resolve
  <2> QED BY <2>1 DEF Named
<1> QED BY <1>2, <1>3

-----------------------------------------------------------------------------
(* The nearest of several events. *)

\* A nonempty set of numbers has a least element.
LEMMA LeastNumber ==
  ASSUME NEW S \in SUBSET Nat, S # {}
  PROVE  \E n \in S : \A k \in S : n <= k
<1>1. PICK Less : /\ IsWellFoundedOn(Less, Nat)
                  /\ \A m, n \in Nat : m < n => <<m, n>> \in Less
  <2>1. \A m, n \in Nat : m < n => <<m, n>> \in OpToRel(<, Nat) BY DEF OpToRel
  <2> QED BY <2>1, NatLessThanWellFounded
<1>2. PICK n \in S : \A k \in S : <<k, n>> \notin Less
  <2>1. IsWellFoundedOn(Less, Nat) BY <1>1
  <2> QED BY <2>1, WFMin
<1>3. ASSUME NEW k \in S PROVE n <= k
  <2>1. n \in Nat /\ k \in Nat OBVIOUS
  <2>2. ~(k < n) BY <1>1, <1>2, <2>1
  <2> QED BY <2>1, <2>2
<1> QED BY <1>3

LEMMA DistanceType ==
  ASSUME NEW s \in Int, NEW t \in Int
  PROVE  Distance(s, t) \in Nat
BY DEF Distance

\* One of several events starts nearest.
LEMMA NearestIsOne ==
  ASSUME NEW cands \in SUBSET Matches, cands # {}, NEW target \in Int
  PROVE  Nearest(cands, target) \in cands
<1> DEFINE D(e) == Distance(e.start, target)
<1>1. \A e \in cands : D(e) \in Nat /\ e.id \in Nat BY MatchesAssumption, DistanceType
<1> HIDE DEF D
<1>2. PICK d \in {D(e) : e \in cands} : \A k \in {D(e) : e \in cands} : d <= k
  <2>1. {D(e) : e \in cands} \in SUBSET Nat /\ {D(e) : e \in cands} # {} BY <1>1
  <2> QED BY <2>1, LeastNumber
<1> DEFINE near == {e \in cands : D(e) = d}
<1>3. PICK i \in {e.id : e \in near} : \A k \in {e.id : e \in near} : i <= k
  <2>1. {e.id : e \in near} \in SUBSET Nat /\ {e.id : e \in near} # {} BY <1>1, <1>2
  <2> QED BY <2>1, LeastNumber
<1>4. PICK e \in near : e.id = i BY <1>3
<1>5. ASSUME NEW f \in cands PROVE D(e) < D(f) \/ (D(e) = D(f) /\ e.id <= f.id)
  <2>1. D(e) \in Nat /\ D(f) \in Nat /\ D(e) = d /\ d <= D(f) BY <1>1, <1>2, <1>4
  <2>2. CASE f \in near BY <1>3, <1>4, <2>1, <2>2
  <2>3. CASE f \notin near BY <2>1, <2>3
  <2> QED BY <2>2, <2>3
<1>6. \E x \in cands : \A f \in cands : D(x) < D(f) \/ (D(x) = D(f) /\ x.id <= f.id)
  BY <1>4, <1>5
<1> QED BY <1>6 DEF Nearest, D

-----------------------------------------------------------------------------
(* The sharp feed. *)

\* What is found on a board has the surnames of the match.
LEMMA MatchEventFits ==
  ASSUME NEW events, NEW m, NEW target \in Int \cup {Nil}
  PROVE  /\ MatchEvent(events, m, target) # Nil =>
              /\ Searchable(m) /\ Candidates(events, m) # {}
              /\ MatchEvent(events, m, target) \in Matches
              /\ Surnames(MatchEvent(events, m, target)) = Surnames(m)
         /\ Searchable(m) /\ Candidates(events, m) # {} /\ target # Nil =>
              MatchEvent(events, m, target) # Nil
<1> DEFINE cands == Candidates(events, m)
<1>1. cands \in SUBSET Matches /\ \A e \in cands : e # Nil /\ Surnames(e) = Surnames(m)
  BY MatchesAssumption DEF Candidates
<1>2. cands # {} => (CHOOSE e \in cands : TRUE) \in cands OBVIOUS
<1>3. cands # {} /\ target # Nil => Nearest(cands, target) \in cands
  BY <1>1, NearestIsOne
<1> HIDE DEF cands
<1>4. MatchEvent(events, m, target) =
        IF ~Searchable(m) \/ cands = {} THEN Nil
        ELSE IF Cardinality(cands) = 1 THEN CHOOSE e \in cands : TRUE
        ELSE IF target = Nil THEN Nil
        ELSE Nearest(cands, target)
  BY DEF MatchEvent, Searchable, cands
<1>5. MatchEvent(events, m, target) # Nil =>
        Searchable(m) /\ cands # {} /\ MatchEvent(events, m, target) \in cands
  BY <1>2, <1>3, <1>4
<1>6. Searchable(m) /\ cands # {} /\ target # Nil => MatchEvent(events, m, target) \in cands
  BY <1>2, <1>3, <1>4
<1> QED BY <1>1, <1>5, <1>6 DEF cands

\* The players of a searchable match have different surnames.
LEMMA SurnamesDiffer ==
  ASSUME NEW m, Searchable(m)
  PROVE  SurnameKey(m.a) # SurnameKey(m.b)
<1> SUFFICES ASSUME SurnameKey(m.a) = SurnameKey(m.b) PROVE FALSE OBVIOUS
<1>1. Surnames(m) = {SurnameKey(m.a)} BY DEF Surnames
<1>2. Cardinality(Surnames(m)) = 1 BY <1>1, FS_Singleton
<1> QED BY <1>2 DEF Searchable

\* The price of an event with the right surnames is that of the player backed.
LEMMA OrientedFits ==
  ASSUME NEW m \in Matches, NEW e \in Matches, Searchable(m), Surnames(e) = Surnames(m),
         NEW row \in Rows, RowFits(m, row)
  PROVE  /\ Oriented(row, e) \in Players
         /\ SurnameKey(Oriented(row, e)) = SurnameKey(Backed(row))
         /\ e = m => Oriented(row, e) = Backed(row)
<1>1. SurnameKey(m.a) # SurnameKey(m.b) BY SurnamesDiffer
<1>2. {SurnameKey(e.a), SurnameKey(e.b)} = {SurnameKey(m.a), SurnameKey(m.b)} BY DEF Surnames
<1>3. SurnameKey(e.a) # SurnameKey(e.b) BY <1>1, <1>2
<1>4. e.a # e.b /\ e.a \in Players /\ e.b \in Players BY MatchesAssumption
<1> DEFINE subject == IF SurnameKey(e.a) = SurnameKey(row.market_player) THEN e.a ELSE e.b
<1>5. /\ subject \in {e.a, e.b}
      /\ SurnameKey(subject) = SurnameKey(row.market_player)
      /\ SurnameKey(Opponent(e, subject)) = SurnameKey(row.opponent)
      /\ Opponent(e, subject) \in {e.a, e.b}
      /\ e = m => subject = row.market_player
  BY <1>1, <1>2, <1>3, <1>4 DEF RowFits, Opponent
<1>6. e = m => Opponent(e, subject) = row.opponent BY <1>5 DEF RowFits
<1>7. Oriented(row, e) = IF row.side = "yes" THEN subject ELSE Opponent(e, subject)
  BY DEF Oriented
<1> HIDE DEF subject
<1> QED BY <1>4, <1>5, <1>6, <1>7 DEF Backed

\* A reference that is found is a price, of the player backed.
LEMMA FairProbFits ==
  ASSUME NEW events \in Boards, NEW m \in Matches, NEW row \in Rows, RowFits(m, row),
         FairProb(events, m, row) # Nil
  PROVE  /\ FairProb(events, m, row) \in Prices
         /\ PriceFits(m, row, FairProb(events, m, row))
         /\ Searchable(m) /\ Candidates(events, m) # {}
<1> DEFINE e == MatchEvent(events, m, row.start)
<1>1. row.start \in Int \cup {Nil} BY DEF Rows
<1>2. /\ e # Nil /\ SourceOf(events[e]) # Nil
      /\ FairProb(events, m, row) =
           [event |-> e, of |-> Oriented(row, e), source |-> SourceOf(events[e])]
  BY DEF FairProb
<1>3. Searchable(m) /\ Candidates(events, m) # {} /\ e \in Matches /\ Surnames(e) = Surnames(m)
  BY <1>1, <1>2, MatchEventFits
<1> HIDE DEF e
<1>4. SourceOf(events[e]) \in Sources BY <1>2 DEF SourceOf, Sources
<1>5. /\ Oriented(row, e) \in Players
      /\ SurnameKey(Oriented(row, e)) = SurnameKey(Backed(row))
      /\ e = m => Oriented(row, e) = Backed(row)
  BY <1>3, OrientedFits
<1> QED BY <1>2, <1>3, <1>4, <1>5 DEF Prices, PriceFits

-----------------------------------------------------------------------------
(* The invariant. *)

PricesFit(m, row) == \A price \in {row.entry, row.close} \ {Nil} : PriceFits(m, row, price)

\* Writing one row keeps the rest of the log as it is.
LEMMA OneRow ==
  ASSUME Inv, NEW m \in Matches, NEW row \in Rows, RowFits(m, row), PricesFit(m, row),
         rows' = [rows EXCEPT ![m] = row]
  PROVE  rows' \in [Matches -> Rows \cup {Nil}] /\ RowsFit'
<1>1. rows \in [Matches -> Rows \cup {Nil}] BY DEF Inv, TypeOK
<1>2. ASSUME NEW n \in Logged'
      PROVE  RowFits(n, rows'[n]) /\ PricesFit(n, rows'[n])
  <2>1. n \in Matches /\ rows'[n] # Nil BY <1>2 DEF Logged
  <2>2. CASE n = m BY <1>1, <2>2
  <2>3. CASE n # m
    <3>1. rows'[n] = rows[n] /\ n \in Logged BY <1>1, <2>1, <2>3 DEF Logged
    <3> QED BY <3>1 DEF Inv, RowsFit, PricesFit
  <2> QED BY <2>2, <2>3
<1>3. RowsFit'
  <2>1. \A n \in Logged' : RowFits(n, rows'[n]) /\ PricesFit(n, rows'[n]) BY <1>2
  <2> QED BY <2>1 DEF RowsFit, PricesFit, RowFits, PriceFits, Named, Backed, Logged
<1> QED BY <1>1, <1>3

\* What the invariant says of one logged row.
LEMMA LoggedRow ==
  ASSUME Inv, NEW m \in Matches, rows[m] # Nil
  PROVE  rows[m] \in Rows /\ RowFits(m, rows[m]) /\ PricesFit(m, rows[m])
BY DEF Inv, TypeOK, RowsFit, Logged, PricesFit

\* A row whose close, entry, start or history alone changed is about the same player.
LEMMA SameRow ==
  ASSUME NEW m \in Matches, NEW row \in Rows, RowFits(m, row), PricesFit(m, row),
         NEW start \in Int \cup {Nil}, NEW due \in BOOLEAN,
         NEW price \in Prices \cup {Nil}, price # Nil => PriceFits(m, row, price),
         NEW by \in {"auto", "manual"}, NEW checked \in BOOLEAN, by = "auto" => checked
  PROVE  LET entered == [row EXCEPT !.due = due, !.entry = price, !.start = start]
             closed == [row EXCEPT !.close = price, !.by = by, !.checked = checked]
             moved == [row EXCEPT !.start = start]
         IN \A new \in {entered, closed, moved} :
              new \in Rows /\ RowFits(m, new) /\ PricesFit(m, new)
<1> DEFINE entered == [row EXCEPT !.due = due, !.entry = price, !.start = start]
           closed == [row EXCEPT !.close = price, !.by = by, !.checked = checked]
           moved == [row EXCEPT !.start = start]
<1>1. entered \in Rows /\ closed \in Rows /\ moved \in Rows BY DEF Rows
<1>2. \A new \in {entered, closed, moved} :
        /\ new.market_player = row.market_player /\ new.opponent = row.opponent
        /\ new.side = row.side /\ new.model = row.model
        /\ new.by = "auto" => new.checked
        /\ new.entry \in {row.entry, price} /\ new.close \in {row.close, price}
  BY DEF Rows, RowFits
<1> HIDE DEF entered, closed, moved
<1>3. ASSUME NEW new \in {entered, closed, moved}
      PROVE  new \in Rows /\ RowFits(m, new) /\ PricesFit(m, new)
  <2>1. new \in Rows BY <1>1
  <2>2. RowFits(m, new) BY <1>2 DEF RowFits
  <2>3. Backed(new) = Backed(row) BY <1>2 DEF Backed
  <2>4. PricesFit(m, new) BY <1>2, <2>3 DEF PricesFit, PriceFits
  <2> QED BY <2>1, <2>2, <2>4
<1> QED BY <1>3 DEF entered, closed, moved

LEMMA InitInv == Init => Inv
BY DEF Init, Inv, TypeOK, RowsFit, Checked, Logged

\* A row is logged with the two players of its match, each resolved.
LEMMA LogStep ==
  ASSUME Inv, NEW m \in Matches, NEW player \in {m.a, m.b}, NEW due \in BOOLEAN,
         Log(m, player, due)
  PROVE  Inv'
<1>1. PICK side \in {"yes", "no"}, stamp \in Stamps \cup {Nil} :
        rows' = [rows EXCEPT ![m] =
         [market_player |-> player, opponent |-> Opponent(m, player), side |-> side,
          model |-> <<Resolve(player), Resolve(Opponent(m, player))>>, start |-> stamp,
          due |-> due, entry |-> Nil, close |-> Nil, by |-> Nil, checked |-> FALSE]]
  BY DEF Log
<1> DEFINE row == [market_player |-> player, opponent |-> Opponent(m, player), side |-> side,
          model |-> <<Resolve(player), Resolve(Opponent(m, player))>>, start |-> stamp,
          due |-> due, entry |-> Nil, close |-> Nil, by |-> Nil, checked |-> FALSE]
<1>2. player \in Players /\ Opponent(m, player) \in Players
  BY MatchesAssumption DEF Opponent
<1>3. /\ Resolve(player) \in Players /\ Named(Resolve(player), player)
      /\ Resolve(Opponent(m, player)) \in Players
      /\ Named(Resolve(Opponent(m, player)), Opponent(m, player))
  BY <1>2, ResolveFits DEF Log
<1>4. stamp \in Int \cup {Nil} BY StampsAssumption
<1>5. row \in Rows BY <1>2, <1>3, <1>4 DEF Rows
<1>6. RowFits(m, row)
  <2>1. row.by # "auto" BY NilAssumption
  <2> QED BY <1>3, <2>1 DEF RowFits
<1>7. PricesFit(m, row) BY DEF PricesFit
<1>8. rows' = [rows EXCEPT ![m] = row] BY <1>1
<1> HIDE DEF row
<1>9. rows' \in [Matches -> Rows \cup {Nil}] /\ RowsFit' BY <1>5, <1>6, <1>7, <1>8, OneRow
<1> QED BY <1>9 DEF Inv, TypeOK, Checked, Log

\* The entry price and the start, off one board.
LEMMA EntryStep ==
  ASSUME Inv, NEW m \in Matches, SharpEntry(m)
  PROVE  Inv'
<1>1. rows[m] # Nil BY DEF SharpEntry, Logged
<1>2. rows[m] \in Rows /\ RowFits(m, rows[m]) /\ PricesFit(m, rows[m]) BY <1>1, LoggedRow
<1>3. PICK events \in Boards :
        LET e == MatchEvent(events, m, rows[m].start)
        IN rows' = [rows EXCEPT ![m] = [@ EXCEPT
            !.due = FALSE,
            !.entry = FairProb(events, m, rows[m]),
            !.start = IF e = Nil THEN rows[m].start ELSE e.start]]
  BY DEF SharpEntry, Events
<1> DEFINE e == MatchEvent(events, m, rows[m].start)
           price == FairProb(events, m, rows[m])
           start == IF e = Nil THEN rows[m].start ELSE e.start
           row == [rows[m] EXCEPT !.due = FALSE, !.entry = price, !.start = start]
<1>4. rows' = [rows EXCEPT ![m] = row] BY <1>3 DEF Inv, TypeOK
<1>5. rows[m].start \in Int \cup {Nil} BY <1>2 DEF Rows
<1>6. start \in Int \cup {Nil} BY <1>5, MatchEventFits, MatchesAssumption
<1>7. price \in Prices \cup {Nil} /\ (price # Nil => PriceFits(m, rows[m], price))
  BY <1>2, FairProbFits
<1> HIDE DEF start, price, e
<1>8. row \in Rows /\ RowFits(m, row) /\ PricesFit(m, row)
  <2>1. "auto" = "auto" => TRUE OBVIOUS
  <2> QED BY <1>2, <1>6, <1>7, SameRow
<1> HIDE DEF row
<1>9. rows' \in [Matches -> Rows \cup {Nil}] /\ RowsFit' BY <1>4, <1>8, OneRow
<1> QED BY <1>9 DEF Inv, TypeOK, Checked, SharpEntry

\* The start is checked and corrected; a capture that goes on has seen the board.
LEMMA CaptureStep ==
  ASSUME Inv, NEW m \in Matches, CaptureBegins(m)
  PROVE  Inv'
<1>1. rows[m] # Nil /\ rows[m].start # Nil BY DEF CaptureBegins, Open, Logged
<1>2. rows[m] \in Rows /\ RowFits(m, rows[m]) /\ PricesFit(m, rows[m]) BY <1>1, LoggedRow
<1>3. PICK events \in Boards, kalshi \in Stamps \cup {Nil}, moved \in BOOLEAN, later \in BOOLEAN :
       LET e == MatchEvent(events, m, rows[m].start)
           live == IF e # Nil THEN e.start ELSE kalshi
       IN /\ moved => live # Nil /\ live # rows[m].start
          /\ rows' = IF moved THEN [rows EXCEPT ![m].start = live] ELSE rows
          /\ capture' = IF later THEN Nil
                        ELSE [match |-> m, events |-> events, checked |-> e # Nil]
  BY DEF CaptureBegins, Events
<1> DEFINE e == MatchEvent(events, m, rows[m].start)
           live == IF e # Nil THEN e.start ELSE kalshi
           row == [rows[m] EXCEPT !.start = live]
<1>4. rows[m].start \in Int \cup {Nil} BY <1>2 DEF Rows
<1>5. live \in Int \cup {Nil}
  BY <1>4, MatchEventFits, MatchesAssumption, StampsAssumption
<1>6. Searchable(m) /\ Candidates(events, m) # {} => e # Nil
  BY <1>1, <1>4, MatchEventFits
<1>7. /\ capture' = IF later THEN Nil ELSE [match |-> m, events |-> events, checked |-> e # Nil]
      /\ rows' = IF moved THEN [rows EXCEPT ![m] = row] ELSE rows
  BY <1>3 DEF Inv, TypeOK
<1> HIDE DEF live, e
<1>8. rows' \in [Matches -> Rows \cup {Nil}] /\ RowsFit'
  <2>1. row \in Rows /\ RowFits(m, row) /\ PricesFit(m, row)
    <3>1. Nil \in Prices \cup {Nil} /\ TRUE \in BOOLEAN OBVIOUS
    <3> QED BY <1>2, <1>5, <3>1, SameRow
  <2> HIDE DEF row
  <2>2. CASE moved BY <1>7, <2>1, <2>2, OneRow
  <2>3. CASE ~moved
    <3>1. rows' = rows BY <1>7, <2>3
    <3> QED BY <3>1 DEF Inv, TypeOK, RowsFit, RowFits, PriceFits, Named, Backed, Logged
  <2> QED BY <2>2, <2>3
<1>9. (e # Nil) \in BOOLEAN OBVIOUS
<1>10. Checked' BY <1>6, <1>7 DEF Checked, Searchable
<1>11. capture' \in [match : Matches, events : Boards, checked : BOOLEAN] \cup {Nil}
  BY <1>7, <1>9
<1>12. UNCHANGED batch BY DEF CaptureBegins
<1> QED BY <1>8, <1>10, <1>11, <1>12 DEF Inv, TypeOK

\* A close, by a capture or by a batch, on a board.
LEMMA CloseStep ==
  ASSUME Inv, NEW m \in Matches, NEW events \in Boards, NEW by \in {"auto", "manual"},
         NEW checked \in BOOLEAN,
         by = "auto" /\ Searchable(m) /\ Candidates(events, m) # {} => checked,
         RecordPrice(m, events, by, checked)
  PROVE  rows' \in [Matches -> Rows \cup {Nil}] /\ RowsFit'
<1> DEFINE price == FairProb(events, m, rows[m])
           row == [rows[m] EXCEPT !.close = price, !.by = by, !.checked = checked]
<1>1. CASE UNCHANGED rows
  BY <1>1 DEF Inv, TypeOK, RowsFit, RowFits, PriceFits, Named, Backed, Logged
<1>2. CASE /\ Open(m) /\ price # Nil
           /\ rows' = [rows EXCEPT ![m] =
                [@ EXCEPT !.close = price, !.by = by, !.checked = checked]]
  <2>1. rows[m] # Nil BY <1>2 DEF Open, Logged
  <2>2. rows[m] \in Rows /\ RowFits(m, rows[m]) /\ PricesFit(m, rows[m]) BY <2>1, LoggedRow
  <2>3. rows' = [rows EXCEPT ![m] = row] BY <1>2 DEF Inv, TypeOK
  <2>4. /\ price \in Prices /\ PriceFits(m, rows[m], price)
        /\ by = "auto" => checked
    BY <1>2, <2>2, FairProbFits
  <2> HIDE DEF price
  <2>5. row \in Rows /\ RowFits(m, row) /\ PricesFit(m, row)
    <3>1. rows[m].start \in Int \cup {Nil} /\ TRUE \in BOOLEAN BY <2>2 DEF Rows
    <3> QED BY <2>2, <2>4, <3>1, SameRow
  <2> HIDE DEF row
  <2> QED BY <2>3, <2>5, OneRow
<1> QED BY <1>1, <1>2 DEF RecordPrice

LEMMA NextInv ==
  ASSUME Inv, [Next]_vars
  PROVE  Inv'
<1>1. CASE UNCHANGED vars
  BY <1>1 DEF vars, Inv, TypeOK, RowsFit, Checked, RowFits, PriceFits, Named, Backed, Logged
<1>2. ASSUME NEW m \in Matches, ScanMatch(m) PROVE Inv'
  <2>1. PICK due \in BOOLEAN : Log(m, m.a, due) BY <1>2 DEF ScanMatch
  <2> QED BY <2>1, LogStep
<1>3. ASSUME NEW m \in Matches, CheckMatch(m) PROVE Inv'
  <2>1. PICK player \in {m.a, m.b} : Log(m, player, FALSE) BY <1>3 DEF CheckMatch
  <2> QED BY <2>1, LogStep
<1>4. ASSUME NEW m \in Matches, SharpEntry(m) PROVE Inv' BY <1>4, EntryStep
<1>5. ASSUME NEW m \in Matches, CaptureBegins(m) PROVE Inv' BY <1>5, CaptureStep
<1>6. CASE CaptureCloses
  <2>1. capture \in [match : Matches, events : Boards, checked : BOOLEAN]
    BY <1>6 DEF CaptureCloses, Inv, TypeOK
  <2>2. Events(capture.events) = {capture.events}
    BY <2>1, BoardsAssumption DEF Events
  <2>3. RecordPrice(capture.match, capture.events, "auto", capture.checked)
    BY <1>6, <2>2 DEF CaptureCloses
  <2>4. Searchable(capture.match) /\ Candidates(capture.events, capture.match) # {}
          => capture.checked
    BY <1>6 DEF CaptureCloses, Inv, Checked
  <2>5. rows' \in [Matches -> Rows \cup {Nil}] /\ RowsFit'
    BY <2>1, <2>3, <2>4, CloseStep
  <2> QED BY <1>6, <2>5 DEF CaptureCloses, Inv, TypeOK, Checked
<1>7. CASE BatchBegins
  BY <1>7 DEF BatchBegins, Inv, TypeOK, RowsFit, Checked, RowFits, PriceFits, Named, Backed,
              Logged
<1>8. ASSUME NEW m \in Matches, BatchCloses(m) PROVE Inv'
  <2>1. batch \in [todo : SUBSET Matches, events : Boards \cup {Nil}]
    BY <1>8 DEF BatchCloses, Inv, TypeOK
  <2>2. PICK events \in Events(batch.events) :
          /\ RecordPrice(m, events, "manual", FALSE)
          /\ batch' = IF batch.todo = {m} THEN Nil
                      ELSE [todo |-> batch.todo \ {m}, events |-> events]
    BY <1>8 DEF BatchCloses
  <2>3. events \in Boards BY <2>1, <2>2 DEF Events
  <2>4. rows' \in [Matches -> Rows \cup {Nil}] /\ RowsFit' BY <2>2, <2>3, CloseStep
  <2>5. batch' \in [todo : SUBSET Matches, events : Boards \cup {Nil}] \cup {Nil}
    BY <2>1, <2>2, <2>3
  <2> QED BY <1>8, <2>4, <2>5 DEF BatchCloses, Inv, TypeOK, Checked
<1> QED BY <1>1, <1>2, <1>3, <1>4, <1>5, <1>6, <1>7, <1>8 DEF Next

LEMMA InvHolds == Spec => []Inv
BY InitInv, NextInv, PTL DEF Spec

-----------------------------------------------------------------------------
(* The theorems. *)

\* Every variable of the joins keeps its type: what is recorded is always a price
\* with a source, of a match and a player that exist.
THEOREM TypeCorrect == Spec => []TypeOK
<1>1. Inv => TypeOK BY DEF Inv
<1> QED BY InvHolds, <1>1, PTL

\* probability.resolve_player never prices a rated player as another one.
THEOREM RatedAreThemselves == Spec => []RatedNeverConfused
<1>1. Inv => RatedNeverConfused
  BY DEF Inv, RowsFit, RowFits, Named, RatedNeverConfused
<1> QED BY InvHolds, <1>1, PTL

\* sharp.py records the price of the player backed, off whatever board.
THEOREM PricesAreOfTheBacked == Spec => []PriceIsForTheBacked
<1>1. Inv => PriceIsForTheBacked
  BY DEF Inv, RowsFit, PriceFits, PriceIsForTheBacked
<1> QED BY InvHolds, <1>1, PTL

\* auto_capture never records a sharp price on a start it did not find on the board.
THEOREM StartsAreCheckedFirst == Spec => []PricedOnACheckedStart
<1>1. Inv => PricedOnACheckedStart
  BY DEF Inv, RowsFit, RowFits, PricedOnACheckedStart
<1> QED BY InvHolds, <1>1, PTL
=============================================================================
