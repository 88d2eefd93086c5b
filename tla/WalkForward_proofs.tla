------------------------- MODULE WalkForward_proofs -------------------------
(***************************************************************************)
(* Theorems about WalkForward, for every set of players and spellings and  *)
(* every length of the season.                                             *)
(*                                                                         *)
(* Inv is inductive.  Sorted is the heart of it: no row that is still to   *)
(* be replayed is older than one that was.  InPlay adds, for a season      *)
(* without bronze matches, that the matches of one player are replayed as  *)
(* they were played; through the chain of opponents (Behind) that is what  *)
(* keeps a rating from looking ahead.  AsBuilt adds, for a feed that       *)
(* spells every name in one way, what the section is made of.              *)
(***************************************************************************)
EXTENDS WalkForward, FiniteSetTheorems, WellFoundedInduction, TLAPS

Replayed == {order[k] : k \in 1..Len(order)}
Listed == {i \in Feed : ~season[i].walkover}

Counted ==
  /\ phase = "idle" => todo = {}
  /\ Len(order) + Cardinality(todo) <= Len(season)
  /\ \A p \in Players : count[p] <= Len(order)

Sorted == \A i \in Replayed, j \in todo : season[i].date <= season[j].date

Lasts == \A p \in Players, i \in Replayed :
  Plays(p, season[i]) => last[p] # Nil /\ season[i].date <= last[p]

\* Between two builds all but the matches played since are replayed.
Complete ==
  /\ Replayed \cup todo \subseteq Listed
  /\ phase = "replay" => Listed \subseteq Replayed \cup todo

Experienced == \A p \in Players :
  count[p] # 0 => \E i \in Replayed : Plays(p, season[i]) /\ season[i].date = last[p]

Inv ==
  /\ TypeOK /\ Counted /\ Sorted /\ Lasts /\ Complete /\ Experienced
  /\ \A p \in Players : fed[p] \subseteq Replayed
  /\ TrainingIsUnspoiled

-----------------------------------------------------------------------------
(* The season and the order. *)

\* One more row in the order.
LEMMA AppendOrder ==
  ASSUME TypeOK, NEW i \in Feed, order' = Append(order, i)
  PROVE  /\ order' \in Seq(Feed) /\ Len(order') = Len(order) + 1
         /\ Replayed' = Replayed \cup {i}
<1>1. /\ order \in Seq(Feed) /\ order' \in Seq(Feed) /\ Len(order') = Len(order) + 1
      /\ Len(order) \in Nat
      /\ \A k \in 1..Len(order) : order'[k] = order[k]
      /\ order'[Len(order) + 1] = i
  BY DEF TypeOK
<1>2. 1..Len(order') = 1..Len(order) \cup {Len(order) + 1} BY <1>1
<1> QED BY <1>1, <1>2 DEF Replayed

\* A replayed row is one of the feed.
LEMMA ReplayedType ==
  ASSUME TypeOK
  PROVE  Replayed \subseteq Feed
BY DEF TypeOK, Replayed

\* Another match leaves the ones played.
LEMMA SeasonGrows ==
  ASSUME TypeOK, Play
  PROVE  /\ season' \in Seq(Match) /\ Len(season') = Len(season) + 1 /\ Len(season') <= MaxMatches
         /\ Feed \subseteq Feed' /\ \A i \in Feed : season'[i] = season[i]
         /\ season'[Len(season) + 1] \in Match /\ Possible(season'[Len(season) + 1])
         /\ Feed' = Feed \cup {Len(season) + 1}
<1>1. PICK m \in Match : Possible(m) /\ season' = Append(season, m) BY DEF Play
<1>2. season \in Seq(Match) /\ Len(season) \in Nat /\ Len(season) < MaxMatches BY DEF TypeOK, Play
<1>3. /\ season' \in Seq(Match) /\ Len(season') = Len(season) + 1
      /\ \A i \in 1..Len(season) : season'[i] = season[i]
      /\ season'[Len(season) + 1] = m
  BY <1>1, <1>2
<1> QED BY <1>1, <1>2, <1>3, SeasonAssumption DEF Feed

\* The number of rows that are listed is at most the number of matches.
LEMMA ListedBound ==
  ASSUME TypeOK, NEW S \in SUBSET Feed
  PROVE  IsFiniteSet(S) /\ Cardinality(S) \in Nat /\ Cardinality(S) <= Len(season)
<1>1. Len(season) \in Nat BY DEF TypeOK
<1>2. IsFiniteSet(Feed) /\ Cardinality(Feed) = Len(season)
  BY <1>1, FS_Interval DEF Feed
<1> QED BY <1>2, FS_Subset, FS_CardinalityType

\* A date of the feed.
LEMMA DateType ==
  ASSUME TypeOK, NEW i \in Feed
  PROVE  season[i] \in Match /\ season[i].date \in Dates /\ season[i].date \in Int /\ season[i].date # Nil
<1>1. season[i] \in Match BY DEF TypeOK, Feed
<1>2. season[i].date \in Dates BY <1>1 DEF Match
<1>3. \A d \in Dates : d \in Int /\ d # Nil BY SeasonAssumption DEF Dates
<1> QED BY <1>1, <1>2, <1>3

-----------------------------------------------------------------------------
(* The invariant. *)

LEMMA InitInv == Init => Inv
<1> SUFFICES ASSUME Init PROVE Inv OBVIOUS
<1>1. Replayed = {} /\ Feed = {} BY DEF Replayed, Feed, Init
<1>2. TypeOK BY SeasonAssumption DEF Init, TypeOK
<1>3. Counted
  <2>1. Cardinality({}) = 0 BY FS_EmptySet
  <2> QED BY <2>1 DEF Counted, Init
<1>4. Sorted /\ Lasts /\ Complete /\ TrainingIsUnspoiled
  BY <1>1 DEF Sorted, Lasts, Complete, TrainingIsUnspoiled, Init
<1>5. Experienced /\ \A p \in Players : fed[p] \subseteq Replayed
  BY DEF Experienced, Init
<1> QED BY <1>2, <1>3, <1>4, <1>5 DEF Inv

LEMMA PlayStep ==
  ASSUME Inv, Play
  PROVE  Inv'
<1>1. TypeOK BY DEF Inv
<1>2. UNCHANGED <<phase, todo, order, fed, count, last, records, section>> BY DEF Play, book
<1>3. /\ season' \in Seq(Match) /\ Len(season') = Len(season) + 1 /\ Len(season') <= MaxMatches
      /\ Feed \subseteq Feed' /\ \A i \in Feed : season'[i] = season[i]
  BY <1>1, SeasonGrows
<1>4. Replayed' = Replayed /\ Replayed \subseteq Feed BY <1>1, <1>2, ReplayedType DEF Replayed
<1>5. TypeOK'
  <2>1. order' \in Seq(Feed') BY <1>1, <1>2, <1>3 DEF TypeOK
  <2> QED BY <1>1, <1>2, <1>3, <2>1 DEF TypeOK
<1>6. Counted'
  <2>1. Len(season) \in Nat /\ Len(order) \in Nat /\ Cardinality(todo) \in Nat
    BY <1>1, ListedBound DEF TypeOK
  <2> QED BY <1>2, <1>3, <2>1 DEF Inv, Counted
<1>7. Sorted' /\ Lasts'
  BY <1>1, <1>2, <1>3, <1>4 DEF Inv, Sorted, Lasts, TypeOK, Plays
<1>8. TrainingIsUnspoiled' BY <1>1, <1>2, <1>3 DEF Inv, TrainingIsUnspoiled, TypeOK
<1>9. Complete' /\ Experienced'
  <2>1. phase' = "idle" BY <1>2 DEF Play
  <2>2. Listed \subseteq Listed' BY <1>3 DEF Listed
  <2>3. Complete' BY <1>2, <1>4, <2>1, <2>2 DEF Inv, Complete
  <2>4. Experienced' BY <1>2, <1>3, <1>4 DEF Inv, Experienced, Plays
  <2> QED BY <2>3, <2>4
<1> QED BY <1>2, <1>4, <1>5, <1>6, <1>7, <1>8, <1>9 DEF Inv

LEMMA PrepareStep ==
  ASSUME Inv, Prepare
  PROVE  Inv'
<1>1. /\ phase' = "replay" /\ todo' = Listed /\ order' = <<>> /\ records' = {}
      /\ fed' = [p \in Players |-> {}] /\ count' = [p \in Players |-> 0]
      /\ last' = [p \in Players |-> Nil] /\ UNCHANGED <<season, section>>
  BY DEF Prepare, NewBook, Listed
<1>2. TypeOK BY DEF Inv
<1>3. Replayed' = {} /\ Feed' = Feed BY <1>1 DEF Replayed, Feed
<1>4. TypeOK' BY <1>1, <1>2, SeasonAssumption DEF TypeOK, Listed, Feed
<1>5. Counted'
  <2>1. Len(season) \in Nat /\ Cardinality(Listed) \in Nat /\ Cardinality(Listed) <= Len(season)
    BY <1>2, ListedBound DEF Listed, TypeOK
  <2> QED BY <1>1, <2>1 DEF Counted
<1>6. Complete' /\ Experienced'
  <2>1. Listed' = Listed BY <1>1 DEF Listed, Feed
  <2> QED BY <1>1, <1>3, <2>1 DEF Complete, Experienced
<1> QED BY <1>1, <1>3, <1>4, <1>5, <1>6 DEF Inv, Sorted, Lasts, TrainingIsUnspoiled

\* The row that is replayed is at least as old as any that is left, and at least as
\* young as any that was replayed.
LEMMA ReplayStep ==
  ASSUME Inv, NEW i \in Feed, Replay(i)
  PROVE  Inv'
<1>1. TypeOK BY DEF Inv
<1>2. /\ phase = "replay" /\ i \in todo /\ todo' = todo \ {i} /\ order' = Append(order, i)
      /\ UNCHANGED <<season, phase, section>>
      /\ \A j \in todo : ~Precedes(j, i)
  BY DEF Replay
<1> DEFINE m == season[i]
<1>3. /\ fed' = [p \in Players |-> IF Plays(p, m) THEN fed[m.winner] \cup fed[m.loser] \cup {i}
                                   ELSE fed[p]]
      /\ count' = [p \in Players |-> count[p] + (IF Plays(p, m) THEN 1 ELSE 0)]
      /\ last' = [p \in Players |-> IF Plays(p, m) THEN m.date ELSE last[p]]
  BY DEF Replay, Update
<1>4. records' = records \/ records' =
        records \cup {[match |-> i, fed |-> RestsOn(i), experience |-> Experience(i)]}
  BY DEF Replay
<1>5. m \in Match /\ m.date \in Dates /\ m.winner \in Players /\ m.loser \in Players
  BY <1>1, DateType DEF Match
<1>6. order' \in Seq(Feed) /\ Len(order') = Len(order) + 1 /\ Replayed' = Replayed \cup {i}
  BY <1>1, <1>2, AppendOrder
<1>7. Feed' = Feed BY <1>2 DEF Feed
<1>8. RestsOn(i) \subseteq Replayed /\ RestsOn(i) \subseteq Feed
  BY <1>1, <1>5, ReplayedType DEF RestsOn, Inv
<1>9. Experience(i) \in Nat BY <1>1, <1>5, SeasonAssumption DEF Experience, TypeOK
<1>10. Counted'
  <2>1. IsFiniteSet(todo) /\ Cardinality(todo) \in Nat /\ Len(order) \in Nat /\ Len(season) \in Nat
    BY <1>1, ListedBound DEF TypeOK
  <2>2. Cardinality(todo \ {i}) = Cardinality(todo) - 1 BY <1>2, <2>1, FS_RemoveElement
  <2>3. \A p \in Players : count[p] \in Nat BY <1>1, SeasonAssumption DEF TypeOK
  <2>4. \A p \in Players : count'[p] <= Len(order')
    BY <1>3, <1>6, <2>1, <2>3 DEF Inv, Counted
  <2>5. Len(order') + Cardinality(todo') <= Len(season')
    BY <1>2, <1>6, <2>1, <2>2 DEF Inv, Counted
  <2> QED BY <1>2, <2>4, <2>5 DEF Counted
<1>11. TypeOK'
  <2>1. /\ fed' \in [Players -> SUBSET Feed] /\ last' \in [Players -> Dates \cup {Nil}]
    BY <1>1, <1>3, <1>5 DEF TypeOK
  <2>2. count' \in [Players -> 0..MaxMatches]
    <3>1. Cardinality(todo') \in Nat /\ Len(season) <= MaxMatches /\ Len(season) \in Nat
          /\ Len(order') \in Nat
      BY <1>1, <1>2, <1>6, ListedBound DEF TypeOK
    <3>2. Len(order') <= MaxMatches
      BY <1>2, <1>10, <3>1, SeasonAssumption DEF Counted
    <3>3. \A p \in Players : count'[p] \in Nat /\ count'[p] <= Len(order')
      BY <1>1, <1>3, <1>10, SeasonAssumption DEF TypeOK, Counted
    <3>4. \A p \in Players : count'[p] \in 0..MaxMatches
      BY <3>1, <3>2, <3>3, SeasonAssumption
    <3> QED BY <1>3, <3>4
  <2>3. records' \subseteq [match : Feed, fed : SUBSET Feed, experience : Nat]
    BY <1>1, <1>4, <1>8, <1>9 DEF TypeOK
  <2> QED BY <1>1, <1>2, <1>6, <1>7, <2>1, <2>2, <2>3 DEF TypeOK
<1>12. Sorted'
  <2>1. ASSUME NEW j \in todo' PROVE m.date <= season[j].date
    <3>1. j \in todo /\ j \in Feed BY <1>1, <1>2 DEF TypeOK
    <3>2. ~(season[j].date < m.date) BY <1>2, <3>1 DEF Precedes, Earlier
    <3> QED BY <1>1, <3>1, <3>2, DateType
  <2> QED BY <1>2, <1>6, <2>1 DEF Inv, Sorted
<1>13. Lasts'
  <2>1. ASSUME NEW p \in Players, NEW k \in Replayed', Plays(p, season[k])
        PROVE  last'[p] # Nil /\ season[k].date <= last'[p]
    <3>1. CASE Plays(p, m)
      <4>1. last'[p] = m.date BY <1>3, <3>1
      <4>2. k = i \/ k \in Replayed BY <1>6
      <4>3. season[k].date <= m.date BY <1>1, <1>2, <4>2, DateType DEF Inv, Sorted
      <4> QED BY <1>1, <4>1, <4>3, DateType
    <3>2. CASE ~Plays(p, m)
      <4>1. last'[p] = last[p] /\ k \in Replayed BY <1>3, <1>6, <2>1, <3>2
      <4> QED BY <2>1, <4>1 DEF Inv, Lasts
    <3> QED BY <3>1, <3>2
  <2> QED BY <1>2, <2>1 DEF Lasts, Plays
<1>14. \A p \in Players : fed'[p] \subseteq Replayed'
  BY <1>3, <1>5, <1>6 DEF Inv
<1>15. TrainingIsUnspoiled'
  <2>1. \A k \in RestsOn(i) : season[k].date <= season[i].date
    BY <1>2, <1>8 DEF Inv, Sorted
  <2> QED BY <1>2, <1>4, <2>1 DEF Inv, TrainingIsUnspoiled
<1>16. Complete'
  <2>1. Listed' = Listed BY <1>2 DEF Listed, Feed
  <2>2. todo \subseteq Listed BY DEF Inv, Complete
  <2> QED BY <1>2, <1>6, <2>1, <2>2 DEF Inv, Complete, Listed
<1>17. Experienced'
  <2>1. ASSUME NEW p \in Players, count'[p] # 0
        PROVE  \E k \in Replayed' : Plays(p, season[k]) /\ season[k].date = last'[p]
    <3>1. CASE Plays(p, m)
      <4>1. last'[p] = m.date /\ i \in Replayed' BY <1>3, <1>6, <3>1
      <4> QED BY <3>1, <4>1
    <3>2. CASE ~Plays(p, m)
      <4>1. last'[p] = last[p] /\ count'[p] = count[p] /\ Replayed \subseteq Replayed'
        BY <1>1, <1>3, <1>6, <3>2, SeasonAssumption DEF TypeOK
      <4> QED BY <2>1, <4>1 DEF Inv, Experienced
    <3> QED BY <3>1, <3>2
  <2> QED BY <1>2, <2>1 DEF Experienced, Plays
<1> QED BY <1>10, <1>11, <1>12, <1>13, <1>14, <1>15, <1>16, <1>17 DEF Inv

-----------------------------------------------------------------------------
(* The section of the artifact. *)

\* A nonempty set of numbers has a least element.
LEMMA LeastNumber ==
  ASSUME NEW S \in SUBSET Nat, S # {}
  PROVE  \E n \in S : \A k \in S : n <= k
<1>1. PICK Less : /\ IsWellFoundedOn(Less, Nat)
                  /\ \A m, n \in Nat : m < n => <<m, n>> \in Less
  <2>1. \A m, n \in Nat : m < n => <<m, n>> \in OpToRel(<, Nat) BY DEF OpToRel
  <2> QED BY <2>1, NatLessThanWellFounded
<1>2. PICK n \in S : \A k \in S : <<k, n>> \notin Less
  <2>1. IsWellFoundedOn(Less, Nat) BY <1>1
  <2> QED BY <2>1, WFMin
<1>3. ASSUME NEW k \in S PROVE n <= k
  <2>1. n \in Nat /\ k \in Nat OBVIOUS
  <2>2. ~(k < n) BY <1>1, <1>2, <2>1
  <2> QED BY <2>1, <2>2
<1> QED BY <1>3

\* The newest of some rows has the date of one of them, and none is newer.
LEMMA NewestIsOne ==
  ASSUME TypeOK, NEW rows \in SUBSET Feed, rows # {}
  PROVE  /\ NewestOf(rows) \in Dates
         /\ \E i \in rows : season[i].date = NewestOf(rows)
         /\ \A i \in rows : season[i].date <= NewestOf(rows)
<1> DEFINE Age(i) == MaxDate - season[i].date
<1>1. \A i \in rows : season[i].date \in Dates BY DateType
<1>2. \A i \in rows : Age(i) \in Nat BY <1>1, SeasonAssumption DEF Dates
<1> HIDE DEF Age
<1>3. PICK a \in {Age(i) : i \in rows} : \A b \in {Age(i) : i \in rows} : a <= b
  <2>1. {Age(i) : i \in rows} \in SUBSET Nat /\ {Age(i) : i \in rows} # {} BY <1>2
  <2> QED BY <2>1, LeastNumber
<1>4. PICK i \in rows : Age(i) = a BY <1>3
<1>5. \A j \in rows : season[j].date <= season[i].date
  <2>1. \A j \in rows : Age(i) <= Age(j) BY <1>3, <1>4
  <2> QED BY <1>1, <2>1, SeasonAssumption DEF Age, Dates
<1>6. \E d \in Dates : (\E k \in rows : season[k].date = d) /\ (\A k \in rows : season[k].date <= d)
  BY <1>1, <1>5
<1> QED BY <1>6 DEF NewestOf

\* The index opens a player's bucket with a name he has in one of his rows.
LEMMA FirstNameFits ==
  ASSUME Inv, phase = "replay", todo = {}, NEW p \in Players, count[p] # 0
  PROVE  /\ RowsOf(p) \in SUBSET Feed
         /\ \E i \in RowsOf(p) : FirstName(p) = SpelledAs(p, season[i])
<1>1. TypeOK BY DEF Inv
<1>2. RowsOf(p) \subseteq Replayed
  BY DEF Inv, Complete, Listed, RowsOf
<1>3. RowsOf(p) # {}
  <2>1. PICK i \in Replayed : Plays(p, season[i]) BY DEF Inv, Experienced
  <2>2. i \in Listed BY DEF Inv, Complete
  <2> QED BY <2>1, <2>2 DEF RowsOf, Listed
<1> DEFINE wins == {i \in RowsOf(p) : season[i].winner = p}
           rows == IF wins # {} THEN wins ELSE RowsOf(p)
<1>4. rows # {} /\ rows \subseteq RowsOf(p) /\ rows \subseteq Replayed BY <1>2, <1>3
<1> HIDE DEF rows
<1> DEFINE places == {k \in 1..Len(order) : order[k] \in rows}
<1>5. places \in SUBSET Nat /\ places # {}
  <2>1. PICK i \in Replayed : i \in rows BY <1>4
  <2>2. PICK k \in 1..Len(order) : order[k] = i BY <2>1 DEF Replayed
  <2>3. Len(order) \in Nat BY <1>1 DEF TypeOK
  <2> QED BY <2>1, <2>2, <2>3
<1>6. PICK k \in places : \A j \in places : k <= j BY <1>5, LeastNumber
<1>7. k \in 1..Len(order) /\ order[k] \in rows /\ \A j \in 1..(k - 1) : order[j] \notin rows
  <2>1. k \in Nat /\ Len(order) \in Nat BY <1>1, <1>5, <1>6 DEF TypeOK
  <2> QED BY <1>6, <2>1
<1>8. FirstInOrder(rows) \in rows BY <1>7 DEF FirstInOrder
<1>9. FirstName(p) = SpelledAs(p, season[FirstInOrder(rows)]) BY DEF FirstName, rows
<1> QED BY <1>4, <1>8, <1>9 DEF RowsOf

\* A last date of the section is a date.
LEMMA LastDateType ==
  ASSUME Inv, phase = "replay", todo = {}, NEW p \in Players, count[p] # 0
  PROVE  LastDate(p) \in Dates
<1>1. TypeOK BY DEF Inv
<1>2. PICK i \in RowsOf(p) : FirstName(p) = SpelledAs(p, season[i]) BY FirstNameFits
<1>3. RowsAs(p, FirstName(p)) \in SUBSET Feed /\ RowsAs(p, FirstName(p)) # {}
  BY <1>2 DEF RowsAs, RowsOf
<1> QED BY <1>1, <1>3, NewestIsOne DEF LastDate

LEMMA SectionStep ==
  ASSUME Inv, BuildSection
  PROVE  Inv'
<1>1. /\ phase = "replay" /\ phase' = "idle" /\ todo = {}
      /\ UNCHANGED <<season, todo, order, fed, count, last, records>>
      /\ section' = [p \in Players |-> IF count[p] = 0 \/ count[p] < MinMatches THEN Nil
                                       ELSE LastDate(p)]
  BY DEF BuildSection, book
<1>2. section' \in [Players -> Dates \cup {Nil}] BY <1>1, LastDateType
<1>3. TypeOK' BY <1>1, <1>2 DEF Inv, TypeOK, Feed
<1> QED BY <1>1, <1>3
        DEF Inv, Counted, Sorted, Lasts, Complete, Experienced, Replayed, TrainingIsUnspoiled,
            Feed, Listed, Plays

LEMMA NextInv ==
  ASSUME Inv, [Next]_vars
  PROVE  Inv'
<1>1. CASE UNCHANGED vars
  BY <1>1 DEF vars, book, Inv, TypeOK, Counted, Sorted, Lasts, Complete, Experienced, Replayed,
              TrainingIsUnspoiled, Feed, Listed, Plays
<1>2. ASSUME NEW i \in Feed, Replay(i) PROVE Inv' BY <1>2, ReplayStep
<1> QED BY <1>1, <1>2, PlayStep, PrepareStep, SectionStep DEF Next

LEMMA InvHolds == Spec => []Inv
BY InitInv, NextInv, PTL DEF Spec

-----------------------------------------------------------------------------
(* The theorems. *)

\* Every variable of the replay keeps its type.
THEOREM TypeCorrect == Spec => []TypeOK
<1>1. Inv => TypeOK BY DEF Inv
<1> QED BY InvHolds, <1>1, PTL

\* No observation before a split date rests on a match after it.
THEOREM TrainingStaysClean == Spec => []TrainingIsUnspoiled
<1>1. Inv => TrainingIsUnspoiled BY DEF Inv
<1> QED BY InvHolds, <1>1, PTL

\* RatingBook.update may overwrite the last date without a comparison.
THEOREM LastPlayedIsKept == Spec => []LastPlayedIsNewest
<1>1. Inv => LastPlayedIsNewest BY DEF Inv, Lasts, Replayed, LastPlayedIsNewest
<1> QED BY InvHolds, <1>1, PTL

-----------------------------------------------------------------------------
(* No look-ahead. *)

NoBronze == "BR" \notin Rounds

\* The matches of one player follow one another as the calendar has it.
Seasoned == \A i, j \in Feed : i < j =>
  \A p \in Players : Plays(p, season[i]) /\ Plays(p, season[j]) =>
    \/ season[i].date < season[j].date
    \/ /\ season[i].date = season[j].date
       /\ season[j].round \in After(season[i].round, season[i].winner = p)

\* ... and are replayed as they were played.
InPlay == \A i \in Replayed, j \in todo, p \in Players :
  Plays(p, season[i]) /\ Plays(p, season[j]) => i < j

\* Whatever a rating rests on was played no later than a replayed match of its player.
Behind == \A p \in Players : \A i \in fed[p] :
  \E k \in Replayed : Plays(p, season[k]) /\ i <= k

Ahead == Seasoned /\ InPlay /\ Behind /\ NoLookahead

\* The round that follows, the bronze match excepted, is sorted later; a group stage
\* goes on.
LEMMA NextIsLater ==
  ASSUME NEW round \in Labels, NEW won \in BOOLEAN, NEW next \in After(round, won),
         next # "BR"
  PROVE  (round = "RR" /\ next = "RR") \/ RoundOrder(round) < RoundOrder(next)
<1>1. /\ RoundOrder("RR") = 0 /\ RoundOrder("R128") = 1 /\ RoundOrder("R64") = 2
      /\ RoundOrder("R32") = 3 /\ RoundOrder("R16") = 4 /\ RoundOrder("QF") = 5
      /\ RoundOrder("SF") = 6 /\ RoundOrder("F") = 7
  BY DEF RoundOrder
<1>2. CASE round = "RR" BY <1>1, <1>2 DEF After
<1>3. CASE round = "R128" BY <1>1, <1>3 DEF After
<1>4. CASE round = "R64" BY <1>1, <1>4 DEF After
<1>5. CASE round = "R32" BY <1>1, <1>5 DEF After
<1>6. CASE round = "R16" BY <1>1, <1>6 DEF After
<1>7. CASE round = "QF" BY <1>1, <1>7 DEF After
<1>8. CASE round = "SF" BY <1>1, <1>8 DEF After
<1>9. CASE round \in {"F", "BR", "other"} BY <1>9 DEF After
<1> QED BY <1>2, <1>3, <1>4, <1>5, <1>6, <1>7, <1>8, <1>9 DEF Labels

\* Without bronze matches the sort puts an earlier match of a player first.
LEMMA EarlierPrecedes ==
  ASSUME TypeOK, Seasoned, NoBronze, NEW i \in Feed, NEW j \in Feed, i < j,
         NEW p \in Players, Plays(p, season[i]), Plays(p, season[j])
  PROVE  Precedes(i, j)
<1>1. /\ season[i] \in Match /\ season[j] \in Match
      /\ season[i].date \in Int /\ season[j].date \in Int
  BY DateType
<1>2. /\ season[i].round \in Labels /\ season[j].round \in Labels
      /\ season[i].round # "BR" /\ season[j].round # "BR"
  BY <1>1, SeasonAssumption DEF Match, NoBronze
<1>3. CASE season[i].date < season[j].date BY <1>3 DEF Precedes, Earlier
<1>4. CASE /\ season[i].date = season[j].date
           /\ season[j].round \in After(season[i].round, season[i].winner = p)
  <2>1. \/ season[i].round = "RR" /\ season[j].round = "RR"
        \/ RoundOrder(season[i].round) < RoundOrder(season[j].round)
    <3>1. PICK won \in BOOLEAN : won = (season[i].winner = p) OBVIOUS
    <3>2. season[j].round \in After(season[i].round, won) BY <1>4, <3>1
    <3> QED BY <1>2, <3>2, NextIsLater
  <2>3. CASE season[i].round = season[j].round
    <3>1. ~Earlier(season[j], season[i])
      <4>1. RoundOrder(season[j].round) \in Int BY <1>2 DEF RoundOrder, Labels
      <4> QED BY <1>1, <1>4, <2>3, <4>1 DEF Earlier
    <3> QED BY <1>4, <2>3, <3>1 DEF Precedes
  <2>4. CASE season[i].round # season[j].round
    <3>1. RoundOrder(season[i].round) < RoundOrder(season[j].round) BY <2>1, <2>4
    <3> QED BY <1>4, <3>1 DEF Precedes, Earlier
  <2> QED BY <2>3, <2>4
<1> QED BY <1>3, <1>4 DEF Seasoned

LEMMA InitAhead == Init => Ahead
<1> SUFFICES ASSUME Init PROVE Ahead OBVIOUS
<1>1. Replayed = {} /\ Feed = {} BY DEF Replayed, Feed, Init
<1> QED BY <1>1 DEF Init, Ahead, Seasoned, InPlay, Behind, NoLookahead

LEMMA PlayAhead ==
  ASSUME Inv, Ahead, Play
  PROVE  Ahead'
<1>1. TypeOK BY DEF Inv
<1> DEFINE n == Len(season) + 1
<1>2. /\ Feed' = Feed \cup {n} /\ Feed \subseteq Feed' /\ \A i \in Feed : season'[i] = season[i]
      /\ season'[n] \in Match /\ Possible(season'[n])
  BY <1>1, SeasonGrows
<1>3. UNCHANGED <<todo, order, fed, records>> /\ phase = "idle" BY DEF Play, book
<1>4. Replayed' = Replayed /\ Replayed \subseteq Feed BY <1>1, <1>3, ReplayedType DEF Replayed
<1>5. Seasoned'
  <2>1. ASSUME NEW i \in Feed', NEW j \in Feed', i < j, NEW p \in Players,
               Plays(p, season'[i]), Plays(p, season'[j])
        PROVE  \/ season'[i].date < season'[j].date
               \/ /\ season'[i].date = season'[j].date
                  /\ season'[j].round \in After(season'[i].round, season'[i].winner = p)
    <3>1. Len(season) \in Nat /\ \A k \in Feed : k \in Nat /\ k < n BY <1>1 DEF TypeOK, Feed
    <3>2. i \in Feed BY <1>2, <2>1, <3>1
    <3>3. CASE j \in Feed
      <4>1. season'[i] = season[i] /\ season'[j] = season[j] BY <1>2, <3>2, <3>3
      <4> QED BY <2>1, <3>2, <3>3, <4>1 DEF Ahead, Seasoned
    <3>4. CASE j = n
      <4>1. season'[i] = season[i] BY <1>2, <3>2
      <4> QED BY <1>2, <2>1, <3>2, <3>4, <4>1 DEF Possible
    <3> QED BY <1>2, <3>3, <3>4
  <2> QED BY <2>1 DEF Seasoned, Plays
<1>6. todo = {} BY <1>3 DEF Inv, Counted
<1>7. Behind'
  <2>1. \A k \in Replayed : season'[k] = season[k] BY <1>2, <1>4
  <2> QED BY <1>3, <1>4, <2>1 DEF Ahead, Behind, Plays
<1> QED BY <1>3, <1>5, <1>6, <1>7 DEF Ahead, InPlay, NoLookahead

\* The chain of opponents: what either rating rests on was played before the row.
LEMMA ReplayAhead ==
  ASSUME Inv, Ahead, NoBronze, NEW i \in Feed, Replay(i)
  PROVE  Ahead'
<1>1. TypeOK BY DEF Inv
<1>2. /\ i \in todo /\ todo' = todo \ {i} /\ order' = Append(order, i) /\ UNCHANGED season
      /\ \A j \in todo : ~Precedes(j, i)
  BY DEF Replay
<1> DEFINE m == season[i]
<1>3. fed' = [p \in Players |-> IF Plays(p, m) THEN fed[m.winner] \cup fed[m.loser] \cup {i}
                                 ELSE fed[p]]
  BY DEF Replay, Update
<1>4. records' = records \/ records' =
        records \cup {[match |-> i, fed |-> RestsOn(i), experience |-> Experience(i)]}
  BY DEF Replay
<1>5. m.winner \in Players /\ m.loser \in Players /\ Plays(m.winner, m) /\ Plays(m.loser, m)
  BY <1>1, DateType DEF Match, Plays
<1>6. Replayed' = Replayed \cup {i} /\ Replayed \subseteq Feed
  BY <1>1, <1>2, AppendOrder, ReplayedType
<1>7. todo \subseteq Feed /\ fed \in [Players -> SUBSET Feed] BY <1>1 DEF TypeOK
<1>8. Feed \subseteq Nat /\ Feed' = Feed BY <1>2 DEF Feed
<1>9. InPlay'
  <2>1. ASSUME NEW j \in todo', NEW p \in Players, Plays(p, season[i]), Plays(p, season[j])
        PROVE  i < j
    <3>1. j \in todo /\ j # i /\ j \in Feed BY <1>2, <1>7
    <3>2. ~(j < i) BY <1>1, <1>2, <2>1, <3>1, EarlierPrecedes DEF Ahead
    <3> QED BY <1>8, <3>1, <3>2
  <2> QED BY <1>2, <1>6, <2>1 DEF Ahead, InPlay, Plays
<1>10. \A k \in RestsOn(i) : k \in Feed /\ k < i
  <2>1. ASSUME NEW p \in {m.winner, m.loser}, NEW k \in fed[p] PROVE k \in Feed /\ k < i
    <3>1. p \in Players /\ Plays(p, m) /\ k \in Feed BY <1>5, <1>7, <2>1
    <3>2. PICK l \in Replayed : Plays(p, season[l]) /\ k <= l BY <2>1, <3>1 DEF Ahead, Behind
    <3>3. l < i BY <1>2, <3>1, <3>2 DEF Ahead, InPlay
    <3> QED BY <1>6, <1>8, <3>1, <3>2, <3>3
  <2> QED BY <2>1 DEF RestsOn
<1>11. Behind'
  <2>1. ASSUME NEW p \in Players, NEW k \in fed'[p]
        PROVE  \E l \in Replayed' : Plays(p, season[l]) /\ k <= l
    <3>1. CASE Plays(p, m)
      <4>1. k \in RestsOn(i) \cup {i} BY <1>3, <2>1, <3>1 DEF RestsOn
      <4>2. k <= i
        <5>1. i \in Nat /\ (k = i \/ (k \in Nat /\ k < i)) BY <1>8, <1>10, <4>1
        <5> QED BY <5>1
      <4> QED BY <1>6, <3>1, <4>2
    <3>2. CASE ~Plays(p, m)
      <4>1. k \in fed[p] BY <1>3, <2>1, <3>2
      <4> QED BY <1>6, <4>1 DEF Ahead, Behind
    <3> QED BY <3>1, <3>2
  <2> QED BY <1>2, <2>1 DEF Behind, Plays
<1>12. NoLookahead' BY <1>4, <1>10 DEF Ahead, NoLookahead
<1> QED BY <1>2, <1>8, <1>9, <1>11, <1>12 DEF Ahead, Seasoned, Plays, Feed

LEMMA NextAhead ==
  ASSUME Inv, Ahead, NoBronze, [Next]_vars
  PROVE  Ahead'
<1>1. CASE Prepare
  <2>1. order' = <<>> /\ records' = {} /\ UNCHANGED season
        /\ fed' = [p \in Players |-> {}]
    BY <1>1 DEF Prepare, NewBook
  <2>2. Replayed' = {} BY <2>1 DEF Replayed
  <2> QED BY <2>1, <2>2 DEF Ahead, Seasoned, InPlay, Behind, NoLookahead, Plays, Feed
<1>2. CASE BuildSection \/ UNCHANGED vars
  <2>1. UNCHANGED <<season, todo, order, fed, records>> BY <1>2 DEF BuildSection, vars, book
  <2> QED BY <2>1 DEF Ahead, Seasoned, InPlay, Behind, NoLookahead, Plays, Feed, Replayed
<1>3. ASSUME NEW i \in Feed, Replay(i) PROVE Ahead' BY <1>3, ReplayAhead
<1> QED BY <1>1, <1>2, <1>3, PlayAhead DEF Next

\* elo.py: no rating looks ahead, through any chain of opponents and however the
\* events overlap -- in a feed without bronze matches, which the sort puts before
\* the semi-finals that lead to them.
THEOREM RatingsNeverLookAhead ==
  ASSUME NoBronze
  PROVE  Spec => []NoLookahead
<1>1. Ahead => NoLookahead BY DEF Ahead
<1>2. Inv /\ Ahead /\ [Next]_vars => Ahead' BY NextAhead
<1> QED BY InitAhead, InvHolds, <1>1, <1>2, PTL DEF Spec

-----------------------------------------------------------------------------
(* The rehydrated book. *)

OneSpelling == \A s, t \in Spellings : s = t

\* The rows of a player's first name are all of his rows.
LEMMA OneBucket ==
  ASSUME Inv, OneSpelling, phase = "replay", todo = {}, NEW p \in Players, count[p] # 0
  PROVE  LastDate(p) = last[p]
<1>1. TypeOK BY DEF Inv
<1>2. PICK i \in RowsOf(p) : FirstName(p) = SpelledAs(p, season[i]) BY FirstNameFits
<1>3. \A k \in Feed : SpelledAs(p, season[k]) \in Spellings
  BY <1>1, DateType DEF Match, SpelledAs
<1>4. RowsAs(p, FirstName(p)) = RowsOf(p) BY <1>2, <1>3 DEF RowsAs, RowsOf, OneSpelling
<1> DEFINE d == NewestOf(RowsOf(p))
<1>5. /\ d \in Dates /\ \E k \in RowsOf(p) : season[k].date = d
      /\ \A k \in RowsOf(p) : season[k].date <= d
  BY <1>1, <1>2, NewestIsOne DEF RowsOf
<1>6. RowsOf(p) \subseteq Replayed BY DEF Inv, Complete, Listed, RowsOf
<1>7. PICK k \in Replayed : Plays(p, season[k]) /\ season[k].date = last[p]
  BY DEF Inv, Experienced
<1>8. k \in RowsOf(p) BY <1>7 DEF Inv, Complete, Listed, RowsOf
<1>9. last[p] <= d BY <1>5, <1>7, <1>8
<1>10. d <= last[p]
  <2>1. PICK l \in RowsOf(p) : season[l].date = d BY <1>5
  <2>2. Plays(p, season[l]) /\ l \in Replayed BY <1>6, <2>1 DEF RowsOf
  <2> QED BY <2>1, <2>2 DEF Inv, Lasts
<1>11. d \in Int /\ last[p] \in Int
  BY <1>1, <1>5, <1>7, DateType, ReplayedType DEF Dates
<1>12. d = last[p] BY <1>9, <1>10, <1>11
<1> QED BY <1>4, <1>12 DEF LastDate

LEMMA NextAgrees ==
  ASSUME Inv, OneSpelling, RehydratedBookAgrees, [Next]_vars
  PROVE  RehydratedBookAgrees'
<1>1. CASE BuildSection
  <2>1. /\ phase = "replay" /\ todo = {} /\ UNCHANGED last
        /\ section' = [p \in Players |-> IF count[p] = 0 \/ count[p] < MinMatches THEN Nil
                                         ELSE LastDate(p)]
    BY <1>1 DEF BuildSection, book
  <2>2. \A p \in Players : section'[p] # Nil => section'[p] = last[p] BY <2>1, OneBucket
  <2> QED BY <2>1, <2>2 DEF RehydratedBookAgrees
<1>2. CASE Prepare \/ \E i \in Feed : Replay(i)
  <2>1. phase' = "replay" BY <1>2 DEF Prepare, Replay
  <2> QED BY <2>1 DEF RehydratedBookAgrees
<1>3. CASE Play \/ UNCHANGED vars
  <2>1. UNCHANGED <<phase, section, last>> BY <1>3 DEF Play, vars, book
  <2> QED BY <2>1 DEF RehydratedBookAgrees
<1> QED BY <1>1, <1>2, <1>3 DEF Next

\* RatingBook.from_artifact rehydrates the book that was built, when the feed writes
\* every player's name in one way.
THEOREM OneSpellingRehydrates ==
  ASSUME OneSpelling
  PROVE  Spec => []RehydratedBookAgrees
<1>1. Init => RehydratedBookAgrees BY DEF Init, RehydratedBookAgrees
<1>2. Inv /\ RehydratedBookAgrees /\ [Next]_vars => RehydratedBookAgrees' BY NextAgrees
<1> QED BY InvHolds, <1>1, <1>2, PTL DEF Spec
=============================================================================
