----------------------------- MODULE WalkForward ----------------------------
(***************************************************************************)
(* The Elo replay.  The season is played, the feed lists it, and every     *)
(* build replays the whole feed in the order of prepare_matches: a match   *)
(* is first predicted from the ratings so far (walk_forward,               *)
(* replay_predictions) and then fed to them (RatingBook.update); the       *)
(* section of the artifact is written from the book and the name index.    *)
(*                                                                         *)
(* A rating is the set of results it rests on; the arithmetic is left out. *)
(* A match is its place in the order in which the season was really        *)
(* played, which the feed does not carry.                                  *)
(***************************************************************************)
EXTENDS Integers, Sequences, FiniteSets

CONSTANTS
  Players,
  Spellings,     \* the ways in which the feed may write a player's name
  Rounds,        \* labels of rounds in the feed
  MaxDate,       \* tourney_date is 0..MaxDate
  MaxMatches,    \* bound on the season
  MinMatches,    \* min_matches
  Nil            \* absent

Labels == {"RR", "BR", "R128", "R64", "R32", "R16", "QF", "SF", "F", "other"}

ASSUME SeasonAssumption ==
  /\ Rounds \subseteq Labels
  /\ MaxDate \in Nat /\ MaxMatches \in Nat /\ MinMatches \in Nat
  /\ Nil \notin Int

VARIABLES
  season,     \* the matches, in the order in which they were played
  phase,      \* "idle" between two builds, "replay" in one
  todo,       \* rows of the feed that the build has still to replay
  order,      \* rows it has replayed, in order
  fed,        \* RatingBook: the results each rating rests on
  count,      \* _overall_n
  last,       \* _last_date
  records,    \* walk_forward's observations
  section     \* the players of the artifact with their last_date

vars == <<season, phase, todo, order, fed, count, last, records, section>>
book == <<fed, count, last>>

Dates == 0..MaxDate
Match == [date : Dates, round : Rounds, winner : Players, loser : Players,
          walkover : BOOLEAN, as_winner : Spellings, as_loser : Spellings]
Feed == 1..Len(season)
Plays(p, m) == p \in {m.winner, m.loser}

TypeOK ==
  /\ season \in Seq(Match) /\ Len(season) <= MaxMatches
  /\ phase \in {"idle", "replay"} /\ todo \subseteq Feed
  /\ order \in Seq(Feed)
  /\ fed \in [Players -> SUBSET Feed] /\ count \in [Players -> 0..MaxMatches]
  /\ last \in [Players -> Dates \cup {Nil}]
  /\ records \subseteq [match : Feed, fed : SUBSET Feed, experience : Nat]
  /\ section \in [Players -> Dates \cup {Nil}]

\* build_ratings and walk_forward start from an empty RatingBook.
NewBook == /\ fed' = [p \in Players |-> {}]
           /\ count' = [p \in Players |-> 0]
           /\ last' = [p \in Players |-> Nil]

Init ==
  /\ season = <<>> /\ phase = "idle" /\ todo = {} /\ order = <<>> /\ records = {}
  /\ fed = [p \in Players |-> {}] /\ count = [p \in Players |-> 0]
  /\ last = [p \in Players |-> Nil] /\ section = last

-----------------------------------------------------------------------------
(* The season.  An event carries the date on which it begins; events        *)
(* overlap, but a player plays one of them at a time.                       *)

\* The rounds that may follow, for a player who won or lost one.
After(round, won) ==
  CASE round = "RR"           -> {"RR", "QF", "SF", "F"}
    [] round = "R128" /\ won  -> {"R64"}
    [] round = "R64" /\ won   -> {"R32"}
    [] round = "R32" /\ won   -> {"R16"}
    [] round = "R16" /\ won   -> {"QF"}
    [] round = "QF" /\ won    -> {"SF"}
    [] round = "SF"           -> IF won THEN {"F"} ELSE {"BR"}
    [] OTHER                  -> {}

Possible(m) ==
  /\ m.winner # m.loser
  /\ \A i \in Feed, p \in Players : Plays(p, season[i]) /\ Plays(p, m) =>
       \/ season[i].date < m.date
       \/ season[i].date = m.date /\ m.round \in After(season[i].round, season[i].winner = p)

Play ==
  /\ phase = "idle" /\ Len(season) < MaxMatches
  /\ \E m \in Match : Possible(m) /\ season' = Append(season, m)
  /\ UNCHANGED <<phase, todo, order, book, records, section>>

-----------------------------------------------------------------------------
(* prepare_matches: no walkovers, sorted by date and round.                 *)

\* _ROUND_ORDER, and 0 for a label it does not know.
RoundOrder(round) ==
  CASE round = "R128" -> 1 [] round = "R64" -> 2 [] round = "R32" -> 3
    [] round = "R16"  -> 4 [] round = "QF"  -> 5 [] round = "SF"  -> 6
    [] round = "F"    -> 7 [] OTHER -> 0

\* Variant: sorted by the date alone.
EarlierDate(m, n) == m.date < n.date

\* Variant: sorted by the round, then by the date.
EarlierRound(m, n) ==
  \/ RoundOrder(m.round) < RoundOrder(n.round)
  \/ RoundOrder(m.round) = RoundOrder(n.round) /\ m.date < n.date

\* The sort key.
Earlier(m, n) ==
  \/ m.date < n.date
  \/ m.date = n.date /\ RoundOrder(m.round) < RoundOrder(n.round)

\* The sort is stable: rows of one key stay in the order of the file, which is any,
\* except that it lists the matches of one player in one round as they were played.
Precedes(i, j) ==
  \/ Earlier(season[i], season[j])
  \/ /\ ~Earlier(season[j], season[i])
     /\ season[i].date = season[j].date /\ season[i].round = season[j].round
     /\ i < j /\ \E p \in Players : Plays(p, season[i]) /\ Plays(p, season[j])

Prepare ==
  /\ phase = "idle"
  /\ phase' = "replay" /\ todo' = {i \in Feed : ~season[i].walkover}
  /\ order' = <<>> /\ records' = {} /\ NewBook
  /\ UNCHANGED <<season, section>>

-----------------------------------------------------------------------------
(* walk_forward and RatingBook.update, one row.                             *)

\* The results a prediction of the row rests on: both ratings as they are.
RestsOn(i) == fed[season[i].winner] \cup fed[season[i].loser]

Experience(i) ==
  IF count[season[i].winner] <= count[season[i].loser] THEN count[season[i].winner]
  ELSE count[season[i].loser]

\* RatingBook.update, without a comparison of the dates.
Update(i) ==
  LET m == season[i] IN
  /\ fed' = [p \in Players |-> IF Plays(p, m) THEN fed[m.winner] \cup fed[m.loser] \cup {i}
                               ELSE fed[p]]
  /\ count' = [p \in Players |-> count[p] + (IF Plays(p, m) THEN 1 ELSE 0)]
  /\ last' = [p \in Players |-> IF Plays(p, m) THEN m.date ELSE last[p]]

Replay(i) ==
  /\ phase = "replay" /\ i \in todo
  /\ \A j \in todo : ~Precedes(j, i)
  /\ records' = IF Experience(i) < MinMatches THEN records
                ELSE records \cup {[match |-> i, fed |-> RestsOn(i), experience |-> Experience(i)]}
  /\ Update(i)
  /\ todo' = todo \ {i} /\ order' = Append(order, i)
  /\ UNCHANGED <<season, phase, section>>

-----------------------------------------------------------------------------
(* build_name_index and the section of the artifact.                        *)

SpelledAs(p, m) == IF p = m.winner THEN m.as_winner ELSE m.as_loser

\* The rows that reach the index for a name, and for any of a player's names.
RowsOf(p) == {i \in Feed : ~season[i].walkover /\ Plays(p, season[i])}
RowsAs(p, s) == {i \in RowsOf(p) : SpelledAs(p, season[i]) = s}

FirstInOrder(rows) ==
  order[CHOOSE k \in 1..Len(order) :
          order[k] \in rows /\ \A j \in 1..(k - 1) : order[j] \notin rows]

\* The first of a player's buckets: the index takes all winners, then all losers.
FirstName(p) ==
  LET wins == {i \in RowsOf(p) : season[i].winner = p}
      first == FirstInOrder(IF wins # {} THEN wins ELSE RowsOf(p))
  IN SpelledAs(p, season[first])

\* Variant: the date of the row that opened the bucket is kept.
OldestOf(rows) == CHOOSE d \in Dates : /\ \E i \in rows : season[i].date = d
                                       /\ \A i \in rows : d <= season[i].date

NewestOf(rows) == CHOOSE d \in Dates : /\ \E i \in rows : season[i].date = d
                                       /\ \A i \in rows : season[i].date <= d

\* PlayerInfo.last_date of that bucket.
LastDate(p) == NewestOf(RowsAs(p, FirstName(p)))

BuildSection ==
  /\ phase = "replay" /\ todo = {}
  /\ phase' = "idle"
  /\ section' = [p \in Players |-> IF count[p] = 0 \/ count[p] < MinMatches THEN Nil
                                   ELSE LastDate(p)]
  /\ UNCHANGED <<season, todo, order, book, records>>

-----------------------------------------------------------------------------
Next == Play \/ Prepare \/ (\E i \in Feed : Replay(i)) \/ BuildSection

Spec == Init /\ [][Next]_vars

-----------------------------------------------------------------------------
(* Properties. *)

\* elo.py, "a match's pre-update ratings depend only on prior matches (no
\* lookahead)": in the order in which the season was really played, through any
\* chain of opponents and although the events overlap.
NoLookahead == \A r \in records : \A i \in r.fed : i < r.match

\* calibration.split_by_date: whatever the date of the split, no observation on
\* the training side rests on a held-out match.
TrainingIsUnspoiled ==
  \A r \in records : \A i \in r.fed : season[i].date <= season[r.match].date

\* RatingBook.update overwrites the last date without a comparison: it is
\* the date of the player's newest replayed match all the same.
LastPlayedIsNewest ==
  \A p \in Players : \A k \in 1..Len(order) :
    Plays(p, season[order[k]]) => last[p] # Nil /\ season[order[k]].date <= last[p]

\* RatingBook.from_artifact rehydrates the book that was built: the staleness
\* gate sees the last match of every player of the artifact.
RehydratedBookAgrees ==
  phase = "idle" => \A p \in Players : section[p] # Nil => section[p] = last[p]
=============================================================================
