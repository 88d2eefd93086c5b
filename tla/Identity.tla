------------------------------ MODULE Identity ------------------------------
(***************************************************************************)
(* Who a row is about.  Kalshi, the rating artifact and the sharp feed     *)
(* each name the two players of a match in their own way; a row of the log *)
(* joins the three.  The model resolves a full name in the index of the    *)
(* rated players (probability.resolve_player); the sharp feed's event is   *)
(* found by the pair of surnames (sharp._match_event), its price is turned *)
(* to the side taken, and its board is fetched once per capture and reused *)
(* (sharp._events_for_opp).                                                *)
(*                                                                         *)
(* A player is his name: what distinguishes two players, what the keys of  *)
(* names.py keep of it, and nothing else.  One tour, one tournament that   *)
(* the feed covers.  A price is what it is a price of.                     *)
(***************************************************************************)
EXTENDS Integers, FiniteSets

CONSTANTS
  Nil,
  Players,      \* records [sur, initial, given]
  Rated,        \* the players the served artifact has an index entry for
  Matches,      \* records [id, a, b, start]: the two markets in ticker order
  Stamps,       \* start times Kalshi may give
  Quotes,       \* records [pinnacle, others]: who prices an event at the feed
  MaxRows       \* bound on the rows logged

ASSUME PlayersAssumption ==
  /\ Rated \subseteq Players /\ IsFiniteSet(Players) /\ Nil \notin Players
ASSUME MatchesAssumption ==
  /\ \A m \in Matches : /\ m.a \in Players /\ m.b \in Players /\ m.a # m.b
                        /\ m.start \in Int /\ m.id \in Nat
  /\ IsFiniteSet(Matches) /\ Nil \notin Matches
ASSUME StampsAssumption == Stamps \subseteq Int /\ Nil \notin Int
ASSUME NilAssumption == Nil \notin {"auto", "manual"}
ASSUME QuotesAssumption == Nil \notin Quotes

VARIABLES
  rows,      \* the row logged of each match, or Nil
  capture,   \* the auto_capture in flight, or Nil
  batch      \* the batch /close in flight, or Nil

vars == <<rows, capture, batch>>

-----------------------------------------------------------------------------
(* Names. *)

\* canonical_key: surname and first initial; surname_key drops the initial.
CanonicalKey(p) == <<p.sur, p.initial>>
SurnameKey(p) == p.sur
Surnames(m) == {SurnameKey(m.a), SurnameKey(m.b)}
Opponent(m, p) == IF p = m.a THEN m.b ELSE m.a

\* Variant: the full name is not looked at.
ResolveFirst(p) ==
  LET bucket == {r \in Rated : CanonicalKey(r) = CanonicalKey(p)}
  IN IF bucket = {} THEN Nil ELSE CHOOSE r \in bucket : TRUE

\* resolve_player: the bucket of the key; a bucket of several needs the full name.
Resolve(p) ==
  LET bucket == {r \in Rated : CanonicalKey(r) = CanonicalKey(p)}
  IN IF Cardinality(bucket) = 1 THEN CHOOSE r \in bucket : TRUE
     ELSE IF p \in bucket THEN p ELSE Nil

-----------------------------------------------------------------------------
(* The sharp feed. *)

Boards == [Matches -> Quotes \cup {Nil}]
ASSUME BoardsAssumption == Nil \notin Boards
NoBoard == [m \in Matches |-> Nil]          \* an empty answer, a 404 or a failure

\* Variant: a failed fetch is not remembered.
FetchedAgain(cache) == IF cache \in {Nil, NoBoard} THEN Boards ELSE {cache}

\* _events_for_opp: the memo of the capture or batch, else a fetch of whatever the
\* feed lists at the moment; a failure is remembered like an answer.
Events(cache) == IF cache = Nil THEN Boards ELSE {cache}

Distance(s, t) == IF s < t THEN t - s ELSE s - t

\* The events of the full pair of surnames.
Candidates(events, m) ==
  {e \in Matches : events[e] # Nil /\ Surnames(e) = Surnames(m)}

\* The candidate that starts nearest to the stored start; the feed's order
\* decides between equals.
Nearest(cands, target) ==
  CHOOSE e \in cands : \A f \in cands :
    \/ Distance(e.start, target) < Distance(f.start, target)
    \/ Distance(e.start, target) = Distance(f.start, target) /\ e.id <= f.id

\* _match_event: the row's match on a board, or Nil.
MatchEvent(events, m, target) ==
  LET cands == Candidates(events, m)
  IN IF Cardinality(Surnames(m)) # 2 \/ cands = {} THEN Nil
     ELSE IF Cardinality(cands) = 1 THEN CHOOSE e \in cands : TRUE
     ELSE IF target = Nil THEN Nil
     ELSE Nearest(cands, target)

\* Variant: the price is always the market player's.
Unoriented(row, e) ==
  IF SurnameKey(e.a) = SurnameKey(row.market_player) THEN e.a ELSE e.b

\* _p_market_player and the side: whose probability of winning e is recorded.
Oriented(row, e) ==
  LET subject == IF SurnameKey(e.a) = SurnameKey(row.market_player) THEN e.a ELSE e.b
  IN IF row.side = "yes" THEN subject ELSE Opponent(e, subject)

\* Pinnacle's price, else the median of at least two other books.
SourceOf(quote) ==
  IF quote.pinnacle THEN "pinnacle" ELSE IF quote.others >= 2 THEN "consensus" ELSE Nil

\* Variant: an event that no book prices well enough is recorded all the same.
Unsourced(events, m, row) ==
  LET e == MatchEvent(events, m, row.start)
  IN IF e = Nil THEN Nil
     ELSE [event |-> e, of |-> Oriented(row, e), source |-> SourceOf(events[e])]

\* sharp_fair_prob: the price of the side taken, as what it is a price of.
FairProb(events, m, row) ==
  LET e == MatchEvent(events, m, row.start)
  IN IF e = Nil THEN Nil
     ELSE IF SourceOf(events[e]) = Nil THEN Nil
     ELSE [event |-> e, of |-> Oriented(row, e), source |-> SourceOf(events[e])]

-----------------------------------------------------------------------------
Sources == {"pinnacle", "consensus"}
Prices == [event : Matches, of : Players, source : Sources]

\* model: the ids the probability was computed for, market player first; due: the
\* entry snapshot is still to be taken; checked: the capture saw the match listed.
Rows == [market_player : Players, opponent : Players, side : {"yes", "no"},
         model : Players \X Players, start : Int \cup {Nil}, due : BOOLEAN,
         entry : Prices \cup {Nil}, close : Prices \cup {Nil},
         by : {"auto", "manual", Nil}, checked : BOOLEAN]

TypeOK ==
  /\ rows \in [Matches -> Rows \cup {Nil}]
  /\ capture \in [match : Matches, events : Boards, checked : BOOLEAN] \cup {Nil}
  /\ batch \in [todo : SUBSET Matches, events : Boards \cup {Nil}] \cup {Nil}

Init ==
  /\ rows = [m \in Matches |-> Nil]
  /\ capture = Nil /\ batch = Nil

Logged == {m \in Matches : rows[m] # Nil}
Open(m) == m \in Logged /\ rows[m].close = Nil

\* evaluate_resolution on one of the markets of m: the Yes player first; an
\* unresolved name abstains, and the side is whichever the prices favour.
Log(m, player, due) ==
  /\ rows[m] = Nil /\ Cardinality(Logged) < MaxRows
  /\ Resolve(player) # Nil /\ Resolve(Opponent(m, player)) # Nil
  /\ \E side \in {"yes", "no"}, stamp \in Stamps \cup {Nil} :
       rows' = [rows EXCEPT ![m] =
         [market_player |-> player, opponent |-> Opponent(m, player), side |-> side,
          model |-> <<Resolve(player), Resolve(Opponent(m, player))>>, start |-> stamp,
          due |-> due, entry |-> Nil, close |-> Nil, by |-> Nil, checked |-> FALSE]]
  /\ UNCHANGED <<capture, batch>>

\* scan_series anchors on the market first in ticker order; a scheduled cycle leaves
\* the entry snapshot to be taken.
ScanMatch(m) == \E due \in BOOLEAN : Log(m, m.a, due)

\* resolve_match: the one open event of the two surnames typed, anchored on the
\* market of the first; between namesakes Kalshi's order decides.
CheckMatch(m) == \E player \in {m.a, m.b} : Log(m, player, FALSE)

\* _sharp_entry_job on one row: the price on a board, then the start it lists.  The
\* rows of a cycle share a board; here each may see any.
SharpEntry(m) ==
  /\ m \in Logged /\ rows[m].due
  /\ \E events \in Events(Nil) :
       LET e == MatchEvent(events, m, rows[m].start)
       IN rows' = [rows EXCEPT ![m] = [@ EXCEPT
            !.due = FALSE,
            !.entry = FairProb(events, m, rows[m]),
            !.start = IF e = Nil THEN rows[m].start ELSE e.start]]
  /\ UNCHANGED <<capture, batch>>

\* auto_capture: a timed row's start is looked up and, the market being active,
\* corrected; the match still being ahead, the capture is put off, else it goes on.
CaptureBegins(m) ==
  /\ capture = Nil /\ Open(m) /\ rows[m].start # Nil
  /\ \E events \in Events(Nil), kalshi \in Stamps \cup {Nil}, moved, later \in BOOLEAN :
       LET e == MatchEvent(events, m, rows[m].start)
           live == IF e # Nil THEN e.start ELSE kalshi
       IN /\ moved => live # Nil /\ live # rows[m].start
          /\ later => moved
          /\ rows' = IF moved THEN [rows EXCEPT ![m].start = live] ELSE rows
          /\ capture' = IF later THEN Nil
                        ELSE [match |-> m, events |-> events, checked |-> e # Nil]
  /\ UNCHANGED batch

\* capture_close of one row, its clock and market left to ClosingCapture: it may
\* refuse, and it keeps a price it has.
RecordPrice(m, events, by, checked) ==
  LET price == FairProb(events, m, rows[m])
  IN \/ UNCHANGED rows
     \/ /\ Open(m) /\ price # Nil
        /\ rows' = [rows EXCEPT ![m] =
             [@ EXCEPT !.close = price, !.by = by, !.checked = checked]]

\* ... on the board of the capture.
CaptureCloses ==
  /\ capture # Nil
  /\ \E events \in Events(capture.events) :
       RecordPrice(capture.match, events, "auto", capture.checked)
  /\ capture' = Nil
  /\ UNCHANGED batch

\* run_close on every row without a close, over one board.
BatchBegins ==
  /\ batch = Nil
  /\ LET pend == {m \in Matches : Open(m)}
     IN pend # {} /\ batch' = [todo |-> pend, events |-> Nil]
  /\ UNCHANGED <<rows, capture>>

BatchCloses(m) ==
  /\ batch # Nil /\ m \in batch.todo
  /\ \E events \in Events(batch.events) :
       /\ RecordPrice(m, events, "manual", FALSE)
       /\ batch' = IF batch.todo = {m} THEN Nil
                   ELSE [todo |-> batch.todo \ {m}, events |-> events]
  /\ UNCHANGED capture

Next ==
  \/ CaptureCloses \/ BatchBegins
  \/ \E m \in Matches : \/ ScanMatch(m) \/ CheckMatch(m) \/ SharpEntry(m)
                        \/ CaptureBegins(m) \/ BatchCloses(m)

Spec == Init /\ [][Next]_vars
-----------------------------------------------------------------------------
(* Properties. *)

Backed(row) == IF row.side = "yes" THEN row.market_player ELSE row.opponent

\* probability.resolve_player, "a wrong player would feed a confident but bogus
\* probability": a player the artifact rates is priced as himself, whoever shares
\* his surname and initial; a name it does not rate is at worst taken for a
\* namesake, through either anchor.
RatedNeverConfused ==
  \A m \in Logged :
    LET row == rows[m]
        Right(priced, named) ==
          /\ priced \in Rated /\ CanonicalKey(priced) = CanonicalKey(named)
          /\ named \in Rated => priced = named
    IN Right(row.model[1], row.market_player) /\ Right(row.model[2], row.opponent)

\* sharp._match_event and sharp_fair_prob: a recorded reference, of the entry or the
\* close, is the price of the player the row backs in the row's own match -- through
\* either anchor, on either side, off a board that moves or is reused -- or of his
\* namesake in a match of two namesakes.
PriceIsForTheBacked ==
  \A m \in Logged : \A price \in {rows[m].entry, rows[m].close} \ {Nil} :
    /\ Surnames(price.event) = Surnames(m)
    /\ SurnameKey(price.of) = SurnameKey(Backed(rows[m]))
    /\ price.event = m => price.of = Backed(rows[m])

\* bot.auto_capture, "one odds-api fetch serves BOTH": a timer's close takes a
\* sharp price only if the start check of the same capture found the match on the
\* board, even if the feed fails and recovers between the two.
PricedOnACheckedStart ==
  \A m \in Logged : rows[m].by = "auto" => rows[m].checked
=============================================================================
