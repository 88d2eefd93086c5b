----------------------------- MODULE PositionLog ----------------------------
(***************************************************************************)
(* The paper log of opportunities and its deduplication.  A Kalshi event   *)
(* has one market per player, so backing a player can be written two ways: *)
(* yes on the market of that player, or no on the market of the opponent.  *)
(* Which one a sweep produces depends on the market it anchors on.         *)
(*                                                                         *)
(* Sweeps run on threads of the bot (the scheduled scan, one owner         *)
(* command) and in the scripts/scan.py process; log_opportunity reads the  *)
(* log and inserts in two transactions.  `seen` is history: how long the   *)
(* log was when the insert's own dedup read it.                            *)
(***************************************************************************)
EXTENDS Integers, Sequences, FiniteSets

CONSTANTS
  Nil,        \* Python None
  Events,     \* event tickers
  Lanes,      \* how many sweeps may run at once; 1 serialises them
  MaxRows     \* bound on the log

ASSUME LanesAssumption == Lanes \in Nat \ {0} /\ MaxRows \in Nat
ASSUME NilAssumption == Nil \notin Nat

Sweepers == {"scheduled", "command", "cli"}
Players == {"p", "q"}        \* the two of each event, in ticker order
Other(x) == IF x = "p" THEN "q" ELSE "p"

Opportunities == [event : Events, market : Players, side : {"yes", "no"}]
LoggedRows == [opp : Opportunities, forced : BOOLEAN, seen : 0..MaxRows]

\* engine.backed_player_from
BackedPlayer(opp) == IF opp.side = "yes" THEN opp.market ELSE Other(opp.market)

VARIABLES
  rows,     \* `opportunities`; a row's id is its index
  edge,     \* the player of each event the market underprices, if any
  task      \* what each sweeper is doing

vars == <<rows, edge, task>>

Idle == [pc |-> "idle", todo |-> {}, typed |-> FALSE, force |-> FALSE, opp |-> Nil,
         high |-> 0, own |-> {}, shown |-> Nil, seen |-> 0]

Ids == 1..MaxRows
Tasks == [pc : {"idle", "sweep", "log", "insert", "shown", "done"}, todo : SUBSET Events,
          typed : BOOLEAN, force : BOOLEAN, opp : Opportunities \cup {Nil},
          high : 0..MaxRows, own : SUBSET Ids, shown : Ids \cup {Nil}, seen : 0..MaxRows]

TypeOK == /\ rows \in Seq(LoggedRows) /\ Len(rows) <= MaxRows
          /\ edge \in [Events -> Players \cup {Nil}]
          /\ task \in [Sweepers -> Tasks]

Init == /\ rows = <<>>
        /\ edge \in [Events -> Players \cup {Nil}]
        /\ task = [s \in Sweepers |-> Idle]

-----------------------------------------------------------------------------
\* Variant: the key is the contract and its side, not the position.
SameContract(a, b) == a = b

\* The key of storage.last_position: the event and the player backed.
SamePosition(a, b) == a.event = b.event /\ BackedPlayer(a) = BackedPlayer(b)

PositionRows(opp) == {i \in DOMAIN rows : SamePosition(rows[i].opp, opp)}

Newest(ids) == CHOOSE i \in ids : \A j \in ids : j <= i

\* Variant: the row is looked up by contract and side.
PriorContractId(opp) ==
  LET ids == {i \in DOMAIN rows : rows[i].opp = opp} IN IF ids = {} THEN Nil ELSE Newest(ids)

\* Variant: ids counted from 0.
PriorIndex(opp) ==
  IF PositionRows(opp) = {} THEN Nil ELSE Newest(PositionRows(opp)) - 1

\* bot._prior_position_id
PriorPositionId(opp) ==
  IF PositionRows(opp) = {} THEN Nil ELSE Newest(PositionRows(opp))

\* Variant: the cycle counts from the row after its first.
NewIdsShort(high) == (high + 2)..Len(rows)

\* _scheduled_scan_job: SELECT id WHERE id > high_water
NewIds(high) == (high + 1)..Len(rows)

Goto(s, pc) == task' = [task EXCEPT ![s].pc = pc]

-----------------------------------------------------------------------------
\* The market reprices.
Reprice(e) ==
  /\ \E x \in Players \cup {Nil} : x # edge[e] /\ edge' = [edge EXCEPT ![e] = x]
  /\ UNCHANGED <<rows, task>>

\* /check and `scan.py check` take one event, anchored as typed; the scans take
\* every open event, anchored on the first market.  Only the CLI can force.
Begin(s) ==
  /\ task[s].pc = "idle"
  /\ Cardinality({t \in Sweepers : task[t].pc # "idle"}) < Lanes
  /\ \E typed \in BOOLEAN, force \in BOOLEAN, e \in Events :
       /\ typed => s # "scheduled"
       /\ force => s = "cli"
       /\ task' = [task EXCEPT ![s] = [Idle EXCEPT
            !.pc = "sweep", !.todo = IF typed THEN {e} ELSE Events,
            !.typed = typed, !.force = force, !.high = Len(rows)]]
  /\ UNCHANGED <<rows, edge>>

\* One event evaluated: an abstain, or an alert backing the underpriced player.
Evaluate(s) ==
  /\ task[s].pc = "sweep"
  /\ \E e \in task[s].todo, opp \in Opportunities :
       /\ opp.event = e
       /\ task[s].typed \/ opp.market = "p"
       /\ edge[e] # Nil => BackedPlayer(opp) = edge[e]
       /\ task' = [task EXCEPT
            ![s].todo = @ \ {e},
            ![s].pc = IF edge[e] = Nil THEN "sweep" ELSE "log",
            ![s].opp = IF edge[e] = Nil THEN Nil ELSE opp]
  /\ UNCHANGED <<rows, edge>>

\* log_opportunity reads the log: the position stands, or it is to be inserted.
\* The CLI prints a bare "duplicate" and goes on.
ReadLastPosition(s) ==
  LET me == task[s]
      stands == ~me.force /\ PositionRows(me.opp) # {} IN
  /\ me.pc = "log"
  /\ task' = [task EXCEPT ![s] = IF ~stands
                                THEN [me EXCEPT !.pc = "insert", !.seen = Len(rows)]
                                ELSE IF s = "cli" THEN [me EXCEPT !.pc = "sweep", !.opp = Nil]
                                ELSE [me EXCEPT !.pc = "shown"]]
  /\ UNCHANGED <<rows, edge>>

\* A dedup is reported with the id of the row that stands.
ShowPrior(s) ==
  /\ task[s].pc = "shown"
  /\ task' = [task EXCEPT ![s].pc = "sweep", ![s].shown = PriorPositionId(task[s].opp)]
  /\ UNCHANGED <<rows, edge>>

InsertOpportunity(s) ==
  /\ task[s].pc = "insert" /\ Len(rows) < MaxRows
  /\ rows' = Append(rows, [opp |-> task[s].opp, forced |-> task[s].force,
                          seen |-> task[s].seen])
  /\ task' = [task EXCEPT ![s].pc = "sweep", ![s].own = @ \cup {Len(rows) + 1},
                          ![s].opp = Nil, ![s].shown = Nil, ![s].seen = 0]
  /\ UNCHANGED edge

\* The sweep is over; the scheduled one asks which rows are new.
Finish(s) ==
  /\ task[s].pc = "sweep" /\ task[s].todo = {}
  /\ Goto(s, "done") /\ UNCHANGED <<rows, edge>>

\* The reply is sent, or an exception ended the sweep with its rows committed.
Leave(s) ==
  /\ task[s].pc \in {"sweep", "done"}
  /\ task' = [task EXCEPT ![s] = Idle]
  /\ UNCHANGED <<rows, edge>>

Step(s) == Begin(s) \/ Evaluate(s) \/ ReadLastPosition(s) \/ ShowPrior(s)
           \/ InsertOpportunity(s) \/ Finish(s) \/ Leave(s)

Next == (\E e \in Events : Reprice(e)) \/ (\E s \in Sweepers : Step(s))

Spec == Init /\ [][Next]_vars

-----------------------------------------------------------------------------
(* Properties. *)

\* engine.log_opportunity, "deduping on the ECONOMIC POSITION": an unforced row
\* repeats the position of an earlier row, under either anchor, only if that row
\* was inserted between its own dedup read and its own insert.
DuplicateOnlyFromRace ==
  \A i, j \in DOMAIN rows :
    /\ i < j
    /\ rows[i].opp.event = rows[j].opp.event
    /\ BackedPlayer(rows[i].opp) = BackedPlayer(rows[j].opp)
    /\ ~rows[j].forced
    => rows[j].seen < i

\* The same docstring, "or None if that position is already logged": no unforced
\* row repeats a position.  A duplicate double-weights its match in the go-live
\* gate.  It holds when sweeps run one at a time.
OneRowPerPosition ==
  \A i, j \in DOMAIN rows :
    /\ i < j
    /\ rows[i].opp.event = rows[j].opp.event
    /\ BackedPlayer(rows[i].opp) = BackedPlayer(rows[j].opp)
    => rows[j].forced

\* bot._prior_position_id, "a miss should be unreachable": whenever a sweep was
\* told that the position stands, the id it shows is a row of that position,
\* although the read that deduplicated and the read that names it are two.
DedupNamesItsRow ==
  \A s \in Sweepers :
    task[s].pc = "sweep" /\ task[s].opp # Nil =>
      /\ task[s].shown # Nil
      /\ rows[task[s].shown].opp.event = task[s].opp.event
      /\ BackedPlayer(rows[task[s].shown].opp) = BackedPlayer(task[s].opp)

\* bot._scheduled_scan_job, "NEWLY logged this cycle": the ids a finished cycle
\* announces and prices against the sharp feed include every row it inserted,
\* whatever other sweeps insert meanwhile.
CycleFindsItsRows ==
  \A s \in Sweepers : task[s].pc = "done" => task[s].own \subseteq NewIds(task[s].high)
=============================================================================
