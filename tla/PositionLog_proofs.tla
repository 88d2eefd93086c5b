------------------------- MODULE PositionLog_proofs -------------------------
(***************************************************************************)
(* Theorems about PositionLog, for every set of events, every number of    *)
(* concurrent sweeps and every bound on the log.                           *)
(*                                                                         *)
(* Inv is inductive.  It says what a sweep knows between two of its steps: *)
(* an insert about to happen was justified by the rows its own read saw,   *)
(* a dedup about to be shown has a row that stands, and the rows a cycle   *)
(* inserted came after its high-water mark.  The log only grows, so none   *)
(* of it is lost to another sweep's step.                                  *)
(***************************************************************************)
EXTENDS PositionLog, WellFoundedInduction, FiniteSetTheorems, TLAPS

\* What the dedup read of an unforced insert saw does not hold its position.
ReadWasClear(me) ==
  me.force \/ \A i \in 1..me.seen : ~SamePosition(rows[i].opp, me.opp)

Fit(me) ==
  /\ me.high <= Len(rows) /\ me.own \subseteq (me.high + 1)..Len(rows)
  /\ me.pc \in {"log", "insert", "shown"} => me.opp \in Opportunities
  /\ me.pc = "insert" => me.seen <= Len(rows) /\ ReadWasClear(me)
  /\ me.pc = "shown" => PositionRows(me.opp) # {}
  /\ me.pc = "sweep" /\ me.opp # Nil =>
       me.shown \in DOMAIN rows /\ SamePosition(rows[me.shown].opp, me.opp)

TasksFit == \A s \in Sweepers : Fit(task[s])

Inv == TypeOK /\ TasksFit /\ DuplicateOnlyFromRace

-----------------------------------------------------------------------------
(* The operators. *)

\* A log is a function on the ids up to its length.
LEMMA LogFacts ==
  ASSUME TypeOK
  PROVE  /\ Len(rows) \in Nat /\ DOMAIN rows = 1..Len(rows)
         /\ \A i \in 1..Len(rows) : rows[i] \in LoggedRows
         /\ 1..Len(rows) \subseteq Ids
BY LanesAssumption DEF TypeOK, Ids

\* The newest of some ids of the log is one of them.
LEMMA NewestIn ==
  ASSUME TypeOK, NEW ids \in SUBSET (1..Len(rows)), ids # {}
  PROVE  Newest(ids) \in ids
<1>1. PICK n \in Nat : ids \subseteq 1..n BY LogFacts
<1>2. PICK gaps \in SUBSET Nat : gaps = {n - i : i \in ids}
  <2>1. \A i \in ids : n - i \in Nat BY <1>1
  <2> QED BY <2>1
<1>3. gaps # {} BY <1>2
<1>4. PICK Less : /\ IsWellFoundedOn(Less, Nat)
                  /\ \A k, m \in Nat : k < m => <<k, m>> \in Less
  <2>1. \A k, m \in Nat : k < m => <<k, m>> \in OpToRel(<, Nat) BY DEF OpToRel
  <2> QED BY <2>1, NatLessThanWellFounded
<1>5. PICK g \in gaps : \A k \in gaps : <<k, g>> \notin Less
  <2>1. IsWellFoundedOn(Less, Nat) BY <1>4
  <2> QED BY <1>3, <2>1, WFMin
<1>6. PICK i \in ids : g = n - i BY <1>2, <1>5
<1>7. ASSUME NEW j \in ids PROVE j <= i
  <2>1. n - j \in gaps /\ n - j \in Nat /\ g \in Nat BY <1>1, <1>2
  <2>2. ~(n - j < g) BY <1>4, <1>5, <2>1
  <2>3. i \in Int /\ j \in Int BY <1>1
  <2> QED BY <1>6, <2>1, <2>2, <2>3
<1> QED BY <1>7 DEF Newest

\* The id shown for a standing position is a row of it.
LEMMA PriorIsARow ==
  ASSUME TypeOK, NEW opp, PositionRows(opp) # {}
  PROVE  /\ PriorPositionId(opp) \in 1..Len(rows)
         /\ SamePosition(rows[PriorPositionId(opp)].opp, opp)
<1>1. PositionRows(opp) \in SUBSET (1..Len(rows)) BY LogFacts DEF PositionRows
<1>2. Newest(PositionRows(opp)) \in PositionRows(opp) BY <1>1, NewestIn
<1> QED BY <1>1, <1>2 DEF PriorPositionId, PositionRows

\* An idle sweeper is a task, and fit.
LEMMA IdleFit == ASSUME TypeOK PROVE Idle \in Tasks /\ Fit(Idle)
<1>1. Len(rows) \in Nat BY LogFacts
<1> QED BY <1>1, LanesAssumption DEF Idle, Tasks, Fit

\* A step of one sweeper that leaves the log: only that sweeper has to be seen.
LEMMA TaskStep ==
  ASSUME Inv, NEW s \in Sweepers, NEW me \in Tasks, Fit(me),
         task' = [task EXCEPT ![s] = me], rows' = rows, edge' = edge
  PROVE  Inv'
<1>1. TypeOK' BY DEF Inv, TypeOK
<1>2. \A t \in Sweepers : task'[t] = IF t = s THEN me ELSE task[t] BY DEF Inv, TypeOK
<1>3. \A t \in Sweepers : Fit(task'[t]) BY <1>2 DEF Inv, TasksFit
<1>4. TasksFit'
  BY <1>3 DEF TasksFit, Fit, ReadWasClear, PositionRows
<1>5. DuplicateOnlyFromRace' BY DEF Inv, DuplicateOnlyFromRace
<1> QED BY <1>1, <1>4, <1>5 DEF Inv

-----------------------------------------------------------------------------
(* The invariant is inductive. *)

\* The initial states satisfy the invariant.
LEMMA InitInv == Init => Inv
<1> SUFFICES ASSUME Init PROVE Inv OBVIOUS
<1>1. rows = <<>> /\ Len(rows) = 0 BY DEF Init
<1>2. Idle \in Tasks BY LanesAssumption DEF Idle, Tasks
<1>3. TypeOK BY <1>1, <1>2, LanesAssumption DEF Init, TypeOK
<1>4. Fit(Idle) BY <1>3, IdleFit
<1>5. TasksFit BY <1>4 DEF Init, TasksFit
<1>6. DuplicateOnlyFromRace BY <1>1 DEF DuplicateOnlyFromRace
<1> QED BY <1>3, <1>5, <1>6 DEF Inv

\* What the invariant says of one sweeper.
LEMMA TaskFacts ==
  ASSUME Inv, NEW s \in Sweepers
  PROVE  task[s] \in Tasks /\ Fit(task[s])
BY DEF Inv, TypeOK, TasksFit

\* A sweep begins, above every row of the log.
LEMMA BeginStep ==
  ASSUME Inv, NEW s \in Sweepers, Begin(s)
  PROVE  Inv'
<1>1. PICK typed \in BOOLEAN, force \in BOOLEAN, e \in Events :
        task' = [task EXCEPT ![s] = [Idle EXCEPT
          !.pc = "sweep", !.todo = IF typed THEN {e} ELSE Events,
          !.typed = typed, !.force = force, !.high = Len(rows)]]
  BY DEF Begin
<1> DEFINE me == [Idle EXCEPT
          !.pc = "sweep", !.todo = IF typed THEN {e} ELSE Events,
          !.typed = typed, !.force = force, !.high = Len(rows)]
<1>2. Len(rows) \in 0..MaxRows BY LogFacts DEF Inv, TypeOK
<1>3. Idle \in Tasks BY IdleFit DEF Inv
<1>4. me \in Tasks BY <1>2, <1>3 DEF Tasks
<1>5. Fit(me) BY <1>2 DEF Fit, Idle
<1> HIDE DEF me
<1>6. task' = [task EXCEPT ![s] = me] BY <1>1 DEF me
<1> QED BY <1>4, <1>5, <1>6, TaskStep DEF Begin

\* An event is evaluated: nothing is known yet of its position in the log.
LEMMA EvaluateStep ==
  ASSUME Inv, NEW s \in Sweepers, Evaluate(s)
  PROVE  Inv'
<1>1. PICK e \in task[s].todo, opp \in Opportunities :
        task' = [task EXCEPT
            ![s].todo = @ \ {e},
            ![s].pc = IF edge[e] = Nil THEN "sweep" ELSE "log",
            ![s].opp = IF edge[e] = Nil THEN Nil ELSE opp]
  BY DEF Evaluate
<1> DEFINE old == task[s]
           me == [old EXCEPT !.todo = @ \ {e},
                    !.pc = IF edge[e] = Nil THEN "sweep" ELSE "log",
                    !.opp = IF edge[e] = Nil THEN Nil ELSE opp]
<1>2. old \in Tasks /\ Fit(old) BY TaskFacts
<1>3. me \in Tasks BY <1>2 DEF Tasks
<1>4. Fit(me) BY <1>2 DEF Fit, Tasks
<1>5. task' = [task EXCEPT ![s] = me] BY <1>1 DEF Inv, TypeOK
<1> HIDE DEF me
<1> QED BY <1>3, <1>4, <1>5, TaskStep DEF Evaluate

\* The dedup read: an insert goes on with what it saw.
LEMMA ReadStep ==
  ASSUME Inv, NEW s \in Sweepers, ReadLastPosition(s)
  PROVE  Inv'
<1> DEFINE old == task[s]
<1>1. old \in Tasks /\ Fit(old) /\ old.pc = "log" /\ old.opp \in Opportunities
  BY TaskFacts DEF ReadLastPosition, Fit
<1>2. Len(rows) \in 0..MaxRows /\ DOMAIN rows = 1..Len(rows)
  BY LogFacts DEF Inv, TypeOK
<1>3. UNCHANGED <<rows, edge>> BY DEF ReadLastPosition
<1>4. CASE ~(~old.force /\ PositionRows(old.opp) # {})
  <2> DEFINE me == [old EXCEPT !.pc = "insert", !.seen = Len(rows)]
  <2>1. me \in Tasks BY <1>1, <1>2 DEF Tasks
  <2>2. me.opp = old.opp /\ me.force = old.force /\ me.seen = Len(rows) /\ me.pc = "insert"
        /\ me.high = old.high /\ me.own = old.own
    BY <1>1 DEF Tasks
  <2>3. ReadWasClear(me)
    BY <1>2, <1>4, <2>2 DEF ReadWasClear, PositionRows
  <2>4. task' = [task EXCEPT ![s] = me] BY <1>4 DEF ReadLastPosition
  <2> HIDE DEF me
  <2>5. Fit(me) BY <1>1, <1>2, <2>2, <2>3 DEF Fit
  <2> QED BY <1>3, <2>1, <2>4, <2>5, TaskStep
<1>5. CASE ~old.force /\ PositionRows(old.opp) # {} /\ s = "cli"
  <2> DEFINE me == [old EXCEPT !.pc = "sweep", !.opp = Nil]
  <2>1. me \in Tasks /\ Fit(me) BY <1>1 DEF Tasks, Fit
  <2>2. task' = [task EXCEPT ![s] = me] BY <1>5 DEF ReadLastPosition
  <2> QED BY <1>3, <2>1, <2>2, TaskStep
<1>6. CASE ~old.force /\ PositionRows(old.opp) # {} /\ s # "cli"
  <2> DEFINE me == [old EXCEPT !.pc = "shown"]
  <2>1. me \in Tasks /\ me.opp = old.opp /\ me.pc = "shown"
        /\ me.high = old.high /\ me.own = old.own
    BY <1>1 DEF Tasks
  <2>2. task' = [task EXCEPT ![s] = me] BY <1>6 DEF ReadLastPosition
  <2> HIDE DEF me
  <2>3. Fit(me) BY <1>1, <1>6, <2>1 DEF Fit
  <2> QED BY <1>3, <2>1, <2>2, <2>3, TaskStep
<1> QED BY <1>4, <1>5, <1>6

\* The standing row is shown.
LEMMA ShowStep ==
  ASSUME Inv, NEW s \in Sweepers, ShowPrior(s)
  PROVE  Inv'
<1> DEFINE old == task[s]
           id == PriorPositionId(old.opp)
           me == [old EXCEPT !.pc = "sweep", !.shown = id]
<1>1. old \in Tasks /\ Fit(old) /\ old.pc = "shown" BY TaskFacts DEF ShowPrior
<1>2. id \in 1..Len(rows) /\ SamePosition(rows[id].opp, old.opp)
  BY <1>1, PriorIsARow DEF Inv, Fit
<1>3. id \in Ids /\ DOMAIN rows = 1..Len(rows) BY <1>2, LogFacts DEF Inv
<1> HIDE DEF id
<1>4. me \in Tasks BY <1>1, <1>3 DEF Tasks
<1>5. me.shown = id /\ me.opp = old.opp /\ me.pc = "sweep" /\ me.high = old.high
      /\ me.own = old.own
  BY <1>1 DEF Tasks
<1>6. task' = [task EXCEPT ![s] = me] BY DEF ShowPrior, Inv, TypeOK, id
<1> HIDE DEF me
<1>7. Fit(me) BY <1>1, <1>2, <1>3, <1>5 DEF Fit
<1> QED BY <1>4, <1>6, <1>7, TaskStep DEF ShowPrior

\* A sweep finishes, or its reply is sent.
LEMMA EndStep ==
  ASSUME Inv, NEW s \in Sweepers, Finish(s) \/ Leave(s)
  PROVE  Inv'
<1>1. CASE Finish(s)
  <2> DEFINE old == task[s]
             me == [old EXCEPT !.pc = "done"]
  <2>1. old \in Tasks /\ Fit(old) BY TaskFacts
  <2>2. me \in Tasks /\ Fit(me) BY <2>1 DEF Tasks, Fit
  <2>3. task' = [task EXCEPT ![s] = me]
    BY <1>1 DEF Finish, Goto, Inv, TypeOK
  <2> QED BY <1>1, <2>2, <2>3, TaskStep DEF Finish
<1>2. CASE Leave(s) BY <1>2, IdleFit, TaskStep DEF Leave, Inv
<1> QED BY <1>1, <1>2

\* A price moves: the log and the sweeps stay.
LEMMA RepriceStep ==
  ASSUME Inv, NEW e \in Events, Reprice(e)
  PROVE  Inv'
<1>1. UNCHANGED <<rows, task>> BY DEF Reprice
<1>2. edge' \in [Events -> Players \cup {Nil}] BY DEF Reprice, Inv, TypeOK
<1>3. TypeOK' BY <1>1, <1>2 DEF Inv, TypeOK
<1>4. TasksFit' BY <1>1 DEF Inv, TasksFit, Fit, ReadWasClear, PositionRows
<1>5. DuplicateOnlyFromRace' BY <1>1 DEF Inv, DuplicateOnlyFromRace
<1> QED BY <1>3, <1>4, <1>5 DEF Inv
\* What an insert does to the log.
LEMMA InsertFacts ==
  ASSUME Inv, NEW s \in Sweepers, InsertOpportunity(s)
  PROVE  /\ Len(rows') = Len(rows) + 1 /\ Len(rows') <= MaxRows
         /\ rows' \in Seq(LoggedRows) /\ DOMAIN rows' = 1..(Len(rows) + 1)
         /\ \A i \in 1..Len(rows) : rows'[i] = rows[i]
         /\ rows'[Len(rows) + 1] = [opp |-> task[s].opp, forced |-> task[s].force,
                                    seen |-> task[s].seen]
         /\ rows'[Len(rows) + 1] \in LoggedRows
<1>1. task[s] \in Tasks /\ task[s].opp \in Opportunities
  BY TaskFacts DEF InsertOpportunity, Fit
<1> DEFINE new == [opp |-> task[s].opp, forced |-> task[s].force, seen |-> task[s].seen]
<1>2. new \in LoggedRows BY <1>1 DEF Tasks, LoggedRows
<1>3. rows' = Append(rows, new) /\ Len(rows) < MaxRows BY DEF InsertOpportunity
<1>4. rows \in Seq(LoggedRows) /\ Len(rows) \in Nat /\ MaxRows \in Nat
  BY LogFacts, LanesAssumption DEF Inv, TypeOK
<1> HIDE DEF new
<1>5. /\ rows' \in Seq(LoggedRows) /\ Len(rows') = Len(rows) + 1
      /\ \A i \in 1..Len(rows) : rows'[i] = rows[i]
      /\ rows'[Len(rows) + 1] = new
  BY <1>2, <1>3, <1>4
<1>6. DOMAIN rows' = 1..Len(rows') BY <1>5
<1> QED BY <1>2, <1>3, <1>4, <1>5, <1>6 DEF new

\* What a sweep knows of the log survives an insert.
LEMMA FitGrows ==
  ASSUME Inv, NEW s \in Sweepers, InsertOpportunity(s), NEW me \in Tasks, Fit(me)
  PROVE  Fit(me)'
<1>1. /\ Len(rows') = Len(rows) + 1 /\ DOMAIN rows' = 1..(Len(rows) + 1)
      /\ \A i \in 1..Len(rows) : rows'[i] = rows[i]
  BY InsertFacts
<1>2. Len(rows) \in Nat /\ DOMAIN rows = 1..Len(rows) BY LogFacts DEF Inv
<1>3. me.high \in Nat /\ me.seen \in Nat BY LanesAssumption DEF Tasks
<1>4. /\ me.high <= Len(rows') /\ me.own \subseteq (me.high + 1)..Len(rows')
  BY <1>1, <1>2, <1>3 DEF Fit
<1>5. me.pc = "insert" => me.seen <= Len(rows') /\ ReadWasClear(me)'
  BY <1>1, <1>2, <1>3 DEF Fit, ReadWasClear
<1>6. PositionRows(me.opp) \subseteq PositionRows(me.opp)'
  BY <1>1, <1>2 DEF PositionRows
<1>7. me.pc = "sweep" /\ me.opp # Nil =>
        me.shown \in DOMAIN rows' /\ SamePosition(rows'[me.shown].opp, me.opp)
  BY <1>1, <1>2 DEF Fit
<1> QED BY <1>4, <1>5, <1>6, <1>7 DEF Fit

\* An insert: the new row repeats no row that its own dedup read saw.
LEMMA InsertStep ==
  ASSUME Inv, NEW s \in Sweepers, InsertOpportunity(s)
  PROVE  Inv'
<1> DEFINE old == task[s]
           n == Len(rows)
           me == [old EXCEPT !.pc = "sweep", !.own = @ \cup {n + 1},
                             !.opp = Nil, !.shown = Nil, !.seen = 0]
<1>1. old \in Tasks /\ Fit(old) /\ old.pc = "insert"
  BY TaskFacts DEF InsertOpportunity
<1>2. n \in Nat /\ n + 1 <= MaxRows /\ Len(rows') = n + 1
  BY InsertFacts, LogFacts DEF Inv
<1>3. me \in Tasks
  <2>1. n + 1 \in Ids /\ 0 \in 0..MaxRows BY <1>2, LanesAssumption DEF Ids
  <2> QED BY <1>1, <2>1 DEF Tasks
<1>4. me.high = old.high /\ me.own = old.own \cup {n + 1} /\ me.pc = "sweep" /\ me.opp = Nil
  BY <1>1 DEF Tasks
<1>5. task' = [task EXCEPT ![s] = me] BY DEF InsertOpportunity, Inv, TypeOK
<1>6. task \in [Sweepers -> Tasks] BY DEF Inv, TypeOK
<1> HIDE DEF me
<1>7. ASSUME NEW m, m = me PROVE Fit(m)'
  <2>1. old.high \in Nat BY <1>1, LanesAssumption DEF Tasks
  <2>2. old.high <= n /\ old.own \subseteq (old.high + 1)..n BY <1>1 DEF Fit
  <2>3. me.high <= Len(rows') /\ me.own \subseteq (me.high + 1)..Len(rows')
    BY <1>2, <1>4, <2>1, <2>2
  <2> QED BY <1>4, <1>7, <2>3 DEF Fit
<1>8. TypeOK'
  <2>1. task' \in [Sweepers -> Tasks] BY <1>3, <1>5, <1>6
  <2>2. rows' \in Seq(LoggedRows) /\ Len(rows') <= MaxRows BY InsertFacts
  <2> QED BY <2>1, <2>2 DEF InsertOpportunity, Inv, TypeOK
<1>9. TasksFit'
  <2> SUFFICES ASSUME NEW t \in Sweepers PROVE Fit(task[t])'
    BY DEF TasksFit
  <2>1. CASE t = s
    <3>1. task'[t] = me BY <1>5, <1>6, <2>1
    <3> QED BY <1>7, <3>1 DEF Fit, ReadWasClear, PositionRows
  <2>2. CASE t # s
    <3>1. task'[t] = task[t] BY <1>5, <1>6, <2>2
    <3>2. task[t] \in Tasks /\ Fit(task[t]) BY TaskFacts
    <3>3. Fit(task[t]) => \A me2 \in {task[t]} : Fit(me2)' BY <3>2, FitGrows
    <3> QED BY <3>1, <3>2, <3>3 DEF Fit, ReadWasClear, PositionRows
  <2> QED BY <2>1, <2>2
<1>10. DuplicateOnlyFromRace'
  <2>0. DOMAIN rows' = 1..(n + 1) /\ \A i \in 1..n : rows'[i] = rows[i] BY InsertFacts
  <2>1. ASSUME NEW i \in DOMAIN rows', NEW j \in DOMAIN rows', i < j,
               SamePosition(rows'[i].opp, rows'[j].opp), ~rows'[j].forced
        PROVE  rows'[j].seen < i
    <3> HIDE DEF n
    <3>1. i \in 1..(n + 1) /\ j \in 1..(n + 1) BY <2>0, <2>1
    <3>2. i \in 1..n /\ rows'[i] = rows[i] BY <1>2, <2>0, <2>1, <3>1
    <3>3. CASE j = n + 1
      <4>1. rows'[j] = [opp |-> old.opp, forced |-> old.force, seen |-> old.seen]
        BY <3>3, InsertFacts DEF n
      <4>2. \A k \in 1..old.seen : ~SamePosition(rows[k].opp, old.opp)
        BY <1>1, <2>1, <4>1 DEF Fit, ReadWasClear
      <4>3. old.seen \in Nat BY <1>1, LanesAssumption DEF Tasks
      <4>4. i \notin 1..old.seen BY <2>1, <3>2, <4>1, <4>2
      <4> QED BY <1>2, <3>2, <4>1, <4>3, <4>4
    <3>4. CASE j # n + 1
      <4>1. j \in 1..n /\ rows'[j] = rows[j] BY <1>2, <2>0, <3>1, <3>4
      <4>2. DOMAIN rows = 1..n BY LogFacts DEF Inv, n
      <4> QED BY <2>1, <3>2, <4>1, <4>2 DEF Inv, DuplicateOnlyFromRace, SamePosition
    <3> QED BY <3>3, <3>4
  <2> QED BY <2>1 DEF DuplicateOnlyFromRace, SamePosition
<1> QED BY <1>8, <1>9, <1>10 DEF Inv

\* Every step keeps the invariant.
LEMMA NextInv == Inv /\ [Next]_vars => Inv'
<1> SUFFICES ASSUME Inv, [Next]_vars PROVE Inv' OBVIOUS
<1>1. CASE UNCHANGED vars
  BY <1>1 DEF vars, Inv, TypeOK, TasksFit, Fit, ReadWasClear, PositionRows,
    DuplicateOnlyFromRace
<1>2. ASSUME NEW e \in Events, Reprice(e) PROVE Inv' BY <1>2, RepriceStep
<1>3. ASSUME NEW s \in Sweepers, Step(s) PROVE Inv'
  BY <1>3, BeginStep, EvaluateStep, ReadStep, ShowStep, InsertStep, EndStep DEF Step
<1> QED BY <1>1, <1>2, <1>3 DEF Next

\* Inv holds in every reachable state.
THEOREM Invariance == Spec => []Inv
BY InitInv, NextInv, PTL DEF Spec

\* Every variable of the log and of the sweeps keeps its type.
THEOREM TypeCorrect == Spec => []TypeOK
<1>1. Inv => TypeOK BY DEF Inv
<1> QED BY <1>1, Invariance, PTL

\* An unforced duplicate of a position comes only from an insert that raced the
\* dedup read of another.
THEOREM DuplicatesComeFromRaces == Spec => []DuplicateOnlyFromRace
<1>1. Inv => DuplicateOnlyFromRace BY DEF Inv
<1> QED BY <1>1, Invariance, PTL

\* The id shown for a deduplicated opportunity is a row of its position.
THEOREM DedupShowsItsRow == Spec => []DedupNamesItsRow
<1>1. Inv => DedupNamesItsRow
  <2> SUFFICES ASSUME Inv, NEW s \in Sweepers, task[s].pc = "sweep", task[s].opp # Nil
               PROVE  /\ task[s].shown # Nil
                      /\ SamePosition(rows[task[s].shown].opp, task[s].opp)
    BY DEF DedupNamesItsRow, SamePosition
  <2>1. task[s].shown \in DOMAIN rows /\ SamePosition(rows[task[s].shown].opp, task[s].opp)
    BY TaskFacts DEF Fit
  <2>2. task[s].shown \in Nat BY <2>1, LogFacts DEF Inv
  <2> QED BY <2>1, <2>2, NilAssumption
<1> QED BY <1>1, Invariance, PTL

\* The rows above the high-water mark of a finished cycle hold all it inserted.
THEOREM CycleCoversItsRows == Spec => []CycleFindsItsRows
<1>1. Inv => CycleFindsItsRows BY TaskFacts DEF CycleFindsItsRows, Fit, NewIds
<1> QED BY <1>1, Invariance, PTL

-----------------------------------------------------------------------------
(* One sweep at a time: no insert can come between a dedup read and the    *)
(* insert it justified, so no unforced row repeats a position.             *)

AtMostOne == \A s, t \in Sweepers :
  task[s].pc # "idle" /\ task[t].pc # "idle" => s = t

FreshRead == \A s \in Sweepers : task[s].pc = "insert" => task[s].seen = Len(rows)

RowsRead == \A j \in 1..Len(rows) : rows[j].seen = j - 1

OneInv == AtMostOne /\ FreshRead /\ RowsRead

\* With one lane, a sweep begins when every sweeper is idle.
LEMMA BeginAlone ==
  ASSUME Lanes = 1, NEW s \in Sweepers, Begin(s)
  PROVE  \A t \in Sweepers : task[t].pc = "idle"
<1> DEFINE busy == {t \in Sweepers : task[t].pc # "idle"}
<1>1. IsFiniteSet(Sweepers)
  <2>1. IsFiniteSet({"scheduled"}) BY FS_Singleton
  <2>2. IsFiniteSet({"scheduled"} \cup {"command"}) BY <2>1, FS_AddElement
  <2>3. IsFiniteSet(({"scheduled"} \cup {"command"}) \cup {"cli"}) BY <2>2, FS_AddElement
  <2>4. Sweepers = ({"scheduled"} \cup {"command"}) \cup {"cli"} BY DEF Sweepers
  <2> QED BY <2>3, <2>4
<1>2. IsFiniteSet(busy) BY <1>1, FS_Subset
<1>3. Cardinality(busy) < 1 BY DEF Begin
<1>4. Cardinality(busy) \in Nat BY <1>2, FS_CardinalityType
<1>5. Cardinality(busy) = 0 BY <1>3, <1>4
<1>6. busy = {} BY <1>2, <1>5, FS_EmptySet
<1> QED BY <1>6

\* A step of the running sweep that leaves the log.
LEMMA OneTaskStep ==
  ASSUME Inv, OneInv, NEW s \in Sweepers, NEW me, UNCHANGED rows,
         task' = [task EXCEPT ![s] = me],
         me.pc = "insert" => me.seen = Len(rows),
         me.pc # "idle" => \/ task[s].pc # "idle"
                           \/ \A t \in Sweepers : task[t].pc = "idle"
  PROVE  OneInv'
<1>1. \A t \in Sweepers : task'[t] = IF t = s THEN me ELSE task[t]
  BY DEF Inv, TypeOK
<1>2. AtMostOne' BY <1>1 DEF OneInv, AtMostOne
<1>3. FreshRead' BY <1>1 DEF OneInv, FreshRead
<1>4. RowsRead' BY DEF OneInv, RowsRead
<1> QED BY <1>2, <1>3, <1>4 DEF OneInv

\* Every step keeps OneInv.
LEMMA OneStep ==
  ASSUME Lanes = 1, Inv, OneInv, [Next]_vars
  PROVE  OneInv'
<1>1. CASE UNCHANGED vars
  BY <1>1 DEF vars, OneInv, AtMostOne, FreshRead, RowsRead
<1>2. ASSUME NEW e \in Events, Reprice(e) PROVE OneInv'
  BY <1>2 DEF Reprice, OneInv, AtMostOne, FreshRead, RowsRead
<1>3. ASSUME NEW s \in Sweepers, Begin(s) PROVE OneInv'
  <2>1. \A t \in Sweepers : task[t].pc = "idle" BY <1>3, BeginAlone
  <2>2. PICK typed \in BOOLEAN, force \in BOOLEAN, e \in Events :
          task' = [task EXCEPT ![s] = [Idle EXCEPT
            !.pc = "sweep", !.todo = IF typed THEN {e} ELSE Events,
            !.typed = typed, !.force = force, !.high = Len(rows)]]
    BY <1>3 DEF Begin
  <2> DEFINE me == [Idle EXCEPT
            !.pc = "sweep", !.todo = IF typed THEN {e} ELSE Events,
            !.typed = typed, !.force = force, !.high = Len(rows)]
  <2>3. me.pc = "sweep" BY DEF Idle
  <2>4. task' = [task EXCEPT ![s] = me] /\ UNCHANGED rows BY <1>3, <2>2 DEF Begin
  <2> HIDE DEF me
  <2> QED BY <2>1, <2>3, <2>4, OneTaskStep
<1>4. ASSUME NEW s \in Sweepers, Evaluate(s) \/ ShowPrior(s) \/ Finish(s) \/ Leave(s)
      PROVE  OneInv'
  <2>1. task[s] \in Tasks /\ task[s].pc # "idle"
    BY <1>4, TaskFacts DEF Evaluate, ShowPrior, Finish, Leave
  <2>2. UNCHANGED rows BY <1>4 DEF Evaluate, ShowPrior, Finish, Leave
  <2>3. ASSUME NEW me, task' = [task EXCEPT ![s] = me], me.pc # "insert" PROVE OneInv'
    BY <2>1, <2>2, <2>3, OneTaskStep
  <2>4. CASE Evaluate(s)
    <3>1. PICK e \in task[s].todo, opp \in Opportunities :
            task' = [task EXCEPT
              ![s].todo = @ \ {e},
              ![s].pc = IF edge[e] = Nil THEN "sweep" ELSE "log",
              ![s].opp = IF edge[e] = Nil THEN Nil ELSE opp]
      BY <2>4 DEF Evaluate
    <3> DEFINE me == [task[s] EXCEPT !.todo = @ \ {e},
                        !.pc = IF edge[e] = Nil THEN "sweep" ELSE "log",
                        !.opp = IF edge[e] = Nil THEN Nil ELSE opp]
    <3>2. me.pc # "insert" BY <2>1 DEF Tasks
    <3>3. task' = [task EXCEPT ![s] = me] BY <3>1 DEF Inv, TypeOK
    <3> HIDE DEF me
    <3> QED BY <2>3, <3>2, <3>3
  <2>5. CASE ShowPrior(s) \/ Finish(s)
    <3>1. PICK pc \in {"sweep", "done"}, shown \in {task[s].shown, PriorPositionId(task[s].opp)} :
            task' = [task EXCEPT ![s] = [task[s] EXCEPT !.pc = pc, !.shown = shown]]
      BY <2>1, <2>5 DEF ShowPrior, Finish, Goto, Inv, TypeOK, Tasks
    <3> DEFINE me == [task[s] EXCEPT !.pc = pc, !.shown = shown]
    <3>2. me.pc # "insert" BY <2>1 DEF Tasks
    <3> HIDE DEF me
    <3> QED BY <2>3, <3>1, <3>2 DEF me
  <2>6. CASE Leave(s)
    <3>1. task' = [task EXCEPT ![s] = Idle] BY <2>6 DEF Leave
    <3>2. Idle.pc # "insert" BY DEF Idle
    <3> QED BY <2>3, <3>1, <3>2
  <2> QED BY <1>4, <2>4, <2>5, <2>6
<1>5. ASSUME NEW s \in Sweepers, ReadLastPosition(s) PROVE OneInv'
  <2>1. task[s] \in Tasks /\ task[s].pc # "idle" /\ UNCHANGED rows
    BY <1>5, TaskFacts DEF ReadLastPosition
  <2>2. ASSUME NEW me, task' = [task EXCEPT ![s] = me],
               me.pc = "insert" => me.seen = Len(rows)
        PROVE  OneInv'
    BY <2>1, <2>2, OneTaskStep
  <2> DEFINE insert == [task[s] EXCEPT !.pc = "insert", !.seen = Len(rows)]
             dropped == [task[s] EXCEPT !.pc = "sweep", !.opp = Nil]
             stands == [task[s] EXCEPT !.pc = "shown"]
  <2>3. insert.seen = Len(rows) /\ dropped.pc = "sweep" /\ stands.pc = "shown"
    BY <2>1 DEF Tasks
  <2>4. \/ task' = [task EXCEPT ![s] = insert]
        \/ task' = [task EXCEPT ![s] = dropped]
        \/ task' = [task EXCEPT ![s] = stands]
    BY <1>5 DEF ReadLastPosition
  <2> HIDE DEF insert, dropped, stands
  <2> QED BY <2>2, <2>3, <2>4
<1>6. ASSUME NEW s \in Sweepers, InsertOpportunity(s) PROVE OneInv'
  <2>1. task[s] \in Tasks /\ task[s].pc = "insert" /\ task[s].seen = Len(rows)
    BY <1>6, TaskFacts DEF InsertOpportunity, OneInv, FreshRead
  <2>2. \A t \in Sweepers : task'[t].pc = IF t = s THEN "sweep" ELSE task[t].pc
    BY <1>6, <2>1 DEF InsertOpportunity, Inv, TypeOK, Tasks
  <2>3. AtMostOne' BY <2>1, <2>2 DEF OneInv, AtMostOne
  <2>4. FreshRead' BY <2>1, <2>2 DEF OneInv, AtMostOne, FreshRead
  <2>5. RowsRead'
    <3>1. Len(rows) \in Nat /\ Len(rows') = Len(rows) + 1 BY <1>6, InsertFacts, LogFacts DEF Inv
    <3>2. /\ \A i \in 1..Len(rows) : rows'[i] = rows[i]
          /\ rows'[Len(rows) + 1] = [opp |-> task[s].opp, forced |-> task[s].force,
                                     seen |-> task[s].seen]
      BY <1>6, InsertFacts
    <3>3. rows'[Len(rows) + 1].seen = Len(rows) BY <2>1, <3>2
    <3> QED BY <3>1, <3>2, <3>3 DEF OneInv, RowsRead
  <2> QED BY <2>3, <2>4, <2>5 DEF OneInv
<1> QED BY <1>1, <1>2, <1>3, <1>4, <1>5, <1>6 DEF Next, Step

\* While sweeps run one at a time, no unforced row repeats a position, under
\* either anchor, whatever crashes and repricings come between.
THEOREM SerialSweepsNeverRepeat ==
  ASSUME Lanes = 1
  PROVE  Spec => []OneRowPerPosition
<1>1. Init => OneInv
  BY DEF Init, Idle, OneInv, AtMostOne, FreshRead, RowsRead
<1>2. Inv /\ OneInv /\ [Next]_vars => OneInv' BY OneStep
<1>3. Inv /\ OneInv => OneRowPerPosition
  <2> SUFFICES ASSUME Inv, OneInv, NEW i \in DOMAIN rows, NEW j \in DOMAIN rows, i < j,
                      SamePosition(rows[i].opp, rows[j].opp), ~rows[j].forced
               PROVE  FALSE
    BY DEF OneRowPerPosition, SamePosition
  <2>1. rows[j].seen < i BY DEF Inv, DuplicateOnlyFromRace, SamePosition
  <2>2. i \in Nat /\ j \in Nat /\ rows[j].seen = j - 1
    BY LogFacts DEF Inv, OneInv, RowsRead
  <2> QED BY <2>1, <2>2
<1> QED BY <1>1, <1>2, <1>3, Invariance, PTL DEF Spec
=============================================================================
