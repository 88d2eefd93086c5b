------------------------- MODULE Settlement_proofs --------------------------
(***************************************************************************)
(* Theorems about Settlement, for every set of bets and any number of      *)
(* faults.  Inv is inductive: the sweep only ever carries to its write a   *)
(* result that the final settlement of that row's market means.            *)
(***************************************************************************)
EXTENDS Settlement, TLAPS

\* A sweep that is about to write has read a clear settlement, which is final.
SweepKnows ==
  LET o == sweep.opp IN
  /\ sweep.pc \in {"fetch", "write"} => o \in Opps
  /\ sweep.pc = "write" => Clear(o) /\ sweep.result = ResultOf(settled[o], Side[o])

\* A row has a result iff somebody wrote it.
WrittenBySomeone == \A o \in Opps : outcome[o].result = Nil <=> outcome[o].by = Nil

\* A question was asked once, and then only if it is flagged.
AskedIsFlagged == \A o \in Opps : asked[o] = 0 \/ (asked[o] = 1 /\ o \in flagged)

Inv == /\ TypeOK /\ SweepKnows /\ WrittenBySomeone /\ AskedIsFlagged
       /\ AutoAgreesWithKalshi /\ PnlBelongsToResult

\* The part of Inv about the rows, and the part about the sweep.
RowsRight == WrittenBySomeone /\ AutoAgreesWithKalshi /\ PnlBelongsToResult

-----------------------------------------------------------------------------
\* A clear settlement means a result.
LEMMA ClearResult ==
  ASSUME NEW o \in Opps, Clear(o)
  PROVE  /\ ResultOf(settled[o], Side[o]) \in Results
         /\ settled[o] \in {"yes", "no", "scalar"}
         /\ ResultOf(settled[o], Side[o]) =
              (IF settled[o] = "scalar" THEN "void"
               ELSE IF settled[o] = Side[o] THEN "win" ELSE "loss")
BY DEF Clear, ResultOf, Results

\* The UPSERT of a result leaves a row whose columns belong together.
LEMMA MergeFacts ==
  ASSUME NEW row \in Outcomes, NEW result \in Results, NEW fill \in Fills,
         NEW by \in {"owner", "auto"}
  PROVE  LET new == Merge(row, result, fill, by) IN
         /\ new \in Outcomes
         /\ new.result = result /\ new.by = by
         /\ result = "void" => new.pnl = <<"void">>
         /\ result \in {"win", "loss"} => new.pnl = <<result, new.fill>>
<1> DEFINE pnl == PnlOf(result, fill)
           kept == IF result = "void" THEN row.fill ELSE fill
<1>1. Merge(row, result, fill, by) =
        [row EXCEPT !.result = result, !.pnl = pnl, !.by = by, !.fill = kept]
  BY DEF Merge, Outcomes
<1>2. pnl \in Pnls /\ (result = "void" => pnl = <<"void">>)
      /\ (result \in {"win", "loss"} => pnl = <<result, fill>>)
  BY DEF PnlOf, Pnls, Results
<1>3. kept \in Fills \cup {Nil} /\ (result \in {"win", "loss"} => kept = fill)
  BY DEF Outcomes
<1> HIDE DEF pnl, kept
<1> QED BY <1>1, <1>2, <1>3 DEF Outcomes, Results

\* Writing a right result into one row leaves all rows right.
LEMMA WriteRow ==
  ASSUME Inv, NEW o \in Opps, NEW result \in Results, NEW fill \in Fills,
         NEW by \in {"owner", "auto"}, UNCHANGED settled,
         outcome' = [outcome EXCEPT ![o] = Merge(@, result, fill, by)],
         by = "auto" => Clear(o) /\ result = ResultOf(settled[o], Side[o])
  PROVE  outcome' \in [Opps -> Outcomes] /\ RowsRight'
<1> DEFINE new == Merge(outcome[o], result, fill, by)
<1>1. outcome \in [Opps -> Outcomes] BY DEF Inv, TypeOK
<1>2. /\ new \in Outcomes /\ new.result = result /\ new.by = by
      /\ result = "void" => new.pnl = <<"void">>
      /\ result \in {"win", "loss"} => new.pnl = <<result, new.fill>>
  BY <1>1, MergeFacts
<1>3. /\ outcome'[o] = new
      /\ \A p \in Opps : p # o => outcome'[p] = outcome[p]
      /\ outcome' \in [Opps -> Outcomes]
  BY <1>1, <1>2
<1> HIDE DEF new
<1>4. result # Nil /\ by # Nil BY NullAssumption DEF Results
<1>5. WrittenBySomeone' BY <1>2, <1>3, <1>4 DEF WrittenBySomeone, Inv
<1>6. AutoAgreesWithKalshi'
  BY <1>2, <1>3, ClearResult DEF AutoAgreesWithKalshi, Inv
<1>7. PnlBelongsToResult'
  BY <1>2, <1>3, <1>4 DEF PnlBelongsToResult, Inv, Results
<1> QED BY <1>3, <1>5, <1>6, <1>7 DEF RowsRight

-----------------------------------------------------------------------------
\* The initial states satisfy the invariant.
LEMMA InitInv == Init => Inv
<1> SUFFICES ASSUME Init PROVE Inv OBVIOUS
<1>1. TypeOK
  BY FaultAssumption DEF Init, TypeOK, Blank, Outcomes, NoSweep
<1>2. SweepKnows BY DEF Init, SweepKnows, NoSweep
<1>3. WrittenBySomeone BY DEF Init, WrittenBySomeone, Blank
<1>4. AskedIsFlagged BY DEF Init, AskedIsFlagged
<1>5. AutoAgreesWithKalshi
  BY NullAssumption DEF Init, AutoAgreesWithKalshi, Blank
<1>6. PnlBelongsToResult
  BY NullAssumption DEF Init, PnlBelongsToResult, Blank
<1> QED BY <1>1, <1>2, <1>3, <1>4, <1>5, <1>6 DEF Inv

\* A settlement is final, so what was read of it stays true.
LEMMA WorldStep ==
  ASSUME Inv, NEW o \in Opps, Settle(o) \/ FallDue(o)
  PROVE  Inv'
<1>1. UNCHANGED <<outcome, sweep, inbox, faults>> BY DEF Settle, FallDue
<1>2. /\ settled' \in [Opps -> Settlements \cup {Nil}] /\ due' \in SUBSET Opps
      /\ \A p \in Opps : settled[p] # Nil => settled'[p] = settled[p]
  BY DEF Settle, FallDue, Inv, TypeOK
<1>3. TypeOK' BY <1>1, <1>2 DEF Inv, TypeOK, inbox
<1>4. SweepKnows'
  <2>1. \A p \in Opps : Clear(p) => settled[p] # Nil BY NullAssumption DEF Clear
  <2> QED BY <1>1, <1>2, <2>1 DEF Inv, SweepKnows, Clear
<1>5. WrittenBySomeone' /\ AskedIsFlagged' /\ PnlBelongsToResult'
  BY <1>1 DEF Inv, WrittenBySomeone, AskedIsFlagged, PnlBelongsToResult, inbox
<1>6. AutoAgreesWithKalshi'
  BY <1>1, <1>2, NullAssumption DEF Inv, AutoAgreesWithKalshi
<1> QED BY <1>3, <1>4, <1>5, <1>6 DEF Inv

\* The owner may write anything, at any time.
LEMMA OwnerStep ==
  ASSUME Inv, NEW o \in Opps, OwnerRecords(o)
  PROVE  Inv'
<1>1. UNCHANGED <<world, sweep, inbox, faults>> BY DEF OwnerRecords
<1>2. PICK r \in Results : outcome' = [outcome EXCEPT ![o] = Merge(@, r, "owner", "owner")]
  BY DEF OwnerRecords
<1>3. outcome' \in [Opps -> Outcomes] /\ RowsRight'
  BY <1>1, <1>2, WriteRow DEF world, Fills
<1>4. TypeOK' BY <1>1, <1>3 DEF Inv, TypeOK, world, inbox
<1>5. SweepKnows' BY <1>1 DEF Inv, SweepKnows, Clear, world
<1>6. AskedIsFlagged' BY <1>1 DEF Inv, AskedIsFlagged, inbox
<1> QED BY <1>3, <1>4, <1>5, <1>6 DEF Inv, RowsRight

SweepType == [pc : {"idle", "next", "fetch", "write", "send"}, todo : SUBSET Opps,
              opp : Opps \cup {Nil}, result : Results \cup {Nil}, actions : SUBSET Actions]

\* Faults stay within their bound.
LEMMA FaultStep ==
  ASSUME Inv, faults' = faults \/ Fault
  PROVE  faults' \in 0..MaxFaults
BY FaultAssumption DEF Inv, TypeOK, Fault

\* A step of the sweep that writes no row and sends nothing.
LEMMA SweepMoves ==
  ASSUME Inv, UNCHANGED <<world, outcome, inbox>>, faults' \in 0..MaxFaults,
         sweep' \in SweepType, SweepKnows'
  PROVE  Inv'
<1>1. TypeOK' BY DEF Inv, TypeOK, SweepType, world, inbox
<1>2. WrittenBySomeone' /\ AskedIsFlagged' /\ PnlBelongsToResult' /\ AutoAgreesWithKalshi'
  BY DEF Inv, WrittenBySomeone, AskedIsFlagged, PnlBelongsToResult, AutoAgreesWithKalshi,
    world, inbox
<1> QED BY <1>1, <1>2 DEF Inv

\* Going on with the next row, with what is reported so far.
LEMMA NextRowType ==
  ASSUME Inv, NEW actions \in SUBSET Actions
  PROVE  NextRow(actions) \in SweepType /\ NextRow(actions).pc = "next"
BY DEF Inv, TypeOK, SweepType, NextRow

\* The reading steps of the sweep.
LEMMA ReadingStep ==
  ASSUME Inv, SweepBegins \/ (\E o \in Opps : ReadPrior(o)) \/ Fetch \/ FetchFails \/ SweepReturns
  PROVE  Inv'
<1>1. sweep \in SweepType /\ NoSweep \in SweepType /\ due \in SUBSET Opps
  BY DEF Inv, TypeOK, SweepType, NoSweep
<1>2. UNCHANGED <<world, outcome, inbox>> /\ faults' \in 0..MaxFaults
  <2>1. UNCHANGED <<world, outcome, inbox>>
    BY DEF SweepBegins, ReadPrior, Fetch, FetchFails, SweepReturns
  <2>2. faults' = faults \/ Fault
    BY DEF SweepBegins, ReadPrior, Fetch, FetchFails, SweepReturns
  <2>3. faults' \in 0..MaxFaults BY <2>2, FaultStep
  <2> QED BY <2>1, <2>3
<1>3. CASE SweepBegins
  <2>1. sweep' \in SweepType /\ sweep'.pc = "next"
    BY <1>1, <1>3 DEF SweepBegins, SweepType, Awaiting, NoSweep
  <2> QED BY <1>2, <2>1, SweepMoves DEF SweepKnows
<1>4. ASSUME NEW o \in Opps, ReadPrior(o) PROVE Inv'
  <2>1. sweep' \in SweepType
    BY <1>1, <1>4 DEF ReadPrior, SweepType
  <2>2. sweep'.pc = "next" \/ (sweep'.pc = "fetch" /\ sweep'.opp = o)
    BY <1>1, <1>4 DEF ReadPrior, SweepType
  <2> QED BY <1>2, <2>1, <2>2, SweepMoves DEF SweepKnows
<1>5. CASE Fetch
  <2> DEFINE o == sweep.opp
             ask == sweep.actions \cup {[opp |-> o, kind |-> "needs_human"]}
  <2>1. o \in Opps /\ sweep.pc = "fetch" BY <1>5 DEF Fetch, Inv, SweepKnows
  <2>2. sweep.actions \in SUBSET Actions /\ ask \in SUBSET Actions
    BY <1>1, <2>1 DEF SweepType, Actions
  <2>3. CASE settled[o] # Nil /\ Clear(o)
    <3> DEFINE r == ResultOf(settled[o], Side[o])
    <3>1. r \in Results BY <2>1, <2>3, ClearResult
    <3>2. sweep' = [sweep EXCEPT !.pc = "write", !.result = r] BY <1>5, <2>3 DEF Fetch
    <3> HIDE DEF r
    <3>3. /\ sweep' \in SweepType /\ sweep'.pc = "write"
          /\ sweep'.opp = o /\ sweep'.result = r
      BY <1>1, <3>1, <3>2 DEF SweepType
    <3>4. Clear(o)' /\ r = ResultOf(settled'[o], Side[o]) /\ o' = o
      BY <1>2, <2>3, <3>3 DEF Clear, world, r
    <3>5. SweepKnows' BY <2>1, <3>3, <3>4 DEF SweepKnows, Clear
    <3> QED BY <1>2, <3>3, <3>5, SweepMoves
  <2>4. CASE sweep' = NextRow(sweep.actions) \/ sweep' = NextRow(ask)
    <3> HIDE DEF ask
    <3>1. sweep' \in SweepType /\ sweep'.pc = "next" BY <2>2, <2>4, NextRowType
    <3> QED BY <1>2, <3>1, SweepMoves DEF SweepKnows
  <2> QED BY <1>5, <2>3, <2>4 DEF Fetch
<1>6. CASE FetchFails
  <2>1. sweep' \in SweepType /\ sweep'.pc = "next"
    BY <1>1, <1>6, NextRowType DEF FetchFails, SweepType
  <2> QED BY <1>2, <2>1, SweepMoves DEF SweepKnows
<1>7. CASE SweepReturns
  <2>1. sweep' \in SweepType /\ sweep'.pc \in {"idle", "send"}
    BY <1>1, <1>7 DEF SweepReturns, SweepType
  <2> QED BY <1>2, <2>1, SweepMoves DEF SweepKnows
<1> QED BY <1>3, <1>4, <1>5, <1>6, <1>7

\* The write of the sweep: what it carries is what the settlement means.
LEMMA RecordStep ==
  ASSUME Inv, RecordIfAbsent
  PROVE  Inv'
<1> DEFINE o == sweep.opp
           more == sweep.actions \cup {[opp |-> o, kind |-> "recorded"]}
<1>1. /\ sweep.pc = "write" /\ o \in Opps /\ Clear(o)
      /\ sweep.result = ResultOf(settled[o], Side[o])
  BY DEF RecordIfAbsent, Inv, SweepKnows
<1>2. sweep.result \in Results BY <1>1, ClearResult
<1>3. sweep.actions \in SUBSET Actions /\ more \in SUBSET Actions
  BY <1>1 DEF Inv, TypeOK, Actions
<1>4. UNCHANGED <<world, inbox, faults>> BY DEF RecordIfAbsent
<1>5. sweep' = NextRow(sweep.actions) \/ sweep' = NextRow(more) BY DEF RecordIfAbsent
<1>6. sweep' \in SweepType /\ sweep'.pc = "next"
  <2> HIDE DEF more
  <2> QED BY <1>3, <1>5, NextRowType
<1>7. outcome' \in [Opps -> Outcomes] /\ RowsRight'
  <2>1. CASE outcome' = [outcome EXCEPT ![o] = Merge(@, sweep.result, "logged", "auto")]
    BY <1>1, <1>2, <1>4, <2>1, WriteRow DEF world, Fills
  <2>2. CASE UNCHANGED outcome
    BY <1>4, <2>2 DEF Inv, TypeOK, RowsRight, WrittenBySomeone, AutoAgreesWithKalshi,
      PnlBelongsToResult, world
  <2> QED BY <2>1, <2>2 DEF RecordIfAbsent
<1>8. TypeOK' BY <1>4, <1>6, <1>7 DEF Inv, TypeOK, SweepType, world, inbox
<1>9. SweepKnows' BY <1>6 DEF SweepKnows
<1>10. AskedIsFlagged' BY <1>4 DEF Inv, AskedIsFlagged, inbox
<1> QED BY <1>7, <1>8, <1>9, <1>10 DEF Inv, RowsRight

\* The messages: a row is asked about only when it is not flagged, and flagged
\* when it was asked about.
LEMMA SendStep ==
  ASSUME Inv, NEW a \in Actions, Send(a) \/ SendFails(a)
  PROVE  Inv'
<1>1. a.opp \in Opps BY DEF Actions
<1>2. UNCHANGED <<world, outcome>> BY DEF Send, SendFails
<1>3. faults' \in 0..MaxFaults BY FaultStep DEF Send, SendFails
<1>4. sweep' \in SweepType /\ sweep'.pc \notin {"fetch", "write"}
  <2>1. sweep \in SweepType /\ NoSweep \in SweepType /\ NoSweep.pc = "idle"
    BY DEF Inv, TypeOK, SweepType, NoSweep
  <2>2. sweep.pc = "send" BY DEF Send, SendFails
  <2>3. PICK rest \in SUBSET sweep.actions :
          sweep' = NoSweep \/ sweep' = [sweep EXCEPT !.actions = rest]
    BY DEF Send, SendFails, Handled
  <2> QED BY <2>1, <2>2, <2>3 DEF SweepType
<1>5. /\ flagged' \in SUBSET Opps /\ told' \in SUBSET Opps
      /\ asked' \in [Opps -> Nat] /\ AskedIsFlagged'
  <2>1. CASE UNCHANGED asked /\ flagged' = flagged /\ told' \in {told, told \cup {a.opp}}
    BY <1>1, <2>1 DEF Inv, TypeOK, AskedIsFlagged
  <2>2. CASE /\ a.opp \notin flagged /\ asked' = [asked EXCEPT ![a.opp] = @ + 1]
             /\ flagged' = flagged \cup {a.opp} /\ UNCHANGED told
    BY <1>1, <2>2 DEF Inv, TypeOK, AskedIsFlagged
  <2> QED BY <2>1, <2>2 DEF Send, SendFails, FlagQuestion, inbox
<1>6. TypeOK' BY <1>2, <1>3, <1>4, <1>5 DEF Inv, TypeOK, SweepType, world
<1>7. SweepKnows' BY <1>4 DEF SweepKnows
<1>8. RowsRight'
  BY <1>2 DEF Inv, RowsRight, WrittenBySomeone, AutoAgreesWithKalshi, PnlBelongsToResult, world
<1> QED BY <1>5, <1>6, <1>7, <1>8 DEF Inv, RowsRight

\* A restart forgets the sweep and what was asked, and no row.
LEMMA RestartStep ==
  ASSUME Inv, Restart
  PROVE  Inv'
<1>1. UNCHANGED <<world, outcome, told>> /\ sweep' = NoSweep /\ flagged' = {}
      /\ asked' = [o \in Opps |-> 0]
  BY DEF Restart
<1>2. faults' \in 0..MaxFaults BY FaultStep DEF Restart
<1>3. NoSweep \in SweepType /\ NoSweep.pc = "idle" BY DEF SweepType, NoSweep
<1>4. TypeOK' BY <1>1, <1>2, <1>3 DEF Inv, TypeOK, SweepType, world
<1>5. SweepKnows' /\ AskedIsFlagged' BY <1>1, <1>3 DEF SweepKnows, AskedIsFlagged
<1>6. RowsRight'
  BY <1>1 DEF Inv, RowsRight, WrittenBySomeone, AutoAgreesWithKalshi, PnlBelongsToResult, world
<1> QED BY <1>4, <1>5, <1>6 DEF Inv, RowsRight

\* Every step preserves the invariant.
LEMMA NextInv == Inv /\ [Next]_vars => Inv'
<1> SUFFICES ASSUME Inv, [Next]_vars PROVE Inv' OBVIOUS
<1>1. CASE UNCHANGED vars
  <2>1. UNCHANGED <<settled, due, outcome, sweep, flagged, told, asked, faults>>
    BY <1>1 DEF vars
  <2>2. TypeOK' /\ SweepKnows' BY <2>1 DEF Inv, TypeOK, SweepKnows, Clear
  <2>3. WrittenBySomeone' /\ AskedIsFlagged' BY <2>1 DEF Inv, WrittenBySomeone, AskedIsFlagged
  <2>4. AutoAgreesWithKalshi' /\ PnlBelongsToResult'
    BY <2>1 DEF Inv, AutoAgreesWithKalshi, PnlBelongsToResult
  <2> QED BY <2>2, <2>3, <2>4 DEF Inv
<1>2. ASSUME NEW o \in Opps, Settle(o) \/ FallDue(o) \/ OwnerRecords(o) PROVE Inv'
  BY <1>2, WorldStep, OwnerStep
<1>3. CASE Sweep \/ FetchFails
  BY <1>3, ReadingStep, RecordStep, SendStep DEF Sweep
<1>4. CASE Restart BY <1>4, RestartStep
<1>5. ASSUME NEW a \in Actions, SendFails(a) PROVE Inv' BY <1>5, SendStep
<1> QED BY <1>1, <1>2, <1>3, <1>4, <1>5 DEF Next

-----------------------------------------------------------------------------
\* The invariant holds of every behaviour.
THEOREM Invariance == Spec => []Inv
BY InitInv, NextInv, PTL DEF Spec

\* Every variable keeps its type.
THEOREM TypeCorrect == Spec => []TypeOK
<1>1. Inv => TypeOK BY DEF Inv
<1> QED BY <1>1, Invariance, PTL

\* What the unattended writer records is what the settlement means for the side
\* that was taken, whatever the owner and the failures do meanwhile.
THEOREM AutoRecordsAreRight == Spec => []AutoAgreesWithKalshi
<1>1. Inv => AutoAgreesWithKalshi BY DEF Inv
<1> QED BY <1>1, Invariance, PTL

\* Result, fill and P&L of a row always belong together.
THEOREM PnlIsOfItsResult == Spec => []PnlBelongsToResult
<1>1. Inv => PnlBelongsToResult BY DEF Inv
<1> QED BY <1>1, Invariance, PTL

\* The owner is not asked twice about a row by one process.
THEOREM QuestionsAreAskedOnce == Spec => []AskedOnce
<1>1. Inv => AskedOnce BY DEF Inv, AskedIsFlagged, AskedOnce
<1> QED BY <1>1, Invariance, PTL

\* The owner's word is final: the sweep writes only where no result is, even when
\* it read the row before the owner typed.
THEOREM OwnerAlwaysWins == Spec => OwnerWins
<1>1. ASSUME Inv, [Next]_vars, NEW o \in Opps, outcome[o].by = "owner"
      PROVE  outcome'[o].by = "owner"
  <2>1. outcome \in [Opps -> Outcomes] /\ outcome[o].result # Nil
    BY <1>1, NullAssumption DEF Inv, TypeOK, WrittenBySomeone
  <2>2. CASE UNCHANGED outcome BY <1>1, <2>2
  <2>3. ASSUME NEW p \in Opps, OwnerRecords(p) PROVE outcome'[o].by = "owner"
    <3>1. PICK r \in Results : outcome' = [outcome EXCEPT ![p] = Merge(@, r, "owner", "owner")]
      BY <2>3 DEF OwnerRecords
    <3>2. Merge(outcome[p], r, "owner", "owner").by = "owner"
      BY <2>1, MergeFacts DEF Fills
    <3> QED BY <1>1, <2>1, <3>1, <3>2
  <2>4. CASE RecordIfAbsent
    <3>1. sweep.opp \in Opps BY <1>1, <2>4 DEF RecordIfAbsent, Inv, SweepKnows
    <3>2. CASE sweep.opp = o BY <1>1, <2>1, <2>4, <3>2 DEF RecordIfAbsent, MayWrite
    <3>3. CASE sweep.opp # o BY <1>1, <2>1, <2>4, <3>3 DEF RecordIfAbsent
    <3> QED BY <3>2, <3>3
  <2> QED
    BY <1>1, <2>2, <2>3, <2>4 DEF Next, Sweep, Settle, FallDue, SweepBegins, ReadPrior, Fetch,
      FetchFails, SweepReturns, Send, SendFails, Restart, vars
<1>2. Inv /\ [Next]_vars =>
        [\A o \in Opps : outcome[o].by = "owner" => outcome'[o].by = "owner"]_vars
  BY <1>1
<1> QED BY <1>2, Invariance, PTL DEF Spec, OwnerWins
=============================================================================
