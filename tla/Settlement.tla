----------------------------- MODULE Settlement -----------------------------
(***************************************************************************)
(* How a logged bet gets its result.  The auto-result sweep reads Kalshi's *)
(* settlement of every overdue row on a worker thread, records what is     *)
(* unambiguous, and its job then announces each record to the owner; the   *)
(* owner's /result writes whenever it is typed.  A row's P&L is abstracted *)
(* to what it was computed from: the result and the origin of the fill.    *)
(***************************************************************************)
EXTENDS Integers, FiniteSets

CONSTANTS
  Nil,          \* SQL NULL
  Opps,         \* logged bets
  Side,         \* the side each took, "yes" or "no"
  Sized,        \* the bets with a contract count; a flat stake below the price has none
  MaxFaults     \* bound on failed reads, failed messages and crashes

ASSUME SideAssumption == Side \in [Opps -> {"yes", "no"}] /\ Sized \subseteq Opps
ASSUME FaultAssumption == MaxFaults \in Nat
ASSUME NullAssumption == Nil \notin {"win", "loss", "void", "yes", "no", "scalar", "other",
                                     "logged", "owner", "auto"}

Results == {"win", "loss", "void"}
Fills == {"logged", "owner"}     \* the alert price, or the price the owner typed
Settlements == {"yes", "no", "scalar", "other"}

VARIABLES
  settled,    \* Kalshi's settlement of each market, Nil until it is final
  due,        \* rows whose match started RESULT_AUTO_AFTER_HOURS ago
  outcome,    \* result columns of each row, and who wrote the result last
  sweep,      \* the auto-result job
  flagged,    \* bot_data["scalar_flagged"], lost with the process
  told,       \* recorded results the owner was sent
  asked,      \* messages asking the owner to rule on a row, in this process
  faults

vars == <<settled, due, outcome, sweep, flagged, told, asked, faults>>
world == <<settled, due>>
inbox == <<flagged, told, asked>>

Blank == [result |-> Nil, fill |-> Nil, pnl |-> Nil, by |-> Nil]

\* Variant: the two inputs of a P&L swapped.
PnlSwapped(result, fill) == IF result = "void" THEN <<"void">> ELSE <<fill, result>>

PnlOf(result, fill) == IF result = "void" THEN <<"void">> ELSE <<result, fill>>
Pnls == {<<"void">>} \cup {"win", "loss"} \X Fills

Outcomes == [result : Results \cup {Nil}, fill : Fills \cup {Nil},
             pnl : Pnls \cup {Nil}, by : {"owner", "auto", Nil}]

\* What auto_record_result reports of a row it did not skip.
Actions == [opp : Opps, kind : {"recorded", "needs_human"}]

NoSweep == [pc |-> "idle", todo |-> {}, opp |-> Nil, result |-> Nil, actions |-> {}]

TypeOK ==
  /\ settled \in [Opps -> Settlements \cup {Nil}]
  /\ due \in SUBSET Opps
  /\ outcome \in [Opps -> Outcomes]
  /\ sweep \in [pc : {"idle", "next", "fetch", "write", "send"}, todo : SUBSET Opps,
                opp : Opps \cup {Nil}, result : Results \cup {Nil}, actions : SUBSET Actions]
  /\ flagged \in SUBSET Opps /\ told \in SUBSET Opps
  /\ asked \in [Opps -> Nat] /\ faults \in 0..MaxFaults

Init ==
  /\ settled = [o \in Opps |-> Nil] /\ due = {}
  /\ outcome = [o \in Opps |-> Blank]
  /\ sweep = NoSweep /\ flagged = {} /\ told = {}
  /\ asked = [o \in Opps |-> 0] /\ faults = 0

-----------------------------------------------------------------------------
\* Variant: the winner is always the Yes player.
YesWins(s, side) == IF s = "scalar" THEN "void" ELSE IF s = "yes" THEN "win" ELSE "loss"

\* auto_record_result: a refund is void; a bet won iff the settled side is its own.
ResultOf(s, side) == IF s = "scalar" THEN "void" ELSE IF s = side THEN "win" ELSE "loss"

\* Settlements the code records without asking.
Clear(o) == settled[o] = "scalar" \/ (settled[o] \in {"yes", "no"} /\ o \in Sized)

\* Variant: the UPSERT has lost its WHERE clause.
WriteAlways(row) == TRUE

\* Variant: NULL is compared with =, which is never true of an existing row.
WriteNever(row) == FALSE

\* record_result_if_absent: ... WHERE outcomes.result IS NULL
MayWrite(row) == row.result = Nil

\* Variant: a void keeps the P&L of the result it replaces.
MergeKeepingPnl(row, result, fill, by) ==
  [row EXCEPT !.result = result, !.by = by,
              !.pnl = IF result = "void" /\ @ # Nil THEN @ ELSE PnlOf(result, fill),
              !.fill = IF result = "void" THEN @ ELSE fill]

\* The columns an UPSERT of a result names; a void names no fill.
Merge(row, result, fill, by) ==
  [row EXCEPT !.result = result, !.pnl = PnlOf(result, fill), !.by = by,
              !.fill = IF result = "void" THEN @ ELSE fill]

\* storage.awaiting_result
Awaiting == {o \in due : outcome[o].result = Nil}

Fault == faults < MaxFaults /\ faults' = faults + 1

-----------------------------------------------------------------------------
(* The world: a market settles once, for good; a match becomes overdue.    *)

Settle(o) ==
  /\ settled[o] = Nil
  /\ \E s \in Settlements : settled' = [settled EXCEPT ![o] = s]
  /\ UNCHANGED <<due, outcome, sweep, inbox, faults>>

FallDue(o) ==
  /\ o \notin due /\ due' = due \cup {o}
  /\ UNCHANGED <<settled, outcome, sweep, inbox, faults>>

-----------------------------------------------------------------------------
(* run_result: the owner's word, one unconditional UPSERT.                 *)

OwnerRecords(o) ==
  /\ \E r \in Results : outcome' = [outcome EXCEPT ![o] = Merge(@, r, "owner", "owner")]
  /\ UNCHANGED <<world, sweep, inbox, faults>>

-----------------------------------------------------------------------------
(* _auto_result_job: the work list is read once, then each row is taken    *)
(* through auto_record_result; a row whose market cannot be read is left.  *)

SweepBegins ==
  /\ sweep.pc = "idle"
  /\ sweep' = [NoSweep EXCEPT !.pc = "next", !.todo = Awaiting]
  /\ UNCHANGED <<world, outcome, inbox, faults>>

NextRow(actions) == [sweep EXCEPT !.pc = "next", !.opp = Nil, !.result = Nil, !.actions = actions]

ReadPrior(o) ==
  /\ sweep.pc = "next" /\ o \in sweep.todo
  /\ sweep' = IF outcome[o].result # Nil
              THEN [sweep EXCEPT !.todo = @ \ {o}]
              ELSE [sweep EXCEPT !.todo = @ \ {o}, !.pc = "fetch", !.opp = o]
  /\ UNCHANGED <<world, outcome, inbox, faults>>

\* Kalshi's answer: not settled yet, clear, or something only a human can rule.
Fetch ==
  LET o == sweep.opp IN
  /\ sweep.pc = "fetch"
  /\ sweep' = IF settled[o] = Nil THEN NextRow(sweep.actions)
              ELSE IF Clear(o)
              THEN [sweep EXCEPT !.pc = "write", !.result = ResultOf(settled[o], Side[o])]
              ELSE NextRow(sweep.actions \cup {[opp |-> o, kind |-> "needs_human"]})
  /\ UNCHANGED <<world, outcome, inbox, faults>>

FetchFails ==
  /\ sweep.pc = "fetch" /\ Fault
  /\ sweep' = NextRow(sweep.actions)
  /\ UNCHANGED <<world, outcome, inbox>>

RecordIfAbsent ==
  LET o == sweep.opp IN
  /\ sweep.pc = "write"
  /\ IF MayWrite(outcome[o])
     THEN /\ outcome' = [outcome EXCEPT ![o] = Merge(@, sweep.result, "logged", "auto")]
          /\ sweep' = NextRow(sweep.actions \cup {[opp |-> o, kind |-> "recorded"]})
     ELSE sweep' = NextRow(sweep.actions) /\ UNCHANGED outcome
  /\ UNCHANGED <<world, inbox, faults>>

SweepReturns ==
  /\ sweep.pc = "next" /\ sweep.todo = {}
  /\ sweep' = [sweep EXCEPT !.pc = IF sweep.actions = {} THEN "idle" ELSE "send"]
  /\ UNCHANGED <<world, outcome, inbox, faults>>

-----------------------------------------------------------------------------
(* auto_result_job, after the thread: one message per action; a question   *)
(* already asked in this process is not repeated.                          *)

Handled(a) ==
  LET rest == sweep.actions \ {a} IN
  sweep' = IF rest = {} THEN NoSweep ELSE [sweep EXCEPT !.actions = rest]

\* Variant: the flag is set before the message is sent.
FlaggedAfter(o, sent) == flagged \cup {o}

\* Variant: the flag is never set.
FlaggedNever(o, sent) == flagged

\* A question is flagged only once its message went out.
FlagQuestion(o, sent) == IF sent THEN flagged \cup {o} ELSE flagged

Send(a) ==
  LET o == a.opp IN
  /\ sweep.pc = "send" /\ a \in sweep.actions /\ Handled(a)
  /\ IF a.kind = "recorded"
     THEN told' = told \cup {o} /\ UNCHANGED <<flagged, asked>>
     ELSE IF o \in flagged THEN UNCHANGED inbox
     ELSE /\ asked' = [asked EXCEPT ![o] = @ + 1]
          /\ flagged' = FlagQuestion(o, TRUE)
          /\ UNCHANGED told
  /\ UNCHANGED <<world, outcome, faults>>

\* Telegram refused the message; the job goes on with the next action.
SendFails(a) ==
  /\ sweep.pc = "send" /\ a \in sweep.actions /\ Handled(a) /\ Fault
  /\ flagged' = IF a.kind = "recorded" THEN flagged ELSE FlagQuestion(a.opp, FALSE)
  /\ UNCHANGED <<world, outcome, told, asked>>

\* The process dies and restarts: the database is all that is left.
Restart ==
  /\ Fault
  /\ sweep' = NoSweep /\ flagged' = {} /\ asked' = [o \in Opps |-> 0]
  /\ UNCHANGED <<world, outcome, told>>

-----------------------------------------------------------------------------
Sweep == SweepBegins \/ (\E o \in Opps : ReadPrior(o)) \/ Fetch \/ RecordIfAbsent
         \/ SweepReturns \/ (\E a \in Actions : Send(a))

Next ==
  \/ \E o \in Opps : Settle(o) \/ FallDue(o) \/ OwnerRecords(o)
  \/ Sweep \/ FetchFails \/ Restart
  \/ \E a \in Actions : SendFails(a)

Spec == Init /\ [][Next]_vars

\* The repeating job comes round and runs to its end; everything else may stop.
FairSpec == Spec /\ WF_vars(Sweep)

-----------------------------------------------------------------------------
(* Properties. *)

\* storage.record_result_if_absent, "a human entry always wins": once the owner
\* has ruled on a row, no sweep -- not even one that read the row before the
\* owner typed -- replaces the result.
OwnerWins == [][\A o \in Opps : outcome[o].by = "owner" => outcome'[o].by = "owner"]_vars

\* bot.auto_record_result, guard 1: what the unattended writer recorded is what
\* the settlement of that very market means for the side taken.
AutoAgreesWithKalshi ==
  \A o \in Opps : outcome[o].by = "auto" =>
    /\ settled[o] \in {"yes", "no", "scalar"}
    /\ outcome[o].result = (IF settled[o] = "scalar" THEN "void"
                            ELSE IF settled[o] = Side[o] THEN "win" ELSE "loss")

\* The ROI co-gate reads result, fill and P&L of one row: they belong together
\* after any sequence of owner and automatic entries, a void included.
PnlBelongsToResult ==
  \A o \in Opps : LET row == outcome[o] IN
    /\ row.result = Nil => row.pnl = Nil
    /\ row.result = "void" => row.pnl = <<"void">>
    /\ row.result \in {"win", "loss"} => row.pnl = <<row.result, row.fill>>

\* auto_result_job: the owner is not asked twice about one row by one process.
AskedOnce == \A o \in Opps : asked[o] <= 1

\* auto_result_job, "only AFTER a successful send, else a blip silences it for
\* good": a settlement only a human can rule on reaches the owner.
QuestionArrives ==
  \A o \in Opps :
    (o \in due /\ settled[o] # Nil /\ ~Clear(o)) ~> (asked[o] > 0 \/ outcome[o].result # Nil)

\* auto_result_job: an overdue bet whose market settled clearly gets a result,
\* whatever fails on the way, without the owner doing anything.
SettledIsRecorded ==
  \A o \in Opps : (o \in due /\ settled[o] # Nil /\ Clear(o)) ~> (outcome[o].result # Nil)
=============================================================================
