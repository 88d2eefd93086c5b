--------------------------- MODULE ClosingCapture ---------------------------
(***************************************************************************)
(* The closing-line capture of bot.py: which timer is armed for which row, *)
(* what a capture thread reads, decides and writes, and how a start time   *)
(* is corrected.  The event loop runs the handlers and the job queue;      *)
(* every capture runs on a thread of its own with its own connection, and  *)
(* every write is its own committed transaction, so the threads interleave *)
(* between a read and the write it justifies.                              *)
(*                                                                         *)
(* Kalshi answers with any stamp of Stamps (its occurrence_datetime is a   *)
(* session placeholder); the sharp feed, when it lists the match, answers  *)
(* with the real start as it is at that moment.  A board of the sharp      *)
(* entry job serves several rows, and by then may be out of date.          *)
(***************************************************************************)
EXTENDS Outcomes, FiniteSets

CONSTANTS
  Opps,          \* ids of the logged opportunities, ordered as numbers
  Workers,       \* threads that can run captures; a singleton serialises them
  Stamps,        \* the start times Kalshi or the sharp feed may give
  BeforeStart,   \* CAPTURE_BEFORE_START
  LateGrace,     \* CAPTURE_LATE_GRACE
  Earliest,      \* CAPTURE_EARLIEST
  Epsilon,       \* RESCHEDULE_EPSILON
  EntryTime,     \* time _sharp_entry_job takes, from its first board to its last write
  MaxTries,      \* attempts capture_job makes before it gives up
  MaxFaults      \* bound on crashes, failed reads and aborted scans together

ASSUME OppsAssumption == Opps \subseteq Nat
ASSUME StampsAssumption == Stamps \subseteq Time
ASSUME WindowAssumption ==
  /\ BeforeStart \in Nat /\ LateGrace \in Nat /\ Earliest \in Nat /\ Epsilon \in Nat
  /\ Epsilon <= LateGrace /\ BeforeStart <= Earliest
ASSUME EntryAssumption == EntryTime \in Nat
ASSUME BoundAssumption == MaxTries \in Nat \ {0} /\ MaxFaults \in Nat

VARIABLES
  now,        \* wall clock
  up,         \* the bot process runs
  logged,     \* rows of `opportunities`
  start,      \* occurrence_datetime of each row
  outcome,    \* capture columns of each row's outcome
  armed,      \* fire time of the job close:{id}, or Nil
  worker,     \* what each capture thread is doing
  scan,       \* where scheduled_scan_job is
  fresh,      \* new_ids of the running scan, still without a sharp entry
  restamped,  \* rows whose start _sharp_entry_job moved, not yet re-armed
  entry,      \* _sharp_entry_job: the row and the stored start it has read, the
              \* starts that a board fetched since it began may list, and when it began
  actual,     \* when the match really starts
  active,     \* the market still trades
  faults      \* crashes, failed reads and aborted scans so far

vars == <<now, up, logged, start, outcome, armed, worker, scan, fresh, restamped,
          entry, actual, active, faults>>
rows == <<logged, start, outcome>>
world == <<now, actual, active>>
cycle == <<scan, fresh, restamped, entry>>

Idle == [pc |-> "idle", opp |-> Nil, todo |-> {}, by |-> "auto", force |-> FALSE,
         at |-> 0, stored |-> Nil, listed |-> FALSE, tries |-> 0]

NoEntry == [opp |-> Nil, stored |-> Nil, posted |-> [o \in Opps |-> {}], since |-> 0]

Entries == [opp : Opps \cup {Nil}, stored : Time \cup {Nil},
            posted : [Opps -> SUBSET Stamps], since : Time]

WorkerStates ==
  [pc : {"idle", "start", "reconcile", "rearm", "guard", "snap", "miss"},
   opp : Opps \cup {Nil}, todo : SUBSET Opps, by : Writers, force : BOOLEAN,
   at : Time, stored : Time \cup {Nil}, listed : BOOLEAN, tries : 0..MaxTries]

TypeOK ==
  /\ now \in Time /\ up \in BOOLEAN /\ logged \in SUBSET Opps
  /\ start \in [Opps -> Time \cup {Nil}]
  /\ outcome \in [Opps -> Row]
  /\ armed \in [Opps -> Time \cup {Nil}]
  /\ worker \in [Workers -> WorkerStates]
  /\ scan \in {"idle", "sweep", "dm", "sharp"}
  /\ fresh \in SUBSET Opps /\ restamped \in SUBSET Opps /\ entry \in Entries
  /\ actual \in [Opps -> Stamps] /\ active \in [Opps -> BOOLEAN]
  /\ faults \in 0..MaxFaults

Init ==
  /\ now = 0 /\ up = TRUE /\ logged = {}
  /\ start = [o \in Opps |-> Nil]
  /\ outcome = [o \in Opps |-> NoOutcome]
  /\ armed = [o \in Opps |-> Nil]
  /\ worker = [w \in Workers |-> Idle]
  /\ scan = "idle" /\ fresh = {} /\ restamped = {} /\ entry = NoEntry
  /\ actual \in [Opps -> Stamps] /\ active = [o \in Opps |-> TRUE]
  /\ faults = 0

-----------------------------------------------------------------------------
\* Variant: only a start moved back is a difference.
DiffersLater(s, t) == s - t > Epsilon

\* A start given twice differs by more than RESCHEDULE_EPSILON.
Differs(s, t) == s - t > Epsilon \/ t - s > Epsilon

PendingCaptures == {o \in logged : Pending(outcome[o])}

\* when = max(0, start - CAPTURE_BEFORE_START - now), as an instant
FireTime(s) == IF s - BeforeStart > now THEN s - BeforeStart ELSE now

\* Variant: a row without a start is armed too.
ScheduledUntimed(j) ==
  [o \in Opps |-> IF o \in PendingCaptures /\ j[o] = Nil
                  THEN (IF start[o] = Nil THEN now ELSE FireTime(start[o])) ELSE j[o]]

\* Variant: a past-due row is not armed.
ScheduledAhead(j) ==
  [o \in Opps |-> IF o \in PendingCaptures /\ start[o] # Nil /\ j[o] = Nil
                  THEN (IF start[o] > now THEN FireTime(start[o]) ELSE Nil) ELSE j[o]]

\* schedule_pending_captures on the job table j: every pending row that has a
\* start and no job of its name gets one.  The SELECT and the arming are one
\* step of the event loop; a commit that falls between them leaves the state
\* that the same commit just after the step leaves.
Scheduled(j) ==
  [o \in Opps |-> IF o \in PendingCaptures /\ start[o] # Nil /\ j[o] = Nil
                  THEN FireTime(start[o]) ELSE j[o]]

\* rearm_captures: cancel the jobs of `moved`, then schedule as usual.
Rearmed(j, moved) ==
  IF moved = {} THEN j ELSE Scheduled([o \in Opps |-> IF o \in moved THEN Nil ELSE j[o]])

Fault == faults < MaxFaults /\ faults' = faults + 1

-----------------------------------------------------------------------------
(* The world outside. *)

\* The sharp entry job is not delayed beyond EntryTime.
Tick == /\ now < MaxTime /\ now' = now + 1
        /\ \A o \in Opps : entry.posted[o] # {} => now < entry.since + EntryTime
        /\ UNCHANGED <<up, rows, armed, worker, cycle, actual, active, faults>>

\* A match not yet started is moved, later or earlier.
Postpone(o) ==
  /\ now < actual[o]
  /\ \E t \in Stamps :
       /\ t > now /\ t # actual[o] /\ actual' = [actual EXCEPT ![o] = t]
       /\ entry' = [entry EXCEPT !.posted[o] = IF @ = {} THEN {} ELSE @ \cup {t}]
  /\ UNCHANGED <<now, up, rows, armed, worker, scan, fresh, restamped, active, faults>>

\* The market closes for good some time after the match began.
MarketCloses(o) ==
  /\ active[o] /\ now >= actual[o]
  /\ active' = [active EXCEPT ![o] = FALSE]
  /\ UNCHANGED <<now, up, rows, armed, worker, cycle, actual, faults>>

-----------------------------------------------------------------------------
(* Rows are logged, by a command at any time or by the scheduled sweep.    *)
(* new_ids is "id > high_water": whatever was inserted during the sweep.   *)

LogOpportunity(o) ==
  /\ up /\ o \notin logged /\ active[o]
  /\ \E s \in Stamps \cup {Nil} : start' = [start EXCEPT ![o] = s]
  /\ logged' = logged \cup {o}
  /\ fresh' = IF scan = "sweep" THEN fresh \cup {o} ELSE fresh
  /\ UNCHANGED <<world, up, outcome, armed, worker, scan, restamped, entry, faults>>

\* /check and /scan end with schedule_pending_captures.
CommandSchedules ==
  /\ up /\ armed' = Scheduled(armed)
  /\ UNCHANGED <<world, up, rows, worker, cycle, faults>>

ScanBegins ==
  /\ up /\ scan = "idle" /\ scan' = "sweep"
  /\ UNCHANGED <<world, up, rows, armed, worker, fresh, restamped, entry, faults>>

\* The sweep returned: arm the new rows, then announce them.
ScanSchedules ==
  /\ up /\ scan = "sweep" /\ scan' = "dm"
  /\ armed' = Scheduled(armed)
  /\ UNCHANGED <<world, up, rows, worker, fresh, restamped, entry, faults>>

ScanAnnounces ==
  /\ up /\ scan = "dm" /\ scan' = "sharp"
  /\ entry' = IF fresh = {} THEN NoEntry
              ELSE [NoEntry EXCEPT !.since = now,
                      !.posted = [o \in Opps |-> IF o \in fresh THEN {actual[o]} ELSE {}]]
  /\ UNCHANGED <<world, up, rows, armed, worker, fresh, restamped, faults>>

\* The sweep raised, or the announcement did: the cycle and its new_ids are gone.
ScanAborts ==
  /\ up /\ scan \in {"sweep", "dm"} /\ Fault
  /\ scan' = "idle" /\ fresh' = {}
  /\ UNCHANGED <<world, up, rows, armed, worker, restamped, entry>>

\* _sharp_entry_job on one row: it reads the row,
SharpReads(o) ==
  /\ up /\ scan = "sharp" /\ o \in fresh /\ entry.opp = Nil
  /\ entry' = [entry EXCEPT !.opp = o, !.stored = start[o]]
  /\ UNCHANGED <<world, up, rows, armed, worker, scan, fresh, restamped, faults>>

\* looks the match up on the board, of now or of an earlier row, and corrects the
\* stamp it has read if the match is listed.
SharpEntry(o) ==
  /\ up /\ scan = "sharp" /\ o \in fresh /\ entry.opp = o
  /\ fresh' = fresh \ {o}
  /\ \/ UNCHANGED <<start, restamped>>          \* not listed, or already right
     \/ \E s \in entry.posted[o] :
          /\ entry.stored # Nil => Differs(s, entry.stored)
          /\ start' = [start EXCEPT ![o] = s]
          /\ restamped' = restamped \cup {o}
  /\ entry' = IF fresh' = {} THEN NoEntry
              ELSE [entry EXCEPT !.opp = Nil, !.stored = Nil, !.posted[o] = {}]
  /\ UNCHANGED <<world, up, logged, outcome, armed, worker, scan, faults>>

ScanEnds ==
  /\ up /\ scan = "sharp" /\ fresh = {}
  /\ scan' = "idle" /\ restamped' = {}
  /\ armed' = Rearmed(armed, restamped)
  /\ UNCHANGED <<world, up, rows, worker, fresh, entry, faults>>

-----------------------------------------------------------------------------
(* capture_job: the timer fired and left the queue; a thread runs          *)
(* auto_capture, up to MaxTries times.                                     *)

FireJob(o, w) ==
  /\ up /\ armed[o] # Nil /\ armed[o] <= now
  /\ worker[w].pc = "idle"
  /\ armed' = [armed EXCEPT ![o] = Nil]
  /\ worker' = [worker EXCEPT ![w] = [Idle EXCEPT !.pc = "start", !.opp = o]]
  /\ UNCHANGED <<world, up, rows, cycle, faults>>

\* auto_capture reads the row and the clock, then goes to the network.
BeginAttempt(w) ==
  /\ worker[w].pc = "start"
  /\ worker' = [worker EXCEPT ![w].pc = "reconcile", ![w].at = now,
                              ![w].stored = start[worker[w].opp]]
  /\ UNCHANGED <<world, up, rows, armed, cycle, faults>>

\* The best available start: the sharp feed's, else Kalshi's stamp.  A material
\* difference corrects the stored start; one still ahead re-arms the capture.
Reconcile(w) ==
  LET me == worker[w]  o == me.opp IN
  /\ me.pc = "reconcile"
  /\ \E listed \in BOOLEAN, kalshi \in Stamps \cup {Nil} :
       LET live == IF listed THEN actual[o] ELSE kalshi
           moved == /\ active[o] /\ live # Nil /\ me.stored # Nil
                    /\ Differs(live, me.stored)
       IN /\ start' = IF moved THEN [start EXCEPT ![o] = live] ELSE start
          /\ worker' = [worker EXCEPT
               ![w] = IF moved /\ live > me.at
                      THEN [Idle EXCEPT !.pc = "rearm", !.opp = o]
                      ELSE [me EXCEPT !.pc = "guard", !.stored = Nil, !.listed = listed]]
  /\ UNCHANGED <<world, up, logged, outcome, armed, cycle, faults>>

\* capture_job on {"action": "rescheduled"}
Reschedule(w) ==
  /\ worker[w].pc = "rearm"
  /\ worker' = [worker EXCEPT ![w] = Idle]
  /\ armed' = Scheduled(armed)
  /\ UNCHANGED <<world, up, rows, cycle, faults>>

\* A read failed: capture_job starts over, or gives up and leaves the row
\* pending with no job; a failed /close command simply ends.
CaptureFails(w) ==
  LET me == worker[w] IN
  /\ me.pc \in {"reconcile", "snap"} /\ Fault
  /\ worker' = [worker EXCEPT ![w] =
       IF me.by = "auto" /\ me.tries + 1 < MaxTries
       THEN [Idle EXCEPT !.pc = "start", !.opp = me.opp, !.tries = me.tries + 1]
       ELSE Idle]
  /\ UNCHANGED <<world, up, rows, armed, cycle>>

-----------------------------------------------------------------------------
(* capture_close, on the thread of a capture_job or of a /close command.   *)

\* A batch /close goes on with its next row, in id order.
First(todo) == CHOOSE o \in todo : \A p \in todo : o <= p

\* Variant: the guards run for the first row of a batch only.
NextRowUnguarded(me) ==
  IF me.todo = {} THEN Idle
  ELSE [me EXCEPT !.pc = "snap", !.opp = First(me.todo), !.todo = @ \ {First(me.todo)}]

NextRow(me) ==
  IF me.todo = {} THEN Idle
  ELSE [me EXCEPT !.pc = "guard", !.opp = First(me.todo), !.todo = @ \ {First(me.todo)}]

\* What is left to know once the attempt is lost.
Missing(me) == [Idle EXCEPT !.pc = "miss", !.opp = me.opp, !.todo = me.todo, !.by = me.by]

\* Commands run one after the other.
NoCommandRuns == \A v \in Workers : worker[v].pc = "idle" \/ worker[v].by = "auto"

RunClose(w, o, todo, force) ==
  /\ up /\ worker[w].pc = "idle" /\ NoCommandRuns
  /\ worker' = [worker EXCEPT ![w] = [Idle EXCEPT !.pc = "guard", !.opp = o, !.todo = todo,
                                                  !.by = "manual", !.force = force]]
  /\ UNCHANGED <<world, up, rows, armed, cycle, faults>>

CloseOne(w, o) == o \in logged /\ \E force \in BOOLEAN : RunClose(w, o, {}, force)
CloseAll(w) ==
  /\ PendingCaptures # {}
  /\ LET o == First(PendingCaptures) IN RunClose(w, o, PendingCaptures \ {o}, FALSE)

\* The idempotence test and the guards on the stored start, up to the network.
CloseGuards(w) ==
  LET me == worker[w]
      o == me.opp
      at == IF me.by = "auto" THEN me.at ELSE now
      unknown == start[o] = Nil /\ ~me.force
      late == start[o] # Nil /\ at > start[o] + LateGrace
      early == start[o] # Nil /\ ~me.force /\ start[o] - at > Earliest
  IN
  /\ me.pc = "guard"
  /\ worker' = [worker EXCEPT ![w] =
       IF Closed(outcome[o]) THEN NextRow(me)
       ELSE IF unknown \/ late THEN Missing(me)
       ELSE IF early THEN NextRow(me)
       ELSE [me EXCEPT !.pc = "snap", !.at = at]]
  /\ UNCHANGED <<world, up, rows, armed, cycle, faults>>

MarkMissed(w) ==
  LET me == worker[w] IN
  /\ me.pc = "miss"
  /\ outcome' = [outcome EXCEPT ![me.opp] = MergeMissed(@, now, me.by)]
  /\ worker' = [worker EXCEPT ![w] = NextRow(me)]
  /\ UNCHANGED <<world, up, logged, start, armed, cycle, faults>>

\* The market is closed, or neither its book nor the sharp feed gives a price.
NothingToRecord(w, twoSided, sharp) ==
  LET me == worker[w] IN
  /\ ~active[me.opp] \/ (~twoSided /\ ~sharp)
  /\ worker' = [worker EXCEPT ![w] = Missing(me)]
  /\ UNCHANGED outcome

RecordClose(w, twoSided, sharp) ==
  LET me == worker[w] IN
  /\ active[me.opp] /\ (twoSided \/ sharp)
  /\ outcome' = [outcome EXCEPT ![me.opp] =
       IF twoSided THEN MergeMid(@, me.at, me.by, sharp)
       ELSE MergeSharpOnly(@, me.at, me.by)]
  /\ worker' = [worker EXCEPT ![w] = NextRow(me)]

\* The auto path prices off the board it already fetched for the start time.
Snapshot(w) ==
  LET me == worker[w] IN
  /\ me.pc = "snap"
  /\ \E twoSided \in BOOLEAN, sharp \in BOOLEAN :
       /\ sharp => (me.by = "manual" \/ me.listed)
       /\ NothingToRecord(w, twoSided, sharp) \/ RecordClose(w, twoSided, sharp)
  /\ UNCHANGED <<world, up, logged, start, armed, cycle, faults>>

-----------------------------------------------------------------------------
(* The process dies with its threads, timers and scan; startup rebuilds    *)
(* the timers from the database.                                           *)

Crash ==
  /\ up /\ Fault /\ up' = FALSE
  /\ armed' = [o \in Opps |-> Nil]
  /\ worker' = [w \in Workers |-> Idle]
  /\ scan' = "idle" /\ fresh' = {} /\ restamped' = {} /\ entry' = NoEntry
  /\ UNCHANGED <<world, rows>>

OnStartup ==
  /\ ~up /\ up' = TRUE /\ armed' = Scheduled(armed)
  /\ UNCHANGED <<world, rows, worker, cycle, faults>>

-----------------------------------------------------------------------------
Capture(w) == BeginAttempt(w) \/ Reconcile(w) \/ Reschedule(w) \/ CloseGuards(w)
              \/ MarkMissed(w) \/ Snapshot(w)

ScanCycle == ScanBegins \/ ScanSchedules \/ ScanAnnounces \/ ScanEnds
             \/ \E o \in Opps : SharpReads(o) \/ SharpEntry(o)

Next ==
  \/ Tick \/ \E o \in Opps : Postpone(o) \/ MarketCloses(o)
  \/ \E o \in Opps : LogOpportunity(o)
  \/ CommandSchedules \/ ScanCycle \/ ScanAborts
  \/ \E w \in Workers : Capture(w) \/ CaptureFails(w) \/ CloseAll(w)
  \/ \E w \in Workers, o \in Opps : FireJob(o, w) \/ CloseOne(w, o)
  \/ Crash \/ OnStartup

Spec == Init /\ [][Next]_vars

(* Time passes; the 8-hourly scan comes round and its steps go on; a       *)
(* capture thread goes on; a due timer gets a thread (the pool is larger   *)
(* than the commands that compete for it); the container restarts.         *)
Fairness ==
  /\ WF_vars(Tick) /\ WF_vars(ScanCycle) /\ WF_vars(OnStartup)
  /\ \A w \in Workers : WF_vars(Capture(w))
  /\ \A o \in Opps : SF_vars(\E w \in Workers : FireJob(o, w))

FairSpec == Spec /\ Fairness
-----------------------------------------------------------------------------
(* Properties. *)

\* What a close must look like: a price, its instant, and a label that is not a miss.
Closes ==
  {row \in Row : /\ row.mid \/ row.sharp
                 /\ row.at # Nil /\ row.source # Nil /\ row.source.kind # "missed"}

\* The capture component read as the abstract log: a row without a price is
\* unrecorded there, whatever attempts were missed.
Recorded(row) == IF row.mid \/ row.sharp THEN row ELSE NoOutcome

Log == INSTANCE CloseOnce WITH
         Unrecorded <- NoOutcome,
         log <- [o \in Opps |-> Recorded(outcome[o])]

\* bot.capture_close, "Idempotent": while captures run one at a time, the log of
\* closing lines is write-once, whatever is crashed, retried, forced or moved.
WriteOnce == Log!Spec

\* storage.record_outcome merges: no later write of any thread may erase a
\* Kalshi mid that was recorded.
KalshiCloseKept ==
  [][\A o \in Opps : outcome[o].mid => outcome'[o].mid]_vars

\* bot.capture_close, "FAIL-CLOSED": while a row's start is unknown, no thread
\* records a close for it -- no timer, and no batch /close, whichever row the
\* batch is at -- except the one the owner started with `/close <id> pre`.
FailClosed ==
  [][\A o \in Opps :
       start[o] = Nil /\ ~Closed(outcome[o]) /\ Closed(outcome'[o]) =>
         \E w \in Workers : worker[w].opp = o /\ worker[w].force]_vars

\* bot.auto_capture, "closing the CLV-poison gap": a close that a timer took
\* with the sharp feed listing the match is dated before the match was really
\* under way, up to the grace and the drift the code tolerates, although Kalshi
\* trades in play and its stamp may say anything.
NoInPlayClose ==
  \A o \in Opps : LET row == outcome[o] IN
    row.source # Nil /\ row.sharp =>
      (row.source.by = "auto" /\ row.source.kind # "missed" =>
         row.at <= actual[o] + LateGrace + Epsilon)

\* storage.untimed_pending, "they never auto-capture": a row whose start is not
\* known leaves the work list by the owner's /close alone.
UntimedNeedsOwner ==
  [][\A o \in PendingCaptures :
       start[o] = Nil /\ ~Pending(outcome'[o]) => outcome'[o].source.by = "manual"]_vars

\* bot.capture_job, "The next scheduled scan / startup re-arms it": every pending
\* row with a start is settled, with a close or as missed, although attempts
\* fail, timers are lost in a restart and matches are postponed.
TimedRowsSettle ==
  \A o \in Opps : (o \in PendingCaptures /\ start[o] # Nil) ~> ~Pending(outcome[o])
=============================================================================
