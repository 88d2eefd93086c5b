----------------------- MODULE ClosingCapture_proofs ------------------------
(***************************************************************************)
(* Theorems about ClosingCapture, for every set of rows, threads and start *)
(* times.                                                                  *)
(*                                                                         *)
(* Inv is inductive.  It says where a start time is known: a timer exists  *)
(* for a logged row with a start only, so a thread of a timer works on     *)
(* such a row; any other thread reaches the snapshot of a row without a    *)
(* start only when it was forced.                                          *)
(***************************************************************************)
EXTENDS ClosingCapture, WellFoundedInduction, TLAPS

TimersTimed == \A o \in Opps : armed[o] # Nil => o \in logged /\ start[o] # Nil

Fit(me) ==
  me.pc # "idle" =>
    /\ me.opp \in logged /\ me.todo \subseteq logged
    /\ me.by = "auto" => me.todo = {} /\ start[me.opp] # Nil
    /\ me.pc = "snap" => start[me.opp] # Nil \/ me.force

ThreadsFit == \A w \in Workers : Fit(worker[w])

Inv == TypeOK /\ TimersTimed /\ ThreadsFit

-----------------------------------------------------------------------------
(* The operators. *)

\* No instant is NULL.
LEMMA TimeNotNil == \A t \in Time : t \in Int /\ t # Nil
BY MaxTimeAssumption, NilAssumption DEF Time

\* The first row of a batch is one of its rows.
LEMMA FirstInTodo ==
  ASSUME NEW todo \in SUBSET Opps, todo # {}
  PROVE  First(todo) \in todo
<1>1. todo \subseteq Nat BY OppsAssumption
<1>2. PICK Less : /\ IsWellFoundedOn(Less, Nat)
                  /\ \A m, n \in Nat : m < n => <<m, n>> \in Less
  <2>1. \A m, n \in Nat : m < n => <<m, n>> \in OpToRel(<, Nat) BY DEF OpToRel
  <2> QED BY <2>1, NatLessThanWellFounded
<1>3. PICK o \in todo : \A p \in todo : <<p, o>> \notin Less
  <2>1. IsWellFoundedOn(Less, Nat) BY <1>2
  <2> QED BY <1>1, <2>1, WFMin
<1>4. ASSUME NEW p \in todo PROVE o <= p
  <2>1. o \in Nat /\ p \in Nat BY <1>1
  <2>2. ~(p < o) BY <1>2, <1>3, <2>1
  <2> QED BY <2>1, <2>2
<1> QED BY <1>4 DEF First

\* An idle thread is a thread.
LEMMA IdleType == Idle \in WorkerStates
BY MaxTimeAssumption, BoundAssumption DEF Idle, WorkerStates, Writers, Time

\* No entry is an entry.
LEMMA NoEntryType == NoEntry \in Entries
BY MaxTimeAssumption DEF NoEntry, Entries, Time

\* A thread that goes on with its batch stays a thread, of the same kind, on a
\* row of the batch.
LEMMA NextRowType ==
  ASSUME NEW me \in WorkerStates
  PROVE  /\ NextRow(me) \in WorkerStates
         /\ me.todo = {} => NextRow(me) = Idle
         /\ me.todo # {} => /\ NextRow(me).pc = "guard" /\ NextRow(me).by = me.by
                            /\ NextRow(me).opp \in me.todo
                            /\ NextRow(me).todo \subseteq me.todo
<1>1. CASE me.todo = {} BY <1>1, IdleType DEF NextRow
<1>2. CASE me.todo # {}
  <2>1. me.todo \in SUBSET Opps BY DEF WorkerStates
  <2>2. First(me.todo) \in me.todo BY <1>2, <2>1, FirstInTodo
  <2> QED BY <1>2, <2>1, <2>2 DEF NextRow, WorkerStates
<1> QED BY <1>1, <1>2

\* A thread that lost its attempt keeps its row, its batch and its kind.
LEMMA MissingType ==
  ASSUME NEW me \in WorkerStates
  PROVE  /\ Missing(me) \in WorkerStates
         /\ Missing(me).pc = "miss" /\ Missing(me).by = me.by
         /\ Missing(me).opp = me.opp /\ Missing(me).todo = me.todo
BY IdleType DEF Missing, WorkerStates, Idle

\* Arming gives a fire time to pending rows that have a start, and leaves every
\* timer that is set.
LEMMA ScheduledTimers ==
  ASSUME TypeOK, NEW j \in [Opps -> Time \cup {Nil}]
  PROVE  /\ Scheduled(j) \in [Opps -> Time \cup {Nil}]
         /\ \A o \in Opps : Scheduled(j)[o] # Nil =>
              j[o] # Nil \/ (o \in logged /\ start[o] # Nil)
<1>1. \A o \in Opps : start[o] # Nil => FireTime(start[o]) \in Time
  BY MaxTimeAssumption, WindowAssumption DEF TypeOK, FireTime, Time
<1> QED BY <1>1 DEF Scheduled, PendingCaptures

\* So does re-arming, for the rows whose start moved.
LEMMA RearmedTimers ==
  ASSUME TypeOK, NEW moved \in SUBSET Opps
  PROVE  /\ Rearmed(armed, moved) \in [Opps -> Time \cup {Nil}]
         /\ \A o \in Opps : Rearmed(armed, moved)[o] # Nil =>
              armed[o] # Nil \/ (o \in logged /\ start[o] # Nil)
<1> DEFINE j == [o \in Opps |-> IF o \in moved THEN Nil ELSE armed[o]]
<1>1. j \in [Opps -> Time \cup {Nil}] BY DEF TypeOK
<1>2. /\ Scheduled(j) \in [Opps -> Time \cup {Nil}]
      /\ \A o \in Opps : Scheduled(j)[o] # Nil => j[o] # Nil \/ (o \in logged /\ start[o] # Nil)
  BY <1>1, ScheduledTimers
<1>3. \A o \in Opps : j[o] # Nil => armed[o] # Nil OBVIOUS
<1>4. armed \in [Opps -> Time \cup {Nil}] BY DEF TypeOK
<1>5. Rearmed(armed, moved) = IF moved = {} THEN armed ELSE Scheduled(j) BY DEF Rearmed
<1> HIDE DEF j
<1> QED BY <1>2, <1>3, <1>4, <1>5

-----------------------------------------------------------------------------
(* The invariant is inductive. *)

\* No row is forgotten, and no start of a logged row becomes unknown again.
StartsKept == /\ logged \subseteq logged'
              /\ \A o \in logged : start[o] # Nil => start'[o] # Nil

\* A step of one thread: only that thread has to be looked at.
LEMMA ThreadStep ==
  ASSUME Inv, StartsKept, NEW w \in Workers, NEW me \in WorkerStates, Fit(me)',
         worker' = [worker EXCEPT ![w] = me]
  PROVE  worker' \in [Workers -> WorkerStates] /\ ThreadsFit'
<1>1. worker \in [Workers -> WorkerStates] BY DEF Inv, TypeOK
<1>2. ASSUME NEW v \in Workers PROVE Fit(worker[v])'
  <2>1. CASE v = w BY <1>1, <2>1 DEF Fit
  <2>2. CASE v # w
    <3>1. worker'[v] = worker[v] /\ worker[v] \in WorkerStates BY <1>1, <2>2
    <3>2. Fit(worker[v]) BY DEF Inv, ThreadsFit
    <3> QED BY <3>1, <3>2 DEF Fit, StartsKept
  <2> QED BY <2>1, <2>2
<1> QED BY <1>1, <1>2 DEF ThreadsFit, Fit

\* A step that leaves the threads alone.
LEMMA ThreadsStay ==
  ASSUME Inv, StartsKept, UNCHANGED worker
  PROVE  ThreadsFit'
<1>1. worker \in [Workers -> WorkerStates] BY DEF Inv, TypeOK
<1> QED BY <1>1 DEF Inv, ThreadsFit, Fit, StartsKept

\* The initial states satisfy the invariant.
LEMMA InitInv == Init => Inv
<1> SUFFICES ASSUME Init PROVE Inv OBVIOUS
<1>1. NoOutcome \in Row BY DEF NoOutcome, Row
<1>2. TypeOK
  BY <1>1, IdleType, NoEntryType, MaxTimeAssumption, BoundAssumption DEF Init, TypeOK, Time
<1>3. TimersTimed /\ ThreadsFit BY DEF Init, TimersTimed, ThreadsFit, Fit, Idle
<1> QED BY <1>2, <1>3 DEF Inv

\* The world and the clock move no start, no timer and no thread.
LEMMA WorldStep ==
  ASSUME Inv, Tick \/ \E o \in Opps : Postpone(o) \/ MarketCloses(o)
  PROVE  Inv'
<1>1. UNCHANGED <<up, rows, armed, worker, scan, fresh, restamped, faults>>
  BY DEF Tick, Postpone, MarketCloses, cycle
<1>2. /\ now' \in Time /\ actual' \in [Opps -> Stamps] /\ active' \in [Opps -> BOOLEAN]
      /\ entry' \in Entries
  <2>1. CASE Tick BY <2>1, MaxTimeAssumption DEF Inv, TypeOK, Tick, Time, cycle
  <2>2. ASSUME NEW o \in Opps, Postpone(o)
        PROVE  now' \in Time /\ actual' \in [Opps -> Stamps] /\ active' \in [Opps -> BOOLEAN]
    BY <2>2 DEF Inv, TypeOK, Postpone
  <2>3. ASSUME NEW o \in Opps, Postpone(o) PROVE entry' \in Entries
    <3>1. entry \in Entries BY DEF Inv, TypeOK
    <3>2. PICK t \in Stamps :
            entry' = [entry EXCEPT !.posted[o] = IF @ = {} THEN {} ELSE @ \cup {t}]
      BY <2>3 DEF Postpone
    <3> QED BY <3>1, <3>2 DEF Entries
  <2>4. ASSUME NEW o \in Opps, MarketCloses(o)
        PROVE  /\ now' \in Time /\ actual' \in [Opps -> Stamps] /\ active' \in [Opps -> BOOLEAN]
               /\ entry' \in Entries
    BY <2>4 DEF Inv, TypeOK, MarketCloses, cycle
  <2> QED BY <2>1, <2>2, <2>3, <2>4
<1>3. TypeOK' BY <1>1, <1>2 DEF Inv, TypeOK, rows
<1>4. TimersTimed' BY <1>1 DEF Inv, TimersTimed, rows
<1>5. StartsKept BY <1>1 DEF StartsKept, rows
<1> QED BY <1>1, <1>3, <1>4, <1>5, ThreadsStay DEF Inv

\* A new row is no row of a timer or of a thread.
LEMMA LogOpportunityStep ==
  ASSUME Inv, NEW o \in Opps, LogOpportunity(o)
  PROVE  Inv'
<1> USE DEF LogOpportunity
<1>1. UNCHANGED <<world, up, outcome, armed, worker, scan, restamped, entry, faults>> OBVIOUS
<1>2. /\ start' \in [Opps -> Time \cup {Nil}]
      /\ \A p \in Opps : p # o => start'[p] = start[p]
  BY StampsAssumption DEF Inv, TypeOK
<1>3. fresh' \in SUBSET Opps /\ logged' \in SUBSET Opps BY DEF Inv, TypeOK
<1>4. TypeOK' BY <1>1, <1>2, <1>3 DEF Inv, TypeOK, world
<1>5. TimersTimed' BY <1>1, <1>2 DEF Inv, TimersTimed
<1>6. StartsKept BY <1>2 DEF StartsKept, Inv, TypeOK
<1> QED BY <1>1, <1>4, <1>5, <1>6, ThreadsStay DEF Inv

\* Arming keeps the invariant, whichever step of the event loop does it.
LEMMA ArmingStep ==
  ASSUME Inv, NEW moved \in SUBSET Opps, UNCHANGED <<world, rows, worker>>,
         armed' = Scheduled(armed) \/ armed' = Rearmed(armed, moved),
         up' \in BOOLEAN, scan' \in {"idle", "sweep", "dm", "sharp"},
         fresh' \in SUBSET Opps, restamped' \in SUBSET Opps, entry' \in Entries,
         faults' \in 0..MaxFaults
  PROVE  Inv'
<1>1. /\ armed' \in [Opps -> Time \cup {Nil}]
      /\ \A o \in Opps : armed'[o] # Nil => armed[o] # Nil \/ (o \in logged /\ start[o] # Nil)
  BY ScheduledTimers, RearmedTimers DEF Inv, TypeOK
<1>2. TypeOK' BY <1>1 DEF Inv, TypeOK, world, rows
<1>3. TimersTimed' BY <1>1 DEF Inv, TimersTimed, rows
<1>4. StartsKept BY DEF StartsKept, rows
<1> QED BY <1>2, <1>3, <1>4, ThreadsStay DEF Inv

\* The commands and the scan cycle.
LEMMA ScanStep ==
  ASSUME Inv, CommandSchedules \/ ScanCycle \/ ScanAborts
  PROVE  Inv'
<1>1. CASE CommandSchedules
  BY <1>1, ArmingStep DEF CommandSchedules, Inv, TypeOK, cycle
<1>2. CASE ScanSchedules
  BY <1>2, ArmingStep DEF ScanSchedules, Inv, TypeOK
<1>3. CASE ScanEnds
  BY <1>3, ArmingStep DEF ScanEnds, Inv, TypeOK
<1>4. CASE ScanBegins \/ ScanAnnounces \/ ScanAborts \/ \E o \in Opps : SharpReads(o)
  <2>1. UNCHANGED <<world, up, rows, armed, worker, restamped>>
    BY <1>4 DEF ScanBegins, ScanAnnounces, ScanAborts, SharpReads
  <2>2. /\ scan' \in {"idle", "sweep", "dm", "sharp"} /\ fresh' \in SUBSET Opps
        /\ faults' \in 0..MaxFaults
    <3>1. /\ scan \in {"idle", "sweep", "dm", "sharp"} /\ fresh \in SUBSET Opps
          /\ faults \in 0..MaxFaults
      BY DEF Inv, TypeOK
    <3>2. CASE ScanBegins BY <3>1, <3>2 DEF ScanBegins
    <3>3. CASE ScanAnnounces BY <3>1, <3>3 DEF ScanAnnounces
    <3>4. CASE ScanAborts
      <4>1. scan' = "idle" /\ fresh' = {} BY <3>4 DEF ScanAborts
      <4>2. faults' \in 0..MaxFaults
        BY <3>1, <3>4, BoundAssumption DEF ScanAborts, Fault
      <4> QED BY <4>1, <4>2
    <3>5. ASSUME NEW o \in Opps, SharpReads(o)
          PROVE  UNCHANGED <<scan, fresh, faults>>
      BY <3>5 DEF SharpReads
    <3> QED BY <1>4, <3>1, <3>2, <3>3, <3>4, <3>5
  <2>3. entry' \in Entries
    <3>1. entry \in Entries /\ actual \in [Opps -> Stamps] /\ now \in Time
          /\ start \in [Opps -> Time \cup {Nil}]
      BY DEF Inv, TypeOK
    <3>2. CASE ScanBegins \/ ScanAborts BY <3>1, <3>2 DEF ScanBegins, ScanAborts
    <3>3. CASE ScanAnnounces
      <4>1. [o \in Opps |-> IF o \in fresh THEN {actual[o]} ELSE {}] \in [Opps -> SUBSET Stamps]
        BY <3>1
      <4> QED BY <3>1, <3>3, <4>1, NoEntryType DEF ScanAnnounces, Entries
    <3>4. ASSUME NEW o \in Opps, SharpReads(o) PROVE entry' \in Entries
      BY <3>1, <3>4 DEF SharpReads, Entries
    <3> QED BY <1>4, <3>2, <3>3, <3>4
  <2>4. TypeOK' BY <2>1, <2>2, <2>3 DEF Inv, TypeOK, world, rows
  <2>5. TimersTimed' BY <2>1 DEF Inv, TimersTimed, rows
  <2>6. StartsKept BY <2>1 DEF StartsKept, rows
  <2> QED BY <2>1, <2>4, <2>5, <2>6, ThreadsStay DEF Inv
<1>5. ASSUME NEW o \in Opps, SharpEntry(o) PROVE Inv'
  <2>1. UNCHANGED <<world, up, logged, outcome, armed, worker, scan, faults>>
    BY <1>5 DEF SharpEntry
  <2>2. /\ start' \in [Opps -> Time \cup {Nil}]
        /\ \A p \in Opps : start[p] # Nil => start'[p] # Nil
        /\ fresh' \in SUBSET Opps /\ restamped' \in SUBSET Opps
    <3>1. entry.posted[o] \in SUBSET Stamps BY DEF Inv, TypeOK, Entries
    <3>2. PICK s \in Stamps : start' = start \/ start' = [start EXCEPT ![o] = s]
      <4>1. actual[o] \in Stamps BY DEF Inv, TypeOK
      <4>2. CASE UNCHANGED start BY <4>1, <4>2
      <4>3. CASE \E s \in entry.posted[o] : start' = [start EXCEPT ![o] = s]
        BY <3>1, <4>3
      <4> QED BY <1>5, <4>2, <4>3 DEF SharpEntry
    <3>3. s \in Time /\ s # Nil BY StampsAssumption, TimeNotNil
    <3>4. fresh' = fresh \ {o} /\ (restamped' = restamped \/ restamped' = restamped \cup {o})
      BY <1>5 DEF SharpEntry
    <3>5. start \in [Opps -> Time \cup {Nil}] /\ fresh \in SUBSET Opps /\ restamped \in SUBSET Opps
      BY DEF Inv, TypeOK
    <3>6. /\ start' \in [Opps -> Time \cup {Nil}]
          /\ \A p \in Opps : start[p] # Nil => start'[p] # Nil
      BY <3>2, <3>3, <3>5
    <3> QED BY <3>4, <3>5, <3>6
  <2>3. entry' \in Entries
    <3>1. entry \in Entries BY DEF Inv, TypeOK
    <3> QED BY <1>5, <3>1, NoEntryType DEF SharpEntry, Entries
  <2>4. TypeOK' BY <2>1, <2>2, <2>3 DEF Inv, TypeOK, world
  <2>5. TimersTimed' BY <2>1, <2>2 DEF Inv, TimersTimed
  <2>6. StartsKept BY <2>1, <2>2 DEF StartsKept, Inv, TypeOK
  <2> QED BY <2>1, <2>4, <2>5, <2>6, ThreadsStay DEF Inv
<1> QED BY <1>1, <1>2, <1>3, <1>4, <1>5 DEF ScanCycle

\* The process dies, or comes back.
LEMMA ProcessStep ==
  ASSUME Inv, Crash \/ OnStartup
  PROVE  Inv'
<1>1. CASE OnStartup BY <1>1, ArmingStep DEF OnStartup, Inv, TypeOK, cycle
<1>2. CASE Crash
  <2>1. /\ armed' \in [Opps -> Time \cup {Nil}] /\ worker' \in [Workers -> WorkerStates]
        /\ fresh' \in SUBSET Opps /\ restamped' \in SUBSET Opps /\ entry' \in Entries
    BY <1>2, IdleType, NoEntryType DEF Crash
  <2>2. /\ scan' \in {"idle", "sweep", "dm", "sharp"} /\ up' \in BOOLEAN
        /\ faults' \in 0..MaxFaults
    <3>1. faults' \in 0..MaxFaults
      BY <1>2, BoundAssumption DEF Crash, Fault, Inv, TypeOK
    <3>2. scan' = "idle" /\ up' = FALSE BY <1>2 DEF Crash
    <3> QED BY <3>1, <3>2
  <2>3. UNCHANGED <<world, rows>> BY <1>2 DEF Crash
  <2>4. TypeOK' BY <2>1, <2>2, <2>3 DEF Inv, TypeOK, world, rows
  <2>5. TimersTimed' /\ ThreadsFit'
    BY <1>2 DEF Crash, TimersTimed, ThreadsFit, Fit, Idle
  <2> QED BY <2>4, <2>5 DEF Inv
<1> QED BY <1>1, <1>2

\* A thread that moves on without a write.
LEMMA QuietStep ==
  ASSUME Inv, NEW w \in Workers, NEW me \in WorkerStates, Fit(me),
         worker' = [worker EXCEPT ![w] = me],
         UNCHANGED <<world, up, rows, cycle>>, faults' \in 0..MaxFaults,
         \/ UNCHANGED armed
         \/ \E o \in Opps : armed' = [armed EXCEPT ![o] = Nil]
         \/ armed' = Scheduled(armed)
  PROVE  Inv'
<1>1. StartsKept BY DEF StartsKept, rows
<1>2. Fit(me)' BY DEF Fit, rows
<1>3. worker' \in [Workers -> WorkerStates] /\ ThreadsFit' BY <1>1, <1>2, ThreadStep
<1>4. /\ armed' \in [Opps -> Time \cup {Nil}]
      /\ \A o \in Opps : armed'[o] # Nil => armed[o] # Nil \/ (o \in logged /\ start[o] # Nil)
  BY ScheduledTimers DEF Inv, TypeOK
<1>5. TypeOK' BY <1>3, <1>4 DEF Inv, TypeOK, world, rows, cycle
<1>6. TimersTimed' BY <1>4 DEF Inv, TimersTimed, rows
<1> QED BY <1>3, <1>5, <1>6 DEF Inv

\* What the invariant says of one thread.
LEMMA ThreadFacts ==
  ASSUME Inv, NEW w \in Workers
  PROVE  worker[w] \in WorkerStates /\ Fit(worker[w])
BY DEF Inv, TypeOK, ThreadsFit

\* A timer fires.
LEMMA FireJobStep ==
  ASSUME Inv, NEW o \in Opps, NEW w \in Workers, FireJob(o, w)
  PROVE  Inv'
<1> DEFINE me == [Idle EXCEPT !.pc = "start", !.opp = o]
<1>1. me \in WorkerStates BY IdleType DEF WorkerStates
<1>2. Fit(me) BY DEF FireJob, Inv, TimersTimed, Fit, Idle
<1> HIDE DEF me
<1>3. worker' = [worker EXCEPT ![w] = me] BY DEF FireJob, me
<1>4. faults' \in 0..MaxFaults BY DEF FireJob, Inv, TypeOK
<1> QED BY <1>1, <1>2, <1>3, <1>4, QuietStep DEF FireJob

\* An attempt begins, or ends by arming the row again.
LEMMA AttemptStep ==
  ASSUME Inv, NEW w \in Workers, BeginAttempt(w) \/ Reschedule(w)
  PROVE  Inv'
<1>1. faults' \in 0..MaxFaults BY DEF BeginAttempt, Reschedule, Inv, TypeOK
<1>2. CASE BeginAttempt(w)
  <2> DEFINE old == worker[w]
             me == [old EXCEPT !.pc = "reconcile", !.at = now, !.stored = start[old.opp]]
  <2>1. old \in WorkerStates /\ Fit(old) /\ old.pc = "start"
    BY <1>2, ThreadFacts DEF BeginAttempt
  <2>2. start[old.opp] \in Time \cup {Nil} /\ now \in Time
    BY <2>1 DEF Inv, TypeOK, Fit
  <2>3. me \in WorkerStates BY <2>1, <2>2 DEF WorkerStates
  <2>4. Fit(me) BY <2>1 DEF Fit, WorkerStates
  <2>5. worker' = [worker EXCEPT ![w] = me] BY <1>2 DEF BeginAttempt, Inv, TypeOK
  <2> HIDE DEF me
  <2> QED BY <1>1, <1>2, <2>3, <2>4, <2>5, QuietStep DEF BeginAttempt
<1>3. CASE Reschedule(w)
  <2>1. Fit(Idle) BY DEF Fit, Idle
  <2> QED BY <1>1, <1>3, <2>1, IdleType, QuietStep DEF Reschedule
<1> QED BY <1>2, <1>3

\* A failed read: the attempt starts over or is given up.
LEMMA CaptureFailsStep ==
  ASSUME Inv, NEW w \in Workers, CaptureFails(w)
  PROVE  Inv'
<1> DEFINE old == worker[w]
           again == [Idle EXCEPT !.pc = "start", !.opp = old.opp, !.tries = old.tries + 1]
<1>1. faults' \in 0..MaxFaults
  BY BoundAssumption DEF CaptureFails, Fault, Inv, TypeOK
<1>2. old \in WorkerStates /\ Fit(old) /\ old.pc # "idle"
  BY ThreadFacts DEF CaptureFails
<1>3. CASE old.by = "auto" /\ old.tries + 1 < MaxTries
  <2>1. again \in WorkerStates
    <3>1. old.tries + 1 \in 0..MaxTries BY <1>2, <1>3, BoundAssumption DEF WorkerStates
    <3>2. old.opp \in Opps \cup {Nil} BY <1>2 DEF WorkerStates
    <3> QED BY <3>1, <3>2, IdleType DEF WorkerStates
  <2>2. Fit(again) BY <1>2, <1>3 DEF Fit, Idle
  <2>3. worker' = [worker EXCEPT ![w] = again] BY <1>3 DEF CaptureFails
  <2> HIDE DEF again
  <2> QED BY <1>1, <2>1, <2>2, <2>3, QuietStep DEF CaptureFails
<1>4. CASE ~(old.by = "auto" /\ old.tries + 1 < MaxTries)
  <2>1. Fit(Idle) BY DEF Fit, Idle
  <2>2. worker' = [worker EXCEPT ![w] = Idle] BY <1>4 DEF CaptureFails
  <2> QED BY <1>1, <2>1, <2>2, IdleType, QuietStep DEF CaptureFails
<1> QED BY <1>3, <1>4

\* A command takes a logged row, or every pending one.
LEMMA CommandStep ==
  ASSUME Inv, NEW w \in Workers, CloseAll(w) \/ \E o \in Opps : CloseOne(w, o)
  PROVE  Inv'
<1>1. logged \in SUBSET Opps /\ faults \in 0..MaxFaults BY DEF Inv, TypeOK
<1>2. PICK o \in logged, todo \in SUBSET logged, force \in BOOLEAN : RunClose(w, o, todo, force)
  <2>1. CASE CloseAll(w)
    <3>1. PendingCaptures \subseteq logged BY DEF PendingCaptures
    <3>2. First(PendingCaptures) \in PendingCaptures
      BY <1>1, <2>1, <3>1, FirstInTodo DEF CloseAll
    <3> QED BY <2>1, <3>1, <3>2 DEF CloseAll
  <2>2. ASSUME NEW o \in Opps, CloseOne(w, o)
        PROVE  \E p \in logged, todo \in SUBSET logged, force \in BOOLEAN :
                 RunClose(w, p, todo, force)
    BY <2>2 DEF CloseOne
  <2> QED BY <2>1, <2>2
<1> DEFINE me == [Idle EXCEPT !.pc = "guard", !.opp = o, !.todo = todo,
                              !.by = "manual", !.force = force]
<1>3. me \in WorkerStates BY <1>1, IdleType DEF WorkerStates, Writers
<1>4. Fit(me) BY DEF Fit, Idle
<1>5. worker' = [worker EXCEPT ![w] = me] BY <1>2 DEF RunClose
<1> HIDE DEF me
<1> QED BY <1>1, <1>2, <1>3, <1>4, <1>5, QuietStep DEF RunClose

\* Going on with a batch, or with a miss, keeps a thread fit.
LEMMA FitNext ==
  ASSUME NEW me \in WorkerStates, Fit(me), me.pc # "idle"
  PROVE  Fit(NextRow(me)) /\ Fit(Missing(me))
<1>1. CASE me.todo = {} BY <1>1, NextRowType, MissingType DEF Fit, Idle
<1>2. CASE me.todo # {}
  <2>1. /\ NextRow(me).pc = "guard" /\ NextRow(me).by = me.by
        /\ NextRow(me).opp \in me.todo /\ NextRow(me).todo \subseteq me.todo
    BY <1>2, NextRowType
  <2>2. me.by # "auto" /\ me.todo \subseteq logged BY <1>2 DEF Fit
  <2>3. Fit(NextRow(me)) BY <2>1, <2>2 DEF Fit
  <2>4. Fit(Missing(me)) BY MissingType DEF Fit
  <2> QED BY <2>3, <2>4
<1> QED BY <1>1, <1>2

\* The guards: only a known start, or the owner's word, leads to the snapshot.
LEMMA CloseGuardsStep ==
  ASSUME Inv, NEW w \in Workers, CloseGuards(w)
  PROVE  Inv'
<1> DEFINE me == worker[w]
           at == IF me.by = "auto" THEN me.at ELSE now
           snap == [me EXCEPT !.pc = "snap", !.at = at]
<1>1. me \in WorkerStates /\ Fit(me) /\ me.pc = "guard" BY ThreadFacts DEF CloseGuards
<1>2. PICK next : /\ worker' = [worker EXCEPT ![w] = next]
                  /\ \/ next = NextRow(me) \/ next = Missing(me)
                     \/ next = snap /\ (start[me.opp] # Nil \/ me.force)
  BY DEF CloseGuards
<1>3. snap \in WorkerStates
  <2>1. at \in Time BY <1>1 DEF Inv, TypeOK, WorkerStates
  <2> HIDE DEF at
  <2> QED BY <1>1, <2>1 DEF WorkerStates
<1>4. start[me.opp] # Nil \/ me.force => Fit(snap) BY <1>1 DEF Fit, WorkerStates
<1>5. next \in WorkerStates /\ Fit(next)
  <2> HIDE DEF snap, me
  <2> QED BY <1>1, <1>2, <1>3, <1>4, NextRowType, MissingType, FitNext
<1>6. UNCHANGED <<world, up, rows, armed, cycle, faults>> BY DEF CloseGuards
<1>7. faults' \in 0..MaxFaults BY <1>6 DEF Inv, TypeOK
<1> QED BY <1>2, <1>5, <1>6, <1>7, QuietStep

\* A start is corrected to another start, never to an unknown one.
LEMMA ReconcileStep ==
  ASSUME Inv, NEW w \in Workers, Reconcile(w)
  PROVE  Inv'
<1> DEFINE me == worker[w]
           rearm == [Idle EXCEPT !.pc = "rearm", !.opp = me.opp]
           guard(listed) == [me EXCEPT !.pc = "guard", !.stored = Nil, !.listed = listed]
<1>1. me \in WorkerStates /\ Fit(me) /\ me.pc = "reconcile" BY ThreadFacts DEF Reconcile
<1>2. me.opp \in logged /\ me.opp \in Opps BY <1>1 DEF Fit, Inv, TypeOK
<1>3. UNCHANGED <<world, up, logged, outcome, armed, cycle, faults>> BY DEF Reconcile
<1>4. PICK listed \in BOOLEAN, kalshi \in Stamps \cup {Nil} :
        LET live == IF listed THEN actual[me.opp] ELSE kalshi
            moved == /\ active[me.opp] /\ live # Nil /\ me.stored # Nil
                     /\ Differs(live, me.stored)
        IN /\ start' = IF moved THEN [start EXCEPT ![me.opp] = live] ELSE start
           /\ worker' = [worker EXCEPT
                ![w] = IF moved /\ live > me.at THEN rearm ELSE guard(listed)]
  BY DEF Reconcile
<1> DEFINE live == IF listed THEN actual[me.opp] ELSE kalshi
           moved == /\ active[me.opp] /\ live # Nil /\ me.stored # Nil
                    /\ Differs(live, me.stored)
           next == IF moved /\ live > me.at THEN rearm ELSE guard(listed)
<1>5. /\ start' = IF moved THEN [start EXCEPT ![me.opp] = live] ELSE start
      /\ worker' = [worker EXCEPT ![w] = next]
  BY <1>4
<1>6. live \in Time \cup {Nil} /\ (moved => live # Nil)
  BY <1>2, StampsAssumption DEF Inv, TypeOK
<1>7. PICK new : /\ worker' = [worker EXCEPT ![w] = new]
                 /\ (new = rearm /\ moved) \/ new = guard(listed)
  BY <1>5
<1> HIDE DEF live, moved, next
<1>8. /\ start' \in [Opps -> Time \cup {Nil}]
      /\ \A o \in Opps : start[o] # Nil => start'[o] # Nil
      /\ moved => start'[me.opp] # Nil
  <2> HIDE DEF me
  <2> QED BY <1>2, <1>5, <1>6 DEF Inv, TypeOK
<1>9. StartsKept BY <1>3, <1>8 DEF StartsKept, Inv, TypeOK
<1>10. new \in WorkerStates /\ Fit(new)'
  <2>1. CASE new = guard(listed)
    <3>1. new \in WorkerStates BY <1>1, <2>1 DEF WorkerStates
    <3>2. /\ new.pc = "guard" /\ new.opp = me.opp /\ new.todo = me.todo /\ new.by = me.by
      BY <1>1, <2>1 DEF WorkerStates
    <3> HIDE DEF me, guard
    <3> QED BY <1>1, <1>3, <1>9, <3>1, <3>2 DEF Fit, StartsKept
  <2>2. CASE new = rearm /\ moved
    <3>1. new \in WorkerStates BY <1>2, <2>2, IdleType DEF WorkerStates
    <3>2. new.pc = "rearm" /\ new.opp = me.opp /\ new.todo = {} BY <2>2 DEF Idle
    <3> HIDE DEF me, rearm
    <3> QED BY <1>2, <1>3, <1>8, <2>2, <3>1, <3>2 DEF Fit
  <2> QED BY <1>7, <2>1, <2>2
<1>11. worker' \in [Workers -> WorkerStates] /\ ThreadsFit'
  BY <1>7, <1>9, <1>10, ThreadStep
<1>12. TypeOK' BY <1>3, <1>8, <1>11 DEF Inv, TypeOK, world, cycle
<1>13. TimersTimed' BY <1>3, <1>8 DEF Inv, TimersTimed
<1> QED BY <1>11, <1>12, <1>13 DEF Inv

\* The rows the three UPSERTs leave are rows.
LEMMA MergeType ==
  ASSUME NEW row \in Row, NEW t \in Time, NEW by \in Writers, NEW sharp \in BOOLEAN
  PROVE  /\ MergeMissed(row, t, by) \in Row
         /\ MergeSharpOnly(row, t, by) \in Row
         /\ MergeMid(row, t, by, sharp) \in Row
<1>1. \A kind \in Kinds : Source(kind, by) \in Sources BY DEF Source, Sources
<1> QED BY <1>1 DEF MergeMissed, MergeSharpOnly, MergeMid, Row, Kinds

\* What a thread that writes does to the log: a miss, or a close of its row.
Writes(w, row) ==
  LET me == worker[w]  old == outcome[me.opp] IN
  \/ me.pc = "miss" /\ row = MergeMissed(old, now, me.by)
  \/ /\ me.pc = "snap"
     /\ \/ \E sharp \in BOOLEAN : row = MergeMid(old, me.at, me.by, sharp)
        \/ row = MergeSharpOnly(old, me.at, me.by)

\* A step that marks a row missed, or records a close, is one such write.
LEMMA WritingStep ==
  ASSUME Inv, NEW w \in Workers, MarkMissed(w) \/ Snapshot(w)
  PROVE  /\ UNCHANGED <<world, up, logged, start, armed, cycle, faults>>
         /\ worker[w].opp \in Opps
         /\ worker' = [worker EXCEPT ![w] = NextRow(worker[w])]
            \/ worker' = [worker EXCEPT ![w] = Missing(worker[w])]
         /\ \/ UNCHANGED outcome
            \/ \E row \in Row : /\ Writes(w, row)
                                /\ outcome' = [outcome EXCEPT ![worker[w].opp] = row]
<1> DEFINE me == worker[w]
           old == outcome[me.opp]
<1>1. me \in WorkerStates /\ Fit(me) /\ me.pc \in {"miss", "snap"}
  BY ThreadFacts DEF MarkMissed, Snapshot
<1>2. me.opp \in Opps /\ old \in Row /\ now \in Time /\ me.at \in Time /\ me.by \in Writers
  <2>1. me.opp \in Opps BY <1>1 DEF Fit, Inv, TypeOK
  <2> QED BY <1>1, <2>1 DEF Inv, TypeOK, WorkerStates
<1>3. UNCHANGED <<world, up, logged, start, armed, cycle, faults>>
  BY DEF MarkMissed, Snapshot
<1>4. CASE MarkMissed(w)
  <2>1. MergeMissed(old, now, me.by) \in Row BY <1>2, MergeType
  <2>2. /\ outcome' = [outcome EXCEPT ![me.opp] = MergeMissed(old, now, me.by)]
        /\ worker' = [worker EXCEPT ![w] = NextRow(me)] /\ me.pc = "miss"
    BY <1>2, <1>4 DEF MarkMissed, Inv, TypeOK
  <2> QED BY <1>2, <1>3, <2>1, <2>2 DEF Writes
<1>5. CASE Snapshot(w)
  <2>1. PICK twoSided \in BOOLEAN, sharp \in BOOLEAN :
          NothingToRecord(w, twoSided, sharp) \/ RecordClose(w, twoSided, sharp)
    BY <1>5 DEF Snapshot
  <2>2. CASE NothingToRecord(w, twoSided, sharp)
    BY <1>2, <1>3, <2>2 DEF NothingToRecord
  <2>3. CASE RecordClose(w, twoSided, sharp)
    <3> DEFINE row == IF twoSided THEN MergeMid(old, me.at, me.by, sharp)
                      ELSE MergeSharpOnly(old, me.at, me.by)
    <3>1. row \in Row BY <1>2, MergeType
    <3>2. me.pc = "snap" BY <1>5 DEF Snapshot
    <3>3. Writes(w, row) BY <3>2 DEF Writes
    <3>4. /\ outcome' = [outcome EXCEPT ![me.opp] = row]
          /\ worker' = [worker EXCEPT ![w] = NextRow(me)]
      BY <1>2, <2>3 DEF RecordClose, Inv, TypeOK
    <3> HIDE DEF row
    <3> QED BY <1>2, <1>3, <3>1, <3>3, <3>4
  <2> QED BY <2>1, <2>2, <2>3
<1> QED BY <1>4, <1>5

\* Writing to the log moves no start and no timer.
LEMMA WritingStepInv ==
  ASSUME Inv, NEW w \in Workers, MarkMissed(w) \/ Snapshot(w)
  PROVE  Inv'
<1> DEFINE me == worker[w]
<1>1. UNCHANGED <<world, up, logged, start, armed, cycle, faults>> BY WritingStep
<1>2. me \in WorkerStates /\ Fit(me) /\ me.pc # "idle"
  BY ThreadFacts DEF MarkMissed, Snapshot
<1>3. PICK new : /\ worker' = [worker EXCEPT ![w] = new]
                 /\ new = NextRow(me) \/ new = Missing(me)
  BY WritingStep
<1>4. new \in WorkerStates /\ Fit(new)
  <2> HIDE DEF me
  <2> QED BY <1>2, <1>3, NextRowType, MissingType, FitNext
<1>5. StartsKept /\ Fit(new)' BY <1>1, <1>4 DEF StartsKept, Fit
<1>6. worker' \in [Workers -> WorkerStates] /\ ThreadsFit'
  BY <1>3, <1>4, <1>5, ThreadStep
<1>7. outcome' \in [Opps -> Row] BY WritingStep DEF Inv, TypeOK
<1>8. TypeOK' BY <1>1, <1>6, <1>7 DEF Inv, TypeOK, world, cycle
<1>9. TimersTimed' BY <1>1 DEF Inv, TimersTimed
<1> QED BY <1>6, <1>8, <1>9 DEF Inv

\* Every step preserves the invariant.
LEMMA NextInv == Inv /\ [Next]_vars => Inv'
<1> SUFFICES ASSUME Inv, [Next]_vars PROVE Inv' OBVIOUS
<1>1. CASE UNCHANGED vars
  BY <1>1 DEF vars, rows, world, cycle, Inv, TypeOK, TimersTimed, ThreadsFit, Fit
<1>2. CASE Tick \/ \E o \in Opps : Postpone(o) \/ MarketCloses(o) BY <1>2, WorldStep
<1>3. CASE \E o \in Opps : LogOpportunity(o) BY <1>3, LogOpportunityStep
<1>4. CASE CommandSchedules \/ ScanCycle \/ ScanAborts BY <1>4, ScanStep
<1>5. CASE Crash \/ OnStartup BY <1>5, ProcessStep
<1>6. ASSUME NEW w \in Workers, Capture(w) \/ CaptureFails(w) \/ CloseAll(w) PROVE Inv'
  BY <1>6, AttemptStep, ReconcileStep, CloseGuardsStep, WritingStepInv, CaptureFailsStep,
     CommandStep DEF Capture
<1>7. ASSUME NEW w \in Workers, NEW o \in Opps, FireJob(o, w) \/ CloseOne(w, o) PROVE Inv'
  BY <1>7, FireJobStep, CommandStep
<1> QED BY <1>1, <1>2, <1>3, <1>4, <1>5, <1>6, <1>7 DEF Next

\* The invariant holds of every behaviour.
THEOREM Invariance == Spec => []Inv
BY InitInv, NextInv, PTL DEF Spec

\* Every variable keeps its type, whatever is crashed, retried or interleaved.
THEOREM TypeCorrect == Spec => []TypeOK
<1>1. Inv => TypeOK BY DEF Inv
<1> QED BY <1>1, Invariance, PTL

-----------------------------------------------------------------------------
(* The action properties: the log changes by a thread that writes, only.   *)

\* A row of the log changes only by a thread's MarkMissed or Snapshot on it.
LEMMA LogChanges ==
  ASSUME Inv, [Next]_vars
  PROVE  \/ UNCHANGED outcome
         \/ \E w \in Workers : \E row \in Row :
              /\ Writes(w, row) /\ worker[w].opp \in Opps
              /\ outcome' = [outcome EXCEPT ![worker[w].opp] = row]
<1>1. ASSUME NEW w \in Workers, MarkMissed(w) \/ Snapshot(w)
      PROVE  \/ UNCHANGED outcome
             \/ \E row \in Row : /\ Writes(w, row) /\ worker[w].opp \in Opps
                                 /\ outcome' = [outcome EXCEPT ![worker[w].opp] = row]
  BY <1>1, WritingStep
<1>2. CASE UNCHANGED vars BY <1>2 DEF vars, rows
<1>3. CASE Next /\ ~\E w \in Workers : MarkMissed(w) \/ Snapshot(w)
  BY <1>3 DEF Next, Tick, Postpone, MarketCloses, LogOpportunity, CommandSchedules,
    ScanCycle, ScanBegins, ScanSchedules, ScanAnnounces, ScanEnds, SharpReads, SharpEntry,
    ScanAborts,
    Capture, BeginAttempt, Reconcile, Reschedule, CloseGuards, CaptureFails, CloseAll,
    CloseOne, RunClose, FireJob, Crash, OnStartup, rows
<1> QED BY <1>1, <1>2, <1>3

\* What one write means, in the terms of the properties.
LEMMA WriteFacts ==
  ASSUME Inv, NEW w \in Workers, worker[w].opp \in Opps, NEW row \in Row, Writes(w, row)
  PROVE  LET me == worker[w]  old == outcome[me.opp] IN
         /\ old \in Row
         /\ old.mid => row.mid
         /\ row.source # Nil /\ row.source.by = me.by /\ row.at # Nil
         /\ me.pc = "miss" => row.mid = old.mid /\ row.sharp = old.sharp
         /\ me.pc = "snap" => Closed(row) /\ row.source.kind # "missed"
         /\ me.pc \in {"miss", "snap"}
<1> DEFINE me == worker[w]
           old == outcome[me.opp]
<1>1. me \in WorkerStates /\ old \in Row /\ now \in Time BY ThreadFacts DEF Inv, TypeOK
<1>2. me.at \in Time /\ me.by \in Writers BY <1>1 DEF WorkerStates
<1>3. \A kind \in Kinds : Source(kind, me.by) \in Sources /\ Source(kind, me.by) # Nil
  BY <1>2, NilAssumption DEF Source, Sources
<1>4. now # Nil /\ me.at # Nil BY <1>1, <1>2, TimeNotNil
<1> HIDE DEF me, old
<1>5. CASE me.pc = "miss" /\ row = MergeMissed(old, now, me.by)
  BY <1>1, <1>3, <1>4, <1>5 DEF MergeMissed, Row, Source, Kinds, me, old
<1>6. ASSUME me.pc = "snap", NEW sharp \in BOOLEAN, row = MergeMid(old, me.at, me.by, sharp)
      PROVE  /\ row.mid /\ row.source # Nil /\ row.source.by = me.by /\ row.at # Nil
             /\ row.source.kind # "missed"
  BY <1>1, <1>3, <1>4, <1>6 DEF MergeMid, Row, Source, Kinds
<1>7. ASSUME me.pc = "snap", row = MergeSharpOnly(old, me.at, me.by)
      PROVE  /\ row.mid = old.mid /\ row.sharp /\ row.source # Nil
             /\ row.source.by = me.by /\ row.at # Nil /\ row.source.kind # "missed"
  BY <1>1, <1>3, <1>4, <1>7 DEF MergeSharpOnly, Row, Source, Kinds
<1> QED BY <1>1, <1>5, <1>6, <1>7 DEF Writes, Closed, me, old

\* No write of any thread erases a Kalshi mid that was recorded.
THEOREM KalshiMidIsKept == Spec => KalshiCloseKept
<1>1. ASSUME Inv, [Next]_vars
      PROVE  \A o \in Opps : outcome[o].mid => outcome'[o].mid
  BY <1>1, LogChanges, WriteFacts DEF Inv, TypeOK
<1>2. Inv /\ [Next]_vars => [\A o \in Opps : outcome[o].mid => outcome'[o].mid]_vars
  BY <1>1
<1> QED BY <1>2, Invariance, PTL DEF Spec, KalshiCloseKept

\* A row without a start leaves the work list by the owner's /close alone: a
\* thread of a timer only ever works on a row whose start is known.
THEOREM UntimedIsTheOwners == Spec => UntimedNeedsOwner
<1>1. ASSUME Inv, [Next]_vars, NEW o \in PendingCaptures, start[o] = Nil,
             ~Pending(outcome'[o])
      PROVE  outcome'[o].source.by = "manual"
  <2>1. o \in Opps /\ Pending(outcome[o]) BY <1>1 DEF PendingCaptures, Inv, TypeOK
  <2>2. PICK w \in Workers, row \in Row :
          /\ Writes(w, row) /\ worker[w].opp \in Opps
          /\ outcome' = [outcome EXCEPT ![worker[w].opp] = row]
    BY <1>1, <2>1, LogChanges
  <2>3. worker[w].opp = o /\ outcome'[o] = row
    BY <1>1, <2>1, <2>2 DEF Inv, TypeOK
  <2>4. row.source.by = worker[w].by /\ worker[w].pc # "idle"
    BY <1>1, <2>2, WriteFacts
  <2>5. worker[w] \in WorkerStates /\ Fit(worker[w]) BY <1>1, ThreadFacts
  <2> QED BY <1>1, <2>3, <2>4, <2>5 DEF Fit, WorkerStates, Writers
<1>2. Inv /\ [Next]_vars =>
        [\A o \in PendingCaptures :
           start[o] = Nil /\ ~Pending(outcome'[o]) => outcome'[o].source.by = "manual"]_vars
  BY <1>1
<1> QED BY <1>2, Invariance, PTL DEF Spec, UntimedNeedsOwner

\* No close is recorded for a row whose start is unknown, unless the owner said
\* that the match has not begun.
THEOREM CaptureFailsClosed == Spec => FailClosed
<1>1. ASSUME Inv, [Next]_vars, NEW o \in Opps,
             start[o] = Nil, ~Closed(outcome[o]), Closed(outcome'[o])
      PROVE  \E w \in Workers : worker[w].opp = o /\ worker[w].force
  <2>1. PICK w \in Workers, row \in Row :
          /\ Writes(w, row) /\ worker[w].opp \in Opps
          /\ outcome' = [outcome EXCEPT ![worker[w].opp] = row]
    BY <1>1, LogChanges
  <2>2. worker[w].opp = o /\ outcome'[o] = row
    BY <1>1, <2>1 DEF Inv, TypeOK
  <2>3. worker[w].pc = "snap"
    BY <1>1, <2>1, <2>2, WriteFacts DEF Closed
  <2>4. Fit(worker[w]) BY <1>1, ThreadFacts
  <2> QED BY <1>1, <2>2, <2>3, <2>4 DEF Fit
<1>2. Inv /\ [Next]_vars =>
        [\A o \in Opps :
           start[o] = Nil /\ ~Closed(outcome[o]) /\ Closed(outcome'[o]) =>
             \E w \in Workers : worker[w].opp = o /\ worker[w].force]_vars
  BY <1>1
<1> QED BY <1>2, Invariance, PTL DEF Spec, FailClosed

-----------------------------------------------------------------------------
(* The log is write-once as long as no two threads are between the         *)
(* idempotence test and the write of one row: nothing else can close a row *)
(* after the test of a capture and before the write the test lets through. *)

TestsApart == \A v, w \in Workers :
  v # w /\ worker[v].pc \in {"snap", "miss"} /\ worker[w].pc \in {"snap", "miss"} =>
    worker[v].opp # worker[w].opp

\* A pool of one thread, which keeps every two of them apart.
OneThread == \A v, w \in Workers : v = w

\* A thread past the idempotence test works on a row without a close.
TestStands == \A w \in Workers :
  worker[w].pc \in {"snap", "miss"} => ~Closed(outcome[worker[w].opp])

\* The test still stands after any step.
LEMMA TestStandsStep ==
  ASSUME TestsApart, Inv, TestStands, [Next]_vars
  PROVE  TestStands'
<1>1. worker \in [Workers -> WorkerStates] BY DEF Inv, TypeOK
<1>2. ASSUME NEW me \in WorkerStates
      PROVE  NextRow(me).pc \notin {"snap", "miss"}
  BY NextRowType DEF Idle
<1>3. ASSUME NEW w \in Workers, NEW new, UNCHANGED outcome,
             worker' = [worker EXCEPT ![w] = new], new.pc \notin {"snap", "miss"}
      PROVE  TestStands'
  BY <1>1, <1>3 DEF TestStands, Closed
<1>4. ASSUME NEW w \in Workers, NEW new, UNCHANGED outcome,
             worker' = [worker EXCEPT ![w] = new], ~Closed(outcome[new.opp])
      PROVE  TestStands'
  BY <1>1, <1>4 DEF TestStands, Closed
<1>5. CASE UNCHANGED <<worker, outcome>> BY <1>5 DEF TestStands, Closed
<1>6. ASSUME NEW w \in Workers, MarkMissed(w) \/ Snapshot(w) PROVE TestStands'
  <2>1. worker[w] \in WorkerStates /\ ~Closed(outcome[worker[w].opp])
    BY <1>1, <1>6 DEF TestStands, MarkMissed, Snapshot
  <2>2. ASSUME NEW row, outcome' = [outcome EXCEPT ![worker[w].opp] = row],
               worker' = [worker EXCEPT ![w] = NextRow(worker[w])]
        PROVE  TestStands'
    <3> SUFFICES ASSUME NEW v \in Workers, worker'[v].pc \in {"snap", "miss"}
                 PROVE  ~Closed(outcome[worker[v].opp])'
      BY DEF TestStands
    <3>1. v # w /\ worker'[v] = worker[v] BY <1>1, <1>2, <2>1, <2>2
    <3>2. worker[v].opp # worker[w].opp BY <1>6, <3>1 DEF TestsApart, MarkMissed, Snapshot
    <3>3. worker[v].opp \in Opps BY <3>1, ThreadFacts DEF Fit, Inv, TypeOK
    <3>4. outcome'[worker[v].opp] = outcome[worker[v].opp]
      BY <2>2, <3>2, <3>3 DEF Inv, TypeOK
    <3>5. ~Closed(outcome[worker[v].opp]) BY <3>1 DEF TestStands
    <3> QED BY <3>1, <3>4, <3>5 DEF Closed
  <2>3. CASE UNCHANGED outcome /\ worker' = [worker EXCEPT ![w] = Missing(worker[w])]
    <3>1. Missing(worker[w]).opp = worker[w].opp BY <2>1, MissingType
    <3> QED BY <1>4, <2>1, <2>3, <3>1
  <2> QED BY <1>6, <2>2, <2>3 DEF MarkMissed, Snapshot, NothingToRecord, RecordClose
<1>7. ASSUME NEW w \in Workers, CloseGuards(w) PROVE TestStands'
  <2> DEFINE me == worker[w]
             snap == [me EXCEPT !.pc = "snap",
                                !.at = IF me.by = "auto" THEN me.at ELSE now]
  <2>1. me \in WorkerStates /\ UNCHANGED outcome BY <1>1, <1>7 DEF CloseGuards, rows
  <2>2. snap.opp = me.opp /\ Missing(me).opp = me.opp
    BY <2>1, MissingType DEF WorkerStates
  <2>3. PICK new : /\ worker' = [worker EXCEPT ![w] = new]
                   /\ \/ new = NextRow(me)
                      \/ ~Closed(outcome[me.opp]) /\ (new = Missing(me) \/ new = snap)
    BY <1>7 DEF CloseGuards
  <2> HIDE DEF me, snap
  <2> QED BY <1>2, <1>3, <1>4, <2>1, <2>2, <2>3
<1>8. ASSUME NEW w \in Workers, NEW o \in Opps, FireJob(o, w) PROVE TestStands'
  BY <1>3, <1>8 DEF FireJob, Idle, rows
<1>9. ASSUME NEW w \in Workers,
             BeginAttempt(w) \/ Reconcile(w) \/ Reschedule(w) \/ CaptureFails(w)
      PROVE  TestStands'
  <2> DEFINE me == worker[w]
  <2>1. me \in WorkerStates BY <1>1
  <2>2. CASE BeginAttempt(w)
    <3> DEFINE new == [me EXCEPT !.pc = "reconcile", !.at = now, !.stored = start[me.opp]]
    <3>1. new.pc = "reconcile" BY <2>1 DEF WorkerStates
    <3>2. worker' = [worker EXCEPT ![w] = new] /\ UNCHANGED outcome
      BY <1>1, <2>2 DEF BeginAttempt, rows
    <3> HIDE DEF new
    <3> QED BY <1>3, <3>1, <3>2
  <2>3. CASE Reconcile(w)
    <3>1. PICK listed \in BOOLEAN : \E new :
            /\ worker' = [worker EXCEPT ![w] = new]
            /\ \/ new = [Idle EXCEPT !.pc = "rearm", !.opp = me.opp]
               \/ new = [me EXCEPT !.pc = "guard", !.stored = Nil, !.listed = listed]
      BY <2>3 DEF Reconcile
    <3>2. PICK new : /\ worker' = [worker EXCEPT ![w] = new]
                     /\ \/ new = [Idle EXCEPT !.pc = "rearm", !.opp = me.opp]
                        \/ new = [me EXCEPT !.pc = "guard", !.stored = Nil, !.listed = listed]
      BY <3>1
    <3>3. new.pc \in {"rearm", "guard"} BY <2>1, <3>2 DEF WorkerStates, Idle
    <3>4. UNCHANGED outcome BY <2>3 DEF Reconcile
    <3> QED BY <1>3, <3>2, <3>3, <3>4
  <2>4. CASE Reschedule(w) \/ CaptureFails(w)
    BY <1>3, <2>4 DEF Reschedule, CaptureFails, Idle, rows
  <2> QED BY <1>9, <2>2, <2>3, <2>4
<1>10. ASSUME NEW w \in Workers, CloseAll(w) \/ \E o \in Opps : CloseOne(w, o)
       PROVE  TestStands'
  BY <1>3, <1>10 DEF CloseAll, CloseOne, RunClose, Idle, rows
<1>11. CASE Crash BY <1>11 DEF Crash, TestStands, Idle
<1>12. CASE \/ Tick \/ \E o \in Opps : Postpone(o) \/ MarketCloses(o) \/ LogOpportunity(o)
            \/ CommandSchedules \/ ScanCycle \/ ScanAborts \/ OnStartup
  BY <1>5, <1>12 DEF Tick, Postpone, MarketCloses, LogOpportunity, CommandSchedules,
    ScanCycle, ScanBegins, ScanSchedules, ScanAnnounces, ScanEnds, SharpReads, SharpEntry,
    ScanAborts,
    OnStartup, rows
<1> QED BY <1>5, <1>6, <1>7, <1>8, <1>9, <1>10, <1>11, <1>12 DEF Next, Capture, vars, rows

\* A write past a test that stands is a step of the write-once log: a miss is a
\* stutter of it, a price is recorded where there was none.
LEMMA WriteImplements ==
  ASSUME Inv, TestStands, [Next]_vars
  PROVE  [Log!Next]_([o \in Opps |-> Recorded(outcome[o])])
<1> DEFINE read == [o \in Opps |-> Recorded(outcome[o])]
<1>1. CASE UNCHANGED outcome BY <1>1 DEF Recorded
<1>2. ASSUME NEW w \in Workers, NEW row \in Row, Writes(w, row), worker[w].opp \in Opps,
             outcome' = [outcome EXCEPT ![worker[w].opp] = row]
      PROVE  [Log!Next]_read
  <2> DEFINE o == worker[w].opp
  <2>1. outcome[o] \in Row /\ outcome \in [Opps -> Row] BY <1>2, WriteFacts DEF Inv, TypeOK
  <2>2. ~outcome[o].mid /\ ~outcome[o].sharp
    BY <1>2, WriteFacts DEF TestStands, Closed
  <2>3. read' = [read EXCEPT ![o] = Recorded(row)]
    BY <1>2, <2>1 DEF Recorded
  <2>4. CASE worker[w].pc = "miss"
    <3>1. ~row.mid /\ ~row.sharp BY <1>2, <2>2, <2>4, WriteFacts
    <3>2. Recorded(row) = read[o] BY <1>2, <2>2, <3>1 DEF Recorded
    <3> QED BY <1>2, <2>3, <3>2
  <2>5. CASE worker[w].pc = "snap"
    <3>1. /\ row.mid \/ row.sharp
          /\ row.at # Nil /\ row.source # Nil /\ row.source.kind # "missed"
      BY <1>2, <2>5, WriteFacts DEF Closed
    <3>2. row \in Closes /\ Recorded(row) = row BY <1>2, <3>1 DEF Closes, Recorded
    <3>3. read[o] = NoOutcome BY <1>2, <2>2 DEF Recorded
    <3>4. read'[o] = row BY <1>2, <2>3, <3>2
    <3>5. Log!Record(o) BY <2>3, <3>2, <3>3, <3>4 DEF Log!Record
    <3> QED BY <1>2, <3>5 DEF Log!Next
  <2> QED BY <1>2, <2>4, <2>5, WriteFacts
<1> QED BY <1>1, <1>2, LogChanges

\* While no two threads are past the test of one row together, the closing-line log
\* is the write-once log of CloseOnce, with any number of threads, through crashes,
\* retries, batches, forced captures and starts that move.  That overlap is the only
\* way a close is ever overwritten.
THEOREM ApartCaptureWritesOnce == Spec /\ []TestsApart => WriteOnce
<1>1. Init => TestStands /\ Log!Init
  BY DEF Init, TestStands, Idle, Log!Init, Recorded, NoOutcome
<1>2. TestsApart /\ Inv /\ TestStands /\ [Next]_vars => TestStands' BY TestStandsStep
<1>3. Inv /\ TestStands /\ [Next]_vars => [Log!Next]_([o \in Opps |-> Recorded(outcome[o])])
  BY WriteImplements
<1> QED BY <1>1, <1>2, <1>3, Invariance, PTL DEF Spec, WriteOnce, Log!Spec

\* With one thread there is no such overlap.
THEOREM SerialCaptureWritesOnce ==
  ASSUME OneThread
  PROVE  Spec => WriteOnce
<1>1. TestsApart BY DEF OneThread, TestsApart
<1> QED BY <1>1, ApartCaptureWritesOnce, PTL

-----------------------------------------------------------------------------
(* No close is taken in play as long as no two captures of one row are     *)
(* between reading its start and checking it.  What a capture learnt from  *)
(* the sharp feed then stands until it writes: the only other writer of a  *)
(* start is the sharp entry.  It writes a real start, or one that was real *)
(* when its board was fetched; the match has then been moved since, so it  *)
(* is to begin after the job did, and a job that is quick enough ends      *)
(* before any capture in flight could be late for it.                      *)

\* What the guards of a capture tolerate is more than the entry job takes.
EntryIsQuick == EntryTime <= LateGrace + Epsilon

\* A start on a board of the entry job is the real one, or the match has been moved
\* since the job began.
BoardsFit == \A o \in Opps : \A s \in entry.posted[o] :
  /\ entry.since <= now /\ now <= entry.since + EntryTime
  /\ s = actual[o] \/ entry.since <= actual[o]

LEMMA BoardsFitStep ==
  ASSUME Inv, BoardsFit, [Next]_vars
  PROVE  BoardsFit'
<1>1. /\ now \in Int /\ entry \in Entries /\ entry.since \in Int /\ EntryTime \in Nat
      /\ actual \in [Opps -> Stamps] /\ Stamps \subseteq Int
  <2>1. Time \subseteq Int /\ Stamps \subseteq Time
    BY StampsAssumption, MaxTimeAssumption DEF Time
  <2>2. now \in Time /\ entry \in Entries /\ actual \in [Opps -> Stamps]
    BY DEF Inv, TypeOK
  <2> QED BY <2>1, <2>2, EntryAssumption DEF Entries
<1>2. CASE UNCHANGED <<now, actual, entry>> BY <1>2 DEF BoardsFit
<1>3. CASE entry' = NoEntry BY <1>3 DEF BoardsFit, NoEntry
<1>4. CASE Tick
  <2>1. /\ UNCHANGED <<actual, entry>> /\ now' = now + 1
        /\ \A o \in Opps : entry.posted[o] # {} => now < entry.since + EntryTime
    BY <1>4 DEF Tick, cycle
  <2> QED BY <1>1, <2>1 DEF BoardsFit
<1>5. ASSUME NEW o \in Opps, Postpone(o) PROVE BoardsFit'
  <2>1. PICK t \in Stamps :
          /\ t > now /\ actual' = [actual EXCEPT ![o] = t]
          /\ entry' = [entry EXCEPT !.posted[o] = IF @ = {} THEN {} ELSE @ \cup {t}]
    BY <1>5 DEF Postpone
  <2>2. UNCHANGED now BY <1>5 DEF Postpone
  <2>3. /\ entry'.since = entry.since
        /\ entry'.posted = [entry.posted EXCEPT ![o] = IF @ = {} THEN {} ELSE @ \cup {t}]
    BY <1>1, <2>1 DEF Entries
  <2>4. entry.posted \in [Opps -> SUBSET Stamps] BY <1>1 DEF Entries
  <2> SUFFICES ASSUME NEW p \in Opps, NEW s \in entry'.posted[p]
               PROVE  /\ entry.since <= now /\ now <= entry.since + EntryTime
                      /\ s = actual'[p] \/ entry.since <= actual'[p]
    BY <2>2, <2>3 DEF BoardsFit
  <2>5. CASE p # o
    <3>1. s \in entry.posted[p] /\ actual'[p] = actual[p] BY <1>1, <2>1, <2>3, <2>4, <2>5
    <3> QED BY <3>1 DEF BoardsFit
  <2>6. CASE p = o
    <3>1. PICK u : u \in entry.posted[o] BY <2>3, <2>4, <2>6
    <3>2. entry.since <= now /\ now <= entry.since + EntryTime BY <3>1 DEF BoardsFit
    <3>3. actual'[o] = t /\ t \in Int BY <1>1, <2>1
    <3> QED BY <1>1, <2>1, <2>6, <3>2, <3>3
  <2> QED BY <2>5, <2>6
<1>6. CASE ScanAnnounces
  <2>1. UNCHANGED <<now, actual>> BY <1>6 DEF ScanAnnounces, world
  <2>2. CASE fresh = {} BY <1>3, <1>6, <2>2 DEF ScanAnnounces
  <2>3. CASE fresh # {}
    <3>1. /\ entry'.since = now
          /\ entry'.posted = [o \in Opps |-> IF o \in fresh THEN {actual[o]} ELSE {}]
      BY <1>6, <2>3 DEF ScanAnnounces, NoEntry
    <3>2. \A o \in Opps : \A s \in entry'.posted[o] : s = actual[o] BY <3>1
    <3> QED BY <1>1, <2>1, <3>1, <3>2 DEF BoardsFit
  <2> QED BY <2>2, <2>3
<1>7. ASSUME NEW o \in Opps, SharpReads(o) \/ SharpEntry(o) PROVE BoardsFit'
  <2>1. UNCHANGED <<now, actual>> BY <1>7 DEF SharpReads, SharpEntry, world
  <2>2. CASE entry' = NoEntry BY <1>3, <2>2
  <2>3. CASE entry' # NoEntry
    <3>1. \/ entry' = [entry EXCEPT !.opp = o, !.stored = start[o]]
          \/ entry' = [entry EXCEPT !.opp = Nil, !.stored = Nil, !.posted[o] = {}]
      BY <1>7, <2>3 DEF SharpReads, SharpEntry
    <3>2. entry'.since = entry.since /\ \A p \in Opps : entry'.posted[p] \subseteq entry.posted[p]
      BY <1>1, <3>1 DEF Entries
    <3> QED BY <2>1, <3>2 DEF BoardsFit
  <2> QED BY <2>2, <2>3
<1>8. CASE Crash BY <1>3, <1>8 DEF Crash
<1>9. CASE \/ \E o \in Opps : MarketCloses(o) \/ LogOpportunity(o)
           \/ CommandSchedules \/ ScanBegins \/ ScanSchedules \/ ScanEnds \/ ScanAborts
           \/ OnStartup \/ UNCHANGED vars
  BY <1>2, <1>9 DEF MarketCloses, LogOpportunity, CommandSchedules, ScanBegins, ScanSchedules,
    ScanEnds, ScanAborts, OnStartup, vars, world, cycle
<1>10. ASSUME NEW w \in Workers,
              \/ Capture(w) \/ CaptureFails(w) \/ CloseAll(w)
              \/ \E o \in Opps : FireJob(o, w) \/ CloseOne(w, o)
       PROVE  BoardsFit'
  BY <1>2, <1>10 DEF Capture, BeginAttempt, Reconcile, Reschedule, CloseGuards, MarkMissed,
    Snapshot, CaptureFails, CloseAll, CloseOne, RunClose, FireJob, world, cycle
<1> QED BY <1>4, <1>5, <1>6, <1>7, <1>8, <1>9, <1>10 DEF Next, ScanCycle

LEMMA BoardsHold == Spec => []BoardsFit
<1>1. Init => BoardsFit BY DEF Init, BoardsFit, NoEntry
<1> QED BY <1>1, BoardsFitStep, Invariance, PTL DEF Spec

StartsApart == \A v, w \in Workers :
  /\ v # w /\ worker[v].pc = "reconcile"
  /\ worker[w].pc \in {"reconcile", "guard"} /\ worker[w].by = "auto"
  => worker[v].opp # worker[w].opp

\* The instant of the capture is not late for the real start, or the stored start
\* is not after it.
Timely(me) ==
  me.at <= actual[me.opp] + LateGrace + Epsilon \/ start[me.opp] <= actual[me.opp] + Epsilon

Standing(me) ==
  /\ me.at <= now
  /\ me.by = "auto" =>
       /\ me.pc = "reconcile" => start[me.opp] = me.stored \/ Timely(me)
       /\ me.pc = "guard" /\ me.listed /\ active[me.opp] => Timely(me)
       /\ me.pc = "snap" /\ me.listed /\ active[me.opp] =>
            me.at <= actual[me.opp] + LateGrace + Epsilon

\* NoInPlayClose of one row, and that its close is not of the future.
BeforePlay(row, o) ==
  row.source # Nil =>
    /\ row.at \in Time /\ row.at <= now
    /\ row.sharp /\ row.source.by = "auto" /\ row.source.kind # "missed" =>
         row.at <= actual[o] + LateGrace + Epsilon

ChecksStand ==
  /\ \A w \in Workers : Standing(worker[w])
  /\ \A o \in Opps : BeforePlay(outcome[o], o)

\* A window, an instant and the real start of a row are numbers.
LEMMA Instants ==
  ASSUME TypeOK
  PROVE  /\ now \in Int /\ Epsilon \in Nat /\ LateGrace \in Nat
         /\ \A o \in Opps : actual[o] \in Int
         /\ \A w \in Workers : worker[w].at \in Int
<1>1. Time \subseteq Int BY MaxTimeAssumption DEF Time
<1>2. \A o \in Opps : actual[o] \in Time BY StampsAssumption DEF TypeOK
<1>3. \A w \in Workers : worker[w].at \in Time
  <2>1. \A w \in Workers : worker[w] \in WorkerStates BY DEF TypeOK
  <2> QED BY <2>1 DEF WorkerStates
<1> QED BY <1>1, <1>2, <1>3, WindowAssumption DEF TypeOK

\* The world, the log and the scan leave what stands: a start is moved to the real
\* one, or to a stale one before a capture could be late for the real one, and a
\* real start to a later instant than any that was read.
LEMMA OutsideStands ==
  ASSUME Inv, ChecksStand, Inv', UNCHANGED <<worker, outcome>>, now <= now',
         \A o \in Opps : /\ active'[o] => active[o]
                         /\ actual'[o] = actual[o] \/ actual'[o] > now
                         /\ o \in logged => \/ start'[o] = start[o] \/ start'[o] = actual'[o]
                                            \/ now <= actual'[o] + LateGrace + Epsilon
  PROVE  ChecksStand'
<1>1. /\ now \in Int /\ now' \in Int /\ Epsilon \in Nat /\ LateGrace \in Nat
      /\ \A o \in Opps : actual[o] \in Int /\ actual'[o] \in Int
      /\ \A w \in Workers : worker[w].at \in Int
  <2>1. TypeOK /\ actual' \in [Opps -> Stamps] /\ now' \in Time BY DEF Inv, TypeOK
  <2>2. Time \subseteq Int /\ Stamps \subseteq Int
    BY StampsAssumption, MaxTimeAssumption DEF Time
  <2>3. now' \in Int /\ \A o \in Opps : actual'[o] \in Int BY <2>1, <2>2
  <2> QED BY <2>1, <2>3, Instants
<1>2. ASSUME NEW w \in Workers PROVE Standing(worker[w])'
  <2> DEFINE me == worker[w]
             o == me.opp
  <2>1. me' = me /\ Standing(me) /\ me.at \in Int /\ Fit(me)
    BY <1>1, ThreadFacts DEF ChecksStand
  <2>2. CASE me.pc = "idle" BY <1>1, <2>1, <2>2 DEF Standing
  <2>3. CASE me.pc # "idle"
    <3>1. o \in Opps /\ o \in logged BY <2>1, <2>3 DEF Fit, Inv, TypeOK
    <3>2. /\ active'[o] => active[o]
          /\ actual'[o] = actual[o] \/ actual'[o] > now
          /\ \/ start'[o] = start[o] \/ start'[o] = actual'[o]
             \/ now <= actual'[o] + LateGrace + Epsilon
          /\ actual[o] \in Int /\ actual'[o] \in Int
      BY <1>1, <3>1
    <3>3. me.at <= now /\ me.at <= now' BY <1>1, <2>1 DEF Standing
    <3>4. CASE \/ actual'[o] > now \/ start'[o] = actual'[o]
               \/ now <= actual'[o] + LateGrace + Epsilon
      <4>1. Timely(me)' BY <1>1, <2>1, <3>2, <3>3, <3>4 DEF Timely
      <4>2. me.at <= actual[o] + LateGrace + Epsilon
              => me.at <= actual'[o] + LateGrace + Epsilon
        BY <1>1, <2>1, <3>2, <3>3
      <4> QED BY <2>1, <3>2, <3>3, <4>1, <4>2 DEF Standing
    <3>5. CASE actual'[o] = actual[o] /\ start'[o] = start[o]
      BY <2>1, <3>2, <3>3, <3>5 DEF Standing, Timely
    <3> QED BY <3>2, <3>4, <3>5
  <2> QED BY <2>2, <2>3
<1>3. ASSUME NEW o \in Opps PROVE BeforePlay(outcome[o], o)'
  <2>1. /\ BeforePlay(outcome[o], o) /\ outcome'[o] = outcome[o]
        /\ actual'[o] = actual[o] \/ actual'[o] > now
        /\ actual[o] \in Int /\ actual'[o] \in Int
    BY <1>1 DEF ChecksStand
  <2>2. Time \subseteq Int BY MaxTimeAssumption DEF Time
  <2>3. PICK row : row = outcome[o] OBVIOUS
  <2>4. ASSUME row.source # Nil PROVE row.at \in Time /\ row.at \in Int /\ row.at <= now
    BY <2>1, <2>2, <2>3, <2>4 DEF BeforePlay
  <2>5. ASSUME row.source # Nil, row.sharp, row.source.by = "auto", row.source.kind # "missed"
        PROVE  row.at <= actual'[o] + LateGrace + Epsilon
    <3>1. row.at <= actual[o] + LateGrace + Epsilon BY <2>1, <2>3, <2>5 DEF BeforePlay
    <3> QED BY <1>1, <2>1, <2>4, <2>5, <3>1
  <2>6. row.source # Nil => row.at <= now' BY <1>1, <2>4
  <2> QED BY <2>1, <2>3, <2>4, <2>5, <2>6 DEF BeforePlay
<1> QED BY <1>2, <1>3 DEF ChecksStand

\* A step of one thread: it and the log have to be looked at, when the starts that
\* the other threads rely on stay.
LEMMA OthersStand ==
  ASSUME Inv, ChecksStand, NEW w \in Workers, NEW new, worker' = [worker EXCEPT ![w] = new],
         UNCHANGED <<now, actual, active>>,
         \A v \in Workers :
           v # w /\ worker[v].by = "auto" /\ worker[v].pc \in {"reconcile", "guard"} =>
             start'[worker[v].opp] = start[worker[v].opp],
         Standing(new)', \A o \in Opps : BeforePlay(outcome[o], o)'
  PROVE  ChecksStand'
<1>1. worker \in [Workers -> WorkerStates] BY DEF Inv, TypeOK
<1>2. ASSUME NEW v \in Workers PROVE Standing(worker[v])'
  <2>1. CASE v = w
    <3>1. worker'[v] = new BY <1>1, <2>1
    <3> QED BY <3>1 DEF Standing, Timely
  <2>2. CASE v # w
    <3>1. PICK me : me = worker[v] OBVIOUS
    <3>2. worker'[v] = me /\ Standing(me) BY <1>1, <2>2, <3>1 DEF ChecksStand
    <3>3. me.by = "auto" /\ me.pc \in {"reconcile", "guard"} => start'[me.opp] = start[me.opp]
      BY <2>2, <3>1
    <3>4. Standing(me)' BY <3>2, <3>3 DEF Standing, Timely
    <3> QED BY <3>2, <3>4 DEF Standing, Timely
  <2> QED BY <2>1, <2>2
<1> QED BY <1>2 DEF ChecksStand

\* ... or, when it writes nothing and the world stands still, the thread alone.
LEMMA ThreadStands ==
  ASSUME Inv, ChecksStand, NEW w \in Workers, NEW new, worker' = [worker EXCEPT ![w] = new],
         UNCHANGED <<now, actual, active, start, outcome>>, Standing(new)'
  PROVE  ChecksStand'
<1>1. \A o \in Opps : BeforePlay(outcome[o], o)' BY DEF ChecksStand, BeforePlay
<1> QED BY <1>1, OthersStand

\* The start check: what it sees of the sharp feed is the real start.
LEMMA ReconcileStands ==
  ASSUME StartsApart, Inv, Inv', ChecksStand, NEW w \in Workers, Reconcile(w)
  PROVE  ChecksStand'
<1>1. PICK me : me = worker[w] OBVIOUS
<1>2. PICK o : o = me.opp OBVIOUS
<1>3. /\ me \in WorkerStates /\ Fit(me) /\ me.pc = "reconcile" /\ Standing(me)
      /\ UNCHANGED <<now, actual, active, outcome>>
  BY <1>1, ThreadFacts DEF Reconcile, ChecksStand, world
<1>4. o \in Opps BY <1>2, <1>3 DEF Fit, Inv, TypeOK
<1>5. /\ now \in Int /\ Epsilon \in Nat /\ actual[o] \in Int /\ me.at \in Int
      /\ 0 <= now /\ actual[o] # Nil /\ me.at <= now
  <2>1. actual[o] \in Time /\ now \in Time BY <1>4, StampsAssumption DEF Inv, TypeOK
  <2> QED BY <1>1, <1>3, <1>4, <2>1, Instants, TimeNotNil, MaxTimeAssumption
      DEF Inv, Standing, Time
<1> DEFINE Moved(t) == active[o] /\ t # Nil /\ me.stored # Nil /\ Differs(t, me.stored)
<1>6. PICK listed \in BOOLEAN : \E live :
        /\ listed => live = actual[o]
        /\ start' = IF Moved(live) THEN [start EXCEPT ![o] = live] ELSE start
        /\ worker' = [worker EXCEPT
             ![w] = IF Moved(live) /\ live > me.at
                    THEN [Idle EXCEPT !.pc = "rearm", !.opp = o]
                    ELSE [me EXCEPT !.pc = "guard", !.stored = Nil, !.listed = listed]]
  <2>1. PICK listed \in BOOLEAN, kalshi \in Stamps \cup {Nil} :
          LET live == IF listed THEN actual[o] ELSE kalshi IN
          /\ start' = IF Moved(live) THEN [start EXCEPT ![o] = live] ELSE start
          /\ worker' = [worker EXCEPT
               ![w] = IF Moved(live) /\ live > me.at
                      THEN [Idle EXCEPT !.pc = "rearm", !.opp = o]
                      ELSE [me EXCEPT !.pc = "guard", !.stored = Nil, !.listed = listed]]
    BY <1>1, <1>2 DEF Reconcile
  <2>2. PICK live : live = IF listed THEN actual[o] ELSE kalshi OBVIOUS
  <2> HIDE DEF Moved
  <2> QED BY <2>1, <2>2
<1>7. PICK live :
        /\ listed => live = actual[o]
        /\ start' = IF Moved(live) THEN [start EXCEPT ![o] = live] ELSE start
        /\ worker' = [worker EXCEPT
             ![w] = IF Moved(live) /\ live > me.at
                    THEN [Idle EXCEPT !.pc = "rearm", !.opp = o]
                    ELSE [me EXCEPT !.pc = "guard", !.stored = Nil, !.listed = listed]]
  BY <1>6
<1>8. ASSUME NEW v \in Workers, v # w, worker[v].by = "auto",
              worker[v].pc \in {"reconcile", "guard"}
       PROVE  start'[worker[v].opp] = start[worker[v].opp]
  <2>1. worker[v].opp # o BY <1>1, <1>2, <1>3, <1>8 DEF StartsApart
  <2>2. worker[v].opp \in Opps BY <1>8, ThreadFacts DEF Fit, Inv, TypeOK
  <2> HIDE DEF Moved
  <2> QED BY <1>7, <2>1, <2>2 DEF Inv, TypeOK
<1>9. \A p \in Opps : BeforePlay(outcome[p], p)' BY <1>3 DEF ChecksStand, BeforePlay
<1>10. CASE Moved(live) /\ live > me.at
  <2>1. PICK new : new = [Idle EXCEPT !.pc = "rearm", !.opp = o] OBVIOUS
  <2>2. worker' = [worker EXCEPT ![w] = new] BY <1>7, <1>10, <2>1
  <2>3. new.at = 0 /\ new.pc = "rearm" BY <2>1 DEF Idle
  <2>4. Standing(new)' BY <1>3, <1>5, <2>3 DEF Standing
  <2> QED BY <1>3, <1>8, <1>9, <2>2, <2>4, OthersStand
<1>11. CASE ~(Moved(live) /\ live > me.at)
  <2>1. PICK new : new = [me EXCEPT !.pc = "guard", !.stored = Nil, !.listed = listed] OBVIOUS
  <2>2. worker' = [worker EXCEPT ![w] = new] BY <1>7, <1>11, <2>1
  <2>3. /\ new.at = me.at /\ new.pc = "guard" /\ new.by = me.by /\ new.opp = o
        /\ new.listed = listed
    BY <1>2, <1>3, <2>1 DEF WorkerStates
  <2>4. ASSUME me.by = "auto", listed, active[o]
        PROVE  me.at <= actual[o] + LateGrace + Epsilon \/ start'[o] <= actual[o] + Epsilon
    <3>1. start[o] \in Int /\ start[o] # Nil
      <4>1. start[o] # Nil BY <1>2, <1>3, <2>4 DEF Fit
      <4> QED BY <1>4, <4>1, TimeNotNil DEF Inv, TypeOK
    <3>2. live = actual[o] BY <1>7, <2>4
    <3>3. CASE Moved(live)
      <4>1. start'[o] = actual[o] BY <1>4, <1>7, <3>2, <3>3 DEF Inv, TypeOK
      <4> QED BY <1>5, <4>1
    <3>4. CASE ~Moved(live)
      <4>1. start' = start BY <1>7, <3>4
      <4>2. CASE start[o] = me.stored
        <5>1. ~Differs(actual[o], start[o]) BY <1>5, <1>7, <2>4, <3>1, <3>2, <3>4, <4>2
        <5> QED BY <1>5, <3>1, <4>1, <5>1 DEF Differs
      <4>3. CASE Timely(me) BY <1>2, <4>1, <4>3 DEF Timely
      <4> QED BY <1>2, <1>3, <2>4, <4>2, <4>3 DEF Standing
    <3> QED BY <3>3, <3>4
  <2>5. Standing(new)' BY <1>3, <1>5, <2>3, <2>4 DEF Standing, Timely
  <2> QED BY <1>3, <1>8, <1>9, <2>2, <2>5, OthersStand
<1> QED BY <1>10, <1>11

\* The guards: a capture that passes them is within the grace of the stored start.
LEMMA CloseGuardsStands ==
  ASSUME Inv, Inv', ChecksStand, NEW w \in Workers, CloseGuards(w)
  PROVE  ChecksStand'
<1>1. PICK me : me = worker[w] OBVIOUS
<1>2. PICK o : o = me.opp OBVIOUS
<1>3. /\ me \in WorkerStates /\ Fit(me) /\ me.pc = "guard" /\ Standing(me)
      /\ UNCHANGED <<now, actual, active, start, outcome>>
  BY <1>1, ThreadFacts DEF CloseGuards, ChecksStand, world, rows
<1>4. o \in Opps BY <1>2, <1>3 DEF Fit, Inv, TypeOK
<1>5. /\ now \in Int /\ Epsilon \in Nat /\ LateGrace \in Nat /\ actual[o] \in Int
      /\ me.at \in Int /\ 0 <= now /\ me.at <= now
  <2>1. now \in Time BY DEF Inv, TypeOK
  <2> QED BY <1>1, <1>3, <1>4, <2>1, Instants, MaxTimeAssumption DEF Inv, Standing, Time
<1>6. PICK at : at = IF me.by = "auto" THEN me.at ELSE now OBVIOUS
<1>7. PICK new :
        /\ worker' = [worker EXCEPT ![w] = new]
        /\ \/ new = NextRow(me) \/ new = Missing(me)
           \/ /\ new = [me EXCEPT !.pc = "snap", !.at = at]
              /\ ~(start[o] # Nil /\ at > start[o] + LateGrace)
  BY <1>1, <1>2, <1>6 DEF CloseGuards
<1>8. CASE new = NextRow(me)
  <2>1. new.by = "auto" => new = Idle
    BY <1>3, <1>8, NextRowType DEF Fit
  <2>2. new.at <= now
    <3>1. new = Idle \/ new.at = me.at BY <1>3, <1>8 DEF NextRow, WorkerStates
    <3> QED BY <1>5, <3>1 DEF Idle
  <2>3. Standing(new)' BY <1>3, <2>1, <2>2 DEF Standing, Idle
  <2> QED BY <1>3, <1>7, <2>3, ThreadStands
<1>9. CASE new = Missing(me)
  <2>1. new.at = 0 /\ new.pc = "miss" BY <1>9 DEF Missing, Idle
  <2>2. Standing(new)' BY <1>3, <1>5, <2>1 DEF Standing
  <2> QED BY <1>3, <1>7, <2>2, ThreadStands
<1>10. CASE /\ new = [me EXCEPT !.pc = "snap", !.at = at]
            /\ ~(start[o] # Nil /\ at > start[o] + LateGrace)
  <2>1. new.pc = "snap" /\ new.at = at /\ new.by = me.by /\ new.opp = o /\ new.listed = me.listed
    BY <1>2, <1>3, <1>10 DEF WorkerStates
  <2>2. at <= now BY <1>5, <1>6
  <2>3. ASSUME me.by = "auto", me.listed, active[o]
        PROVE  at <= actual[o] + LateGrace + Epsilon
    <3>1. Timely(me) /\ at = me.at BY <1>2, <1>3, <1>6, <2>3 DEF Standing
    <3>2. start[o] \in Int /\ start[o] # Nil
      <4>1. start[o] # Nil BY <1>2, <1>3, <2>3 DEF Fit
      <4> QED BY <1>4, <4>1, TimeNotNil DEF Inv, TypeOK
    <3>3. at <= start[o] + LateGrace BY <1>5, <1>10, <3>1, <3>2
    <3> QED BY <1>2, <1>5, <3>1, <3>2, <3>3 DEF Timely
  <2>4. Standing(new)' BY <1>3, <2>1, <2>2, <2>3 DEF Standing
  <2> QED BY <1>3, <1>7, <2>4, ThreadStands
<1> QED BY <1>7, <1>8, <1>9, <1>10

\* The writes: a close that a timer takes with the sharp feed is of an active market.
LEMMA WritingStands ==
  ASSUME Inv, Inv', ChecksStand, NEW w \in Workers, MarkMissed(w) \/ Snapshot(w)
  PROVE  ChecksStand'
<1>1. PICK me : me = worker[w] OBVIOUS
<1>2. PICK o : o = me.opp OBVIOUS
<1>3. /\ me \in WorkerStates /\ Fit(me) /\ me.pc \in {"miss", "snap"} /\ Standing(me)
      /\ UNCHANGED <<now, actual, active, start>>
  BY <1>1, ThreadFacts DEF MarkMissed, Snapshot, ChecksStand, world
<1>4. o \in Opps BY <1>2, <1>3 DEF Fit, Inv, TypeOK
<1>5. /\ now \in Time /\ me.at \in Time /\ me.at <= now /\ now \in Int /\ 0 <= now
      /\ me.by \in Writers
  <2>1. now \in Time BY DEF Inv, TypeOK
  <2>2. me.at \in Time /\ me.by \in Writers BY <1>3 DEF WorkerStates
  <2> QED BY <1>3, <2>1, <2>2, MaxTimeAssumption DEF Standing, Time
<1>6. outcome \in [Opps -> Row] BY DEF Inv, TypeOK
<1>7. PICK new : /\ worker' = [worker EXCEPT ![w] = new]
                 /\ new = NextRow(me) \/ new = Missing(me)
  BY <1>1 DEF MarkMissed, Snapshot, NothingToRecord, RecordClose
<1>8. Standing(new)'
  <2>1. new.by = "auto" => new = Idle \/ new.pc = "miss"
    BY <1>3, <1>7, NextRowType, MissingType DEF Fit
  <2>2. new.at <= now
    <3>1. NextRow(me) = Idle \/ NextRow(me).at = me.at BY <1>3 DEF NextRow, WorkerStates
    <3>2. Missing(me).at = 0 /\ Idle.at = 0 BY DEF Missing, Idle
    <3> QED BY <1>5, <1>7, <3>1, <3>2
  <2> QED BY <1>3, <2>1, <2>2 DEF Standing, Idle
<1>9. \A row, p : BeforePlay(row, p)' <=> BeforePlay(row, p) BY <1>3 DEF BeforePlay
<1>10. CASE UNCHANGED outcome
  <2>1. \A p \in Opps : outcome'[p] = outcome[p] BY <1>10
  <2>2. \A p \in Opps : BeforePlay(outcome[p], p)'
    BY <1>3, <2>1 DEF ChecksStand, BeforePlay
  <2> QED BY <1>3, <1>7, <1>8, <2>2, OthersStand
<1>11. ASSUME NEW row, outcome' = [outcome EXCEPT ![o] = row], BeforePlay(row, o)
       PROVE  ChecksStand'
  <2>1. ASSUME NEW p \in Opps PROVE BeforePlay(outcome[p], p)'
    <3>1. PICK new2 : new2 = outcome'[p] OBVIOUS
    <3>2. BeforePlay(new2, p)
      BY <1>4, <1>6, <1>11, <3>1 DEF ChecksStand
    <3> QED BY <1>3, <3>1, <3>2 DEF BeforePlay
  <2> QED BY <1>3, <1>7, <1>8, <2>1, OthersStand
<1>12. CASE MarkMissed(w)
  <2>1. PICK row : row = MergeMissed(outcome[o], now, me.by) OBVIOUS
  <2>2. outcome' = [outcome EXCEPT ![o] = row]
    BY <1>1, <1>2, <1>4, <1>6, <1>12, <2>1 DEF MarkMissed
  <2>3. outcome[o] \in Row BY <1>4, <1>6
  <2>4. row.at = now /\ row.source.kind = "missed"
    BY <2>1, <2>3 DEF MergeMissed, Row, Source
  <2>5. BeforePlay(row, o) BY <1>5, <2>4 DEF BeforePlay
  <2> QED BY <1>11, <2>2, <2>5
<1>13. CASE Snapshot(w)
  <2>1. PICK twoSided \in BOOLEAN, sharp \in BOOLEAN :
          /\ me.pc = "snap"
          /\ sharp => (me.by = "manual" \/ me.listed)
          /\ NothingToRecord(w, twoSided, sharp) \/ RecordClose(w, twoSided, sharp)
    BY <1>1, <1>13 DEF Snapshot
  <2>2. CASE NothingToRecord(w, twoSided, sharp)
    BY <1>10, <2>2 DEF NothingToRecord
  <2>3. CASE RecordClose(w, twoSided, sharp)
    <3>1. PICK row : row = IF twoSided THEN MergeMid(outcome[o], me.at, me.by, sharp)
                           ELSE MergeSharpOnly(outcome[o], me.at, me.by)
      OBVIOUS
    <3>2. /\ active[o]
          /\ twoSided \/ sharp
          /\ outcome' = [outcome EXCEPT ![o] = row]
      BY <1>1, <1>2, <1>4, <1>6, <2>3, <3>1 DEF RecordClose
    <3>3. outcome[o] \in Row BY <1>4, <1>6
    <3>4. row.at = me.at /\ row.source.by = me.by /\ row.sharp = sharp
      BY <3>1, <3>2, <3>3 DEF MergeMid, MergeSharpOnly, Row, Source
    <3>5. ASSUME me.by = "auto", sharp
          PROVE  me.at <= actual[o] + LateGrace + Epsilon
      <4>1. me.listed BY <2>1, <3>5
      <4>2. active[me.opp] /\ me.pc = "snap" BY <1>2, <2>1, <3>2
      <4> QED BY <1>2, <1>3, <3>5, <4>1, <4>2 DEF Standing
    <3>6. BeforePlay(row, o) BY <1>5, <3>4, <3>5 DEF BeforePlay
    <3> QED BY <1>11, <3>2, <3>6
  <2> QED BY <2>1, <2>2, <2>3
<1> QED BY <1>12, <1>13

\* What stands goes on standing.
LEMMA ChecksStandStep ==
  ASSUME EntryIsQuick, StartsApart, Inv, Inv', BoardsFit, ChecksStand, [Next]_vars
  PROVE  ChecksStand'
<1>1. /\ now \in Int /\ 0 <= now /\ worker \in [Workers -> WorkerStates]
      /\ actual \in [Opps -> Stamps] /\ active \in [Opps -> BOOLEAN]
      /\ start \in [Opps -> Time \cup {Nil}]
  <2>1. now \in Time BY DEF Inv, TypeOK
  <2> QED BY <2>1, MaxTimeAssumption DEF Inv, TypeOK, Time
<1>2. ASSUME NEW o \in Opps, Postpone(o) PROVE ChecksStand'
  <2>1. PICK t \in Stamps : t > now /\ actual' = [actual EXCEPT ![o] = t] BY <1>2 DEF Postpone
  <2>2. \A p \in Opps : actual'[p] = actual[p] \/ actual'[p] > now BY <1>1, <2>1
  <2> QED BY <1>1, <1>2, <2>2, OutsideStands DEF Postpone, rows
<1>3. ASSUME NEW o \in Opps, MarketCloses(o) PROVE ChecksStand'
  <2>1. \A p \in Opps : active'[p] => active[p] BY <1>1, <1>3 DEF MarketCloses
  <2> QED BY <1>1, <1>3, <2>1, OutsideStands DEF MarketCloses, rows
<1>4. ASSUME NEW o \in Opps, LogOpportunity(o) PROVE ChecksStand'
  <2>1. \A p \in Opps : p \in logged => start'[p] = start[p]
    BY <1>1, <1>4 DEF LogOpportunity
  <2> QED BY <1>1, <1>4, <2>1, OutsideStands DEF LogOpportunity, world
<1>5. ASSUME NEW o \in Opps, SharpReads(o) \/ SharpEntry(o) PROVE ChecksStand'
  <2>1. UNCHANGED <<world, worker, outcome>> BY <1>5 DEF SharpReads, SharpEntry, rows
  <2>2. ASSUME NEW p \in Opps
        PROVE  \/ start'[p] = start[p] \/ start'[p] = actual[p]
               \/ now <= actual[p] + LateGrace + Epsilon
    <3>1. CASE UNCHANGED start BY <3>1
    <3>2. ASSUME NEW s \in entry.posted[o], start' = [start EXCEPT ![o] = s]
          PROVE  \/ start'[p] = start[p] \/ start'[p] = actual[p]
                 \/ now <= actual[p] + LateGrace + Epsilon
      <4>1. CASE p # o BY <1>1, <3>2, <4>1
      <4>2. CASE p = o
        <5>1. start'[p] = s BY <1>1, <3>2, <4>2
        <5>2. /\ now <= entry.since + EntryTime
              /\ s = actual[p] \/ entry.since <= actual[p]
          BY <3>2, <4>2 DEF BoardsFit
        <5>3. /\ entry.since \in Int /\ EntryTime \in Int /\ actual[p] \in Int
              /\ LateGrace \in Int /\ Epsilon \in Int
          <6>1. entry.since \in Time BY DEF Inv, TypeOK, Entries
          <6>2. Time \subseteq Int BY MaxTimeAssumption DEF Time
          <6>3. TypeOK BY DEF Inv
          <6>4. actual[p] \in Int /\ LateGrace \in Int /\ Epsilon \in Int
            BY <6>3, Instants
          <6>5. EntryTime \in Int BY EntryAssumption
          <6> QED BY <6>1, <6>2, <6>4, <6>5
        <5> QED BY <1>1, <5>1, <5>2, <5>3 DEF EntryIsQuick
      <4> QED BY <4>1, <4>2
    <3> QED BY <1>5, <3>1, <3>2 DEF SharpReads, SharpEntry, rows
  <2> QED BY <1>1, <2>1, <2>2, OutsideStands DEF world
<1>6. CASE Tick BY <1>1, <1>6, OutsideStands DEF Tick, rows
<1>7. CASE \/ CommandSchedules \/ ScanBegins \/ ScanSchedules \/ ScanAnnounces \/ ScanEnds
           \/ ScanAborts \/ OnStartup \/ UNCHANGED vars
  <2>1. UNCHANGED <<now, actual, active, start, worker, outcome>>
    BY <1>7 DEF CommandSchedules, ScanBegins, ScanSchedules, ScanAnnounces, ScanEnds,
      ScanAborts, OnStartup, vars, rows, world
  <2> QED BY <1>1, <2>1, OutsideStands
<1>8. ASSUME NEW w \in Workers, BeginAttempt(w) PROVE ChecksStand'
  <2>1. PICK me : me = worker[w] OBVIOUS
  <2>2. PICK new : new = [me EXCEPT !.pc = "reconcile", !.at = now, !.stored = start[me.opp]]
    OBVIOUS
  <2>3. me \in WorkerStates /\ worker' = [worker EXCEPT ![w] = new]
    BY <1>1, <1>8, <2>1, <2>2 DEF BeginAttempt
  <2>4. new.pc = "reconcile" /\ new.at = now /\ new.stored = start[new.opp]
    BY <2>2, <2>3 DEF WorkerStates
  <2>5. UNCHANGED <<now, actual, active, outcome, start>> BY <1>8 DEF BeginAttempt, world, rows
  <2>6. Standing(new)' BY <1>1, <2>4, <2>5 DEF Standing
  <2> QED BY <2>3, <2>5, <2>6, ThreadStands
<1>9. ASSUME NEW w \in Workers, NEW new, worker' = [worker EXCEPT ![w] = new],
             UNCHANGED <<now, actual, active, start, outcome>>, new.at = 0,
             new.by = "auto" => new.pc \notin {"reconcile", "guard", "snap"}
      PROVE  ChecksStand'
  <2>1. Standing(new)' BY <1>1, <1>9 DEF Standing
  <2> QED BY <1>9, <2>1, ThreadStands
<1>10. ASSUME NEW w \in Workers, NEW o \in Opps, FireJob(o, w) PROVE ChecksStand'
  <2>1. PICK new : new = [Idle EXCEPT !.pc = "start", !.opp = o] OBVIOUS
  <2>2. worker' = [worker EXCEPT ![w] = new] /\ UNCHANGED <<now, actual, active, start, outcome>>
    BY <1>10, <2>1 DEF FireJob, world, rows
  <2>3. new.at = 0 /\ new.pc = "start" BY <2>1 DEF Idle
  <2> QED BY <1>9, <2>2, <2>3
<1>11. ASSUME NEW w \in Workers, Reschedule(w) \/ CaptureFails(w) PROVE ChecksStand'
  <2>1. \E new : /\ worker' = [worker EXCEPT ![w] = new]
                 /\ \/ new = Idle
                    \/ \E o, k : new = [Idle EXCEPT !.pc = "start", !.opp = o, !.tries = k]
    <3>1. CASE Reschedule(w) BY <3>1 DEF Reschedule
    <3>2. CASE CaptureFails(w) BY <3>2 DEF CaptureFails
    <3> QED BY <1>11, <3>1, <3>2
  <2>2. ASSUME NEW new, NEW o, NEW k,
               new = Idle \/ new = [Idle EXCEPT !.pc = "start", !.opp = o, !.tries = k]
        PROVE  new.at = 0 /\ new.pc \in {"idle", "start"}
    <3>1. CASE new = Idle BY <3>1 DEF Idle
    <3>2. CASE new = [Idle EXCEPT !.pc = "start", !.opp = o, !.tries = k] BY <3>2 DEF Idle
    <3> QED BY <2>2, <3>1, <3>2
  <2>3. UNCHANGED <<now, actual, active, start, outcome>> BY <1>11 DEF Reschedule, CaptureFails, world, rows
  <2> QED BY <1>9, <2>1, <2>2, <2>3
<1>12. ASSUME NEW w \in Workers, CloseAll(w) \/ \E o \in Opps : CloseOne(w, o)
       PROVE  ChecksStand'
  <2>1. PICK o, todo, force : RunClose(w, o, todo, force) 
    <3>1. CASE CloseAll(w)
      <4>1. PICK o : o = First(PendingCaptures) OBVIOUS
      <4>2. RunClose(w, o, PendingCaptures \ {o}, FALSE) BY <3>1, <4>1 DEF CloseAll
      <4> QED BY <4>2
    <3>2. CASE \E o \in Opps : CloseOne(w, o) BY <3>2 DEF CloseOne
    <3> QED BY <1>12, <3>1, <3>2
  <2>2. PICK new : new = [Idle EXCEPT !.pc = "guard", !.opp = o, !.todo = todo,
                                     !.by = "manual", !.force = force]
    OBVIOUS
  <2>3. worker' = [worker EXCEPT ![w] = new] /\ UNCHANGED <<now, actual, active, start, outcome>>
    BY <2>1, <2>2 DEF RunClose, world, rows
  <2>4. new.at = 0 /\ new.by = "manual" BY <2>2 DEF Idle
  <2> QED BY <1>9, <2>3, <2>4
<1>13. CASE Crash
  <2>1. /\ UNCHANGED <<now, actual, outcome>>
        /\ \A w \in Workers : worker'[w].at = 0 /\ worker'[w].pc = "idle"
    BY <1>13 DEF Crash, Idle, world, rows
  <2> QED BY <1>1, <2>1 DEF ChecksStand, Standing, BeforePlay
<1> QED
  BY <1>2, <1>3, <1>4, <1>5, <1>6, <1>7, <1>8, <1>10, <1>11, <1>12, <1>13,
     ReconcileStands, CloseGuardsStands, WritingStands DEF Next, ScanCycle, Capture

\* NoInPlayClose: while no two captures of one row are between the read and the check
\* of its start, a close that a timer took with the sharp feed listing the match is
\* dated before the match was under way, up to the grace and the drift the code
\* tolerates, whatever Kalshi's stamp said and however many threads run.  The sharp
\* entry job must not outlast that tolerance.
THEOREM ApartCaptureIsPreMatch ==
  ASSUME EntryIsQuick
  PROVE  Spec /\ []StartsApart => []NoInPlayClose
<1>1. Init => ChecksStand
  BY MaxTimeAssumption DEF Init, ChecksStand, Standing, BeforePlay, Idle, NoOutcome
<1>2. StartsApart /\ Inv /\ Inv' /\ BoardsFit /\ ChecksStand /\ [Next]_vars => ChecksStand'
  BY ChecksStandStep
<1>3. ChecksStand => NoInPlayClose BY DEF ChecksStand, BeforePlay, NoInPlayClose
<1> QED BY <1>1, <1>2, <1>3, Invariance, BoardsHold, PTL DEF Spec

\* With one thread there are no two.
THEOREM SerialCaptureIsPreMatch ==
  ASSUME OneThread, EntryIsQuick
  PROVE  Spec => []NoInPlayClose
<1>1. StartsApart BY DEF OneThread, StartsApart
<1> QED BY <1>1, ApartCaptureIsPreMatch, PTL
=============================================================================
