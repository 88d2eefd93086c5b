------------------------------- MODULE Refresh ------------------------------
(***************************************************************************)
(* The weekly refresh of the rating artifact, the bot that serves it and   *)
(* the daily heartbeat that reports on it.  weekly_refresh.sh chains       *)
(* prepare_matches.py --fetch, build_ratings.py and a restart of the bot,  *)
(* each in a container of its own, and notifies in any case; the bot reads *)
(* model.json when it starts and the heartbeat reads it again every day.   *)
(*                                                                         *)
(* A file or an artifact is the date of the newest match in it, per tour.  *)
(***************************************************************************)
EXTENDS Integers, FiniteSets

CONSTANTS
  Nil,          \* absent
  Torn,         \* a file whose writer was killed half way
  Tours,
  Jobs,         \* the background jobs that stamp their end: scan and auto_result
  MaxTime,      \* last instant of the modelled horizon
  StaleAfter,   \* STALE_DATA_WARN_DAYS
  MaxFaults     \* bound on kills, failed steps and crashes together

ASSUME HorizonAssumption == MaxTime \in Nat /\ StaleAfter \in Nat /\ MaxFaults \in Nat

Time == 0..MaxTime
Dates == Time \cup {Nil}

ASSUME AbsentAssumption == Nil \notin Int /\ Torn \notin Dates /\ Torn \notin [Tours -> Dates]
                           /\ Nil \notin [Tours -> Dates] /\ Nil # "ok"

VARIABLES
  now,
  run,        \* the cron script: its step, the tours left, this run's log, its rc
  raw,        \* newest match of the downloaded year files of each tour
  spoiled,    \* the tours with a year file that read_csv raises on
  prepared,   \* newest match of {tour}_matches_all.csv
  artifact,   \* model.json
  loaded,     \* the model the bot serves; Nil while it is down
  stamps,     \* the jobs, bot_data["scan"] and ["auto_result"], whose last end failed
  dm,         \* the message of the last run; Nil when it was lost
  beat,       \* the last heartbeat that arrived
  faults

vars == <<now, run, raw, spoiled, prepared, artifact, loaded, stamps, dm, beat, faults>>
archive == <<raw, spoiled>>
files == <<archive, prepared, artifact>>
bot == <<loaded, stamps>>
messages == <<dm, beat>>

Waiting == [pc |-> "idle", left |-> {}, tour |-> Nil, warned |-> FALSE, rc |-> 0]
Unstamped == {}
Warnings == Jobs \cup {"stale"}

TypeOK ==
  /\ now \in Time /\ faults \in 0..MaxFaults
  /\ run \in [pc : {"idle", "fetch", "prepare", "build", "write", "restart", "notify"},
              left : SUBSET Tours, tour : Tours \cup {Nil}, warned : BOOLEAN, rc : {0, 1}]
  /\ raw \in [Tours -> Dates] /\ spoiled \subseteq Tours
  /\ prepared \in [Tours -> Dates \cup {Torn}]
  /\ artifact \in [Tours -> Dates] \cup {Nil, Torn}
  /\ loaded \in [Tours -> Dates] \cup {Nil}
  /\ stamps \subseteq Jobs
  /\ dm \in {"failed", "frozen", "ok", Nil}
  /\ beat \in [header : {"ok", "problems"}, warnings : SUBSET Warnings] \cup {Nil}

\* The tours that were set up have archives, a prepared file and a section.
Init ==
  /\ now = 0 /\ run = Waiting /\ faults = 0
  /\ \E tours \in SUBSET Tours :
       /\ raw = [t \in Tours |-> IF t \in tours THEN 0 ELSE Nil]
       /\ prepared = raw /\ spoiled = {}
       /\ artifact = IF tours = {} THEN Nil ELSE raw
  /\ loaded = Nil /\ stamps = Unstamped
  /\ dm = Nil /\ beat = Nil

-----------------------------------------------------------------------------
Up == loaded # Nil
Readable(model) == model \notin {Nil, Torn}
Covered(model) == {t \in Tours : model[t] # Nil}

\* Variant: age off the newest tour.
NewestFresh(model) == \E t \in Covered(model) : now - model[t] <= StaleAfter

\* _model_freshness: age off the OLDEST tour of the artifact.
Fresh(model) == \A t \in Covered(model) : now - model[t] <= StaleAfter

\* Variant: a section only for the tours that still advance.
AdvancingSections ==
  [t \in Tours |-> IF prepared[t] # Nil /\ now - prepared[t] > StaleAfter THEN Nil
                   ELSE prepared[t]]

\* _build_tour for each tour: a tour without a prepared file has no section.
Sections == prepared

\* Variant: the bot starts on whatever file is there.
Present == artifact # Nil

\* Model.from_artifact raises on a missing or torn file.
Loadable == Readable(artifact)

Fault == faults < MaxFaults /\ faults' = faults + 1

Tick == now < MaxTime /\ now' = now + 1
        /\ UNCHANGED <<run, files, bot, messages, faults>>

-----------------------------------------------------------------------------
(* prepare_matches.py --fetch: for each tour, fetch and then prepare.      *)

CronStarts ==
  /\ run.pc = "idle"
  /\ run' = [Waiting EXCEPT !.pc = "fetch", !.left = Tours]
  /\ UNCHANGED <<now, files, bot, messages, faults>>

\* Variant: the steps are chained with ; instead of &&.
Unchained == [run EXCEPT !.pc = "build", !.tour = Nil, !.left = {}]

\* The && chain: a failed step goes straight to the notification.
Failed == [run EXCEPT !.pc = "notify", !.tour = Nil, !.left = {}, !.rc = 1]

Answers == {"ok", "rejected", "missing", "unreachable"}

\* Variant: a fetch that brought nothing ends the run.
NothingEndsTheRun(got) == IF got THEN "prepare" ELSE "notify"

\* fetch returns its count and main ignores it: prepare runs in any case.
AfterFetch(got) == "prepare"

HasFiles(t) == raw[t] # Nil \/ t \in spoiled

\* Some file of a past year was written.
WithPast(t) == [raw EXCEPT ![t] = IF @ = Nil THEN 0 ELSE @]

\* fetch: the files of the past years in turn, then the one of the running year.
\* Only a usable body replaces a file, and it may or may not be the spoiled one.
FetchTour(t) ==
  /\ run.pc = "fetch" /\ t \in run.left
  /\ \E current \in Answers, past \in Answers, d \in Time :
       LET got == current = "ok" \/ past = "ok" IN
       /\ d <= now /\ (raw[t] # Nil => d >= raw[t])
       /\ raw' = IF current = "ok" THEN [raw EXCEPT ![t] = d]
                 ELSE IF past = "ok" THEN WithPast(t) ELSE raw
       /\ spoiled' \in IF got THEN {spoiled, spoiled \ {t}} ELSE {spoiled}
       /\ run' = [run EXCEPT
            !.pc = AfterFetch(got), !.left = @ \ {t}, !.tour = t,
            !.warned = @ \/ "rejected" \in {current, past} \/ (~got /\ HasFiles(t))]
  /\ UNCHANGED <<now, prepared, artifact, bot, messages, faults>>

\* prepare: without a year file the tour is skipped.
PrepareTour ==
  LET t == run.tour IN
  /\ run.pc = "prepare" /\ t \notin spoiled
  /\ prepared' = IF raw[t] = Nil THEN prepared ELSE [prepared EXCEPT ![t] = raw[t]]
  /\ run' = [run EXCEPT !.tour = Nil, !.pc = IF run.left = {} THEN "build" ELSE "fetch"]
  /\ UNCHANGED <<now, archive, artifact, bot, messages, faults>>

\* read_csv raises on a year file that a killed fetch left empty or cut.
PrepareRaises ==
  /\ run.pc = "prepare" /\ run.tour \in spoiled
  /\ run' = Failed
  /\ UNCHANGED <<now, files, bot, messages, faults>>

\* The container is killed.  write_bytes truncates the file first: what is there of
\* it cannot be read, or reads as fewer rows.
FetchFails(t) ==
  /\ run.pc = "fetch" /\ t \in run.left /\ Fault
  /\ run' = Failed
  /\ \/ UNCHANGED archive
     \/ raw' \in {raw, WithPast(t)} /\ spoiled' = spoiled \cup {t}
     \/ raw' \in {WithPast(t)} \cup
                 {[raw EXCEPT ![t] = d] : d \in {d \in Time : raw[t] # Nil /\ d < raw[t]}}
        /\ spoiled' \in {spoiled, spoiled \ {t}}
  /\ UNCHANGED <<now, prepared, artifact, bot, messages>>

\* The container of prepare is killed, be it in the middle of to_csv.
PrepareFails ==
  /\ run.pc = "prepare" /\ Fault
  /\ run' = Failed
  /\ prepared' \in {prepared} \cup
       (IF raw[run.tour] = Nil \/ run.tour \in spoiled THEN {}
        ELSE {[prepared EXCEPT ![run.tour] = Torn]})
  /\ UNCHANGED <<now, archive, artifact, bot, messages>>

-----------------------------------------------------------------------------
(* build_ratings.py, the restart, refresh_notify.py.                       *)

\* write_text opens the artifact, which truncates it, and then writes it.
\* Without any section nothing is written, and the exit code is 0.
BuildOpens ==
  /\ run.pc = "build"
  /\ IF Covered(prepared) = {}
     THEN run' = [run EXCEPT !.pc = "restart"] /\ UNCHANGED artifact
     ELSE run' = [run EXCEPT !.pc = "write"] /\ artifact' = Torn
  /\ UNCHANGED <<now, archive, prepared, bot, messages, faults>>

BuildWrites ==
  /\ run.pc = "write"
  /\ artifact' = Sections
  /\ run' = [run EXCEPT !.pc = "restart"]
  /\ UNCHANGED <<now, archive, prepared, bot, messages, faults>>

BuildFails ==
  /\ run.pc \in {"build", "write"} /\ Fault
  /\ run' = Failed
  /\ UNCHANGED <<now, files, bot, messages>>

\* Variant: the running bot is left as it is.
KeepsRunning == loaded

\* docker compose restart stops the bot; it comes back by OnStart.
Stopped == Nil

RestartBot ==
  /\ run.pc = "restart"
  /\ run' = [run EXCEPT !.pc = "notify"]
  /\ loaded' = Stopped /\ stamps' = Unstamped
  /\ UNCHANGED <<now, files, messages, faults>>

RestartFails ==
  /\ run.pc = "restart" /\ Fault
  /\ run' = Failed
  /\ UNCHANGED <<now, files, bot, messages>>

\* build_message: the exit code first, then this run's warnings.
WeeklyMessage ==
  IF run.rc # 0 THEN "failed" ELSE IF run.warned THEN "frozen" ELSE "ok"

\* The script ends, whether its message arrives or not.
Notify ==
  /\ run.pc = "notify"
  /\ \/ dm' = WeeklyMessage /\ UNCHANGED faults
     \/ Fault /\ dm' = Nil
  /\ run' = [Waiting EXCEPT !.rc = run.rc]
  /\ UNCHANGED <<now, files, bot, beat>>

-----------------------------------------------------------------------------
(* The bot.                                                                *)

\* Docker starts the container again until the artifact loads.
OnStart ==
  /\ ~Up /\ Loadable
  /\ loaded' = artifact
  /\ UNCHANGED <<now, run, files, stamps, messages, faults>>

Crash ==
  /\ Up /\ Fault
  /\ loaded' = Nil /\ stamps' = Unstamped
  /\ UNCHANGED <<now, run, files, messages>>

\* The scan and the result sweep stamp their end, a failure like a success.
JobEnds ==
  /\ Up
  /\ \E job \in Jobs : stamps' \in {stamps \cup {job}, stamps \ {job}}
  /\ UNCHANGED <<now, run, files, loaded, messages, faults>>

\* The lines of a heartbeat that carry a warning.  The ones of an artifact with
\* other parameters than the config, of rows without a start and of low credits
\* are worded like those of the jobs and left out.
Lines ==
  (IF Readable(artifact) /\ ~Fresh(artifact) THEN {"stale"} ELSE {}) \cup stamps

\* The freshness line carries its warning sign at the end.
StartsWithSign(line) == line # "stale"

\* _heartbeat_text, and the message it makes arrive.
Heartbeat ==
  /\ Up
  /\ beat' = [header |-> IF \E l \in Lines : StartsWithSign(l) THEN "problems" ELSE "ok",
              warnings |-> Lines]
  /\ UNCHANGED <<now, run, files, bot, dm, faults>>

-----------------------------------------------------------------------------
Script == CronStarts \/ (\E t \in Tours : FetchTour(t)) \/ PrepareTour \/ PrepareRaises
          \/ BuildOpens \/ BuildWrites \/ RestartBot \/ Notify

Next == \/ Tick \/ Script \/ (\E t \in Tours : FetchFails(t)) \/ PrepareFails \/ BuildFails
        \/ RestartFails \/ OnStart \/ Crash \/ JobEnds \/ Heartbeat

Spec == Init /\ [][Next]_vars

\* Cron runs every week and the script to its end.  Docker starts the bot again
\* and again, and it beats every day at another hour than the refresh: neither
\* always falls into the moments in which the artifact is half-written.
FairSpec == Spec /\ WF_vars(Script) /\ SF_vars(OnStart)
                 /\ SF_vars(Heartbeat /\ Readable(artifact))

-----------------------------------------------------------------------------
(* Properties. *)

\* weekly_refresh.sh, "no point building ratings from a failed fetch": ratings
\* are never built from a half-written match file, not even one that a killed
\* run left behind weeks ago.
NoTornInput == run.pc \in {"build", "write"} => \A t \in Tours : prepared[t] # Torn

\* refresh_notify, "Weekly refresh OK": from such a message to the next build the
\* bot serves the artifact on disk, or is still starting.
OkMeansServed ==
  dm = "ok" /\ run.pc \in {"idle", "fetch", "prepare"} /\ Up => loaded = artifact

Serves(t) == Up /\ loaded[t] # Nil

\* build_ratings drops a tour it finds no matches for: no failed fetch, killed
\* run or restart ever takes a tour away from the model that is served.
TourKept == \A t \in Tours : [](Serves(t) => [](Up => Serves(t)))

Serving == INSTANCE ServedModel WITH known <- Covered(prepared), file <- artifact, served <- loaded

\* The pipeline implements ServedModel: through failed fetches, killed steps, restarts
\* and crashes the bot serves one whole build at a time, with every tour that has a
\* match file, and changes it by a restart only.
ServesWholeBuilds == Serving!Spec

Advancing == Readable(artifact) /\ \A t \in Covered(artifact) : now - artifact[t] <= StaleAfter
Flagged == beat # Nil /\ "stale" \in beat.warnings

\* The two faults the pipeline cannot mend by itself: a build was killed while it
\* wrote, and the feed never again serves a year file that was cut.
Stuck == artifact = Torn /\ spoiled # {}

\* bot._model_freshness, "the ONLY routine signal that the weekly refresh has
\* silently failed": when some tour of the artifact stops advancing for good, be it
\* for a cut year file, the heartbeat carries the flag again and again.
FrozenModelIsFlagged ==
  []<>(artifact = Nil) \/ []<>Advancing \/ []<>Flagged \/ <>[]Stuck

\* A bot that is down on a torn artifact comes back, unless it stays stuck so.
BotComesBack == ((~Up /\ artifact # Nil) ~> Up) \/ <>[]Stuck
=============================================================================
