--------------------------- MODULE Refresh_proofs ---------------------------
(***************************************************************************)
(* Theorems about Refresh, for every set of tours and jobs, every horizon  *)
(* and any number of faults.                                               *)
(*                                                                         *)
(* Inv is inductive.  Prepared says how far a run has cleaned up the match *)
(* files and opened the artifact, OnDisk that a bot which was restarted    *)
(* serves what it found, and Archived that a tour, once it has a prepared  *)
(* file, a section or a place in the served model, has everything before   *)
(* it in the pipeline.                                                     *)
(***************************************************************************)
EXTENDS Refresh, TLAPS

Prepared ==
  /\ run.pc = "fetch" => \A t \in Tours \ run.left : prepared[t] # Torn
  /\ run.pc = "prepare" => /\ run.tour \in Tours
                           /\ \A t \in Tours \ (run.left \cup {run.tour}) : prepared[t] # Torn
  /\ run.pc \in {"build", "write"} => \A t \in Tours : prepared[t] # Torn
  /\ run.pc = "write" => artifact = Torn

OnDisk ==
  /\ run.pc = "notify" /\ run.rc = 0 /\ Up => loaded = artifact
  /\ OkMeansServed

Archived == \A t \in Tours :
  /\ prepared[t] # Nil => raw[t] # Nil
  /\ Readable(artifact) /\ artifact[t] # Nil => prepared[t] # Nil
  /\ Up /\ loaded[t] # Nil => prepared[t] # Nil /\ (Readable(artifact) => artifact[t] # Nil)

Inv == TypeOK /\ Prepared /\ OnDisk /\ Archived

-----------------------------------------------------------------------------
(* The script. *)

Pcs == {"idle", "fetch", "prepare", "build", "write", "restart", "notify"}
Runs == [pc : Pcs, left : SUBSET Tours, tour : Tours \cup {Nil}, warned : BOOLEAN, rc : {0, 1}]

\* A run that fails, or waits for its week, is a run.
LEMMA RunType ==
  ASSUME run \in Runs
  PROVE  /\ Waiting \in Runs /\ Waiting.pc = "idle"
         /\ Failed \in Runs /\ Failed.pc = "notify" /\ Failed.rc = 1
         /\ [Waiting EXCEPT !.rc = run.rc] \in Runs
         /\ [Waiting EXCEPT !.rc = run.rc].pc = "idle"
         /\ \A pc \in Pcs : [run EXCEPT !.pc = pc] \in Runs
         /\ \A pc \in Pcs : [run EXCEPT !.pc = pc].pc = pc
         /\ \A pc \in Pcs : [run EXCEPT !.pc = pc].rc = run.rc
BY DEF Runs, Pcs, Waiting, Failed

LEMMA Absent ==
  /\ Torn \notin Dates /\ Torn # Nil /\ Nil \notin Time /\ 0 \in Time
  /\ Nil \notin [Tours -> Dates] /\ Torn \notin [Tours -> Dates]
BY AbsentAssumption, HorizonAssumption DEF Dates, Time

\* The files of the initial tours are those of one past week.
LEMMA InitInv == Init => Inv
<1> SUFFICES ASSUME Init PROVE Inv OBVIOUS
<1>1. PICK tours \in SUBSET Tours :
        /\ raw = [t \in Tours |-> IF t \in tours THEN 0 ELSE Nil]
        /\ prepared = raw
        /\ artifact = IF tours = {} THEN Nil ELSE raw
  BY DEF Init
<1>2. raw \in [Tours -> Dates] BY <1>1, Absent DEF Dates
<1>3. Waiting \in Runs /\ Waiting.pc = "idle" BY DEF Waiting, Runs, Pcs
<1>4. TypeOK
  <2>1. 0 \in Time BY Absent
  <2>2. 0 \in 0..MaxFaults BY HorizonAssumption
  <2>3. prepared \in [Tours -> Dates \cup {Torn}] BY <1>1, <1>2
  <2>4. artifact \in [Tours -> Dates] \cup {Nil, Torn} BY <1>1, <1>2
  <2> QED BY <1>2, <1>3, <2>1, <2>2, <2>3, <2>4 DEF TypeOK, Init, Runs, Pcs, Unstamped
<1>5. Prepared BY <1>3 DEF Prepared, Init
<1>6. OnDisk BY DEF OnDisk, OkMeansServed, Up, Init
<1>7. Archived BY <1>1, <1>2, Absent DEF Archived, Up, Readable, Init
<1> QED BY <1>4, <1>5, <1>6, <1>7 DEF Inv

-----------------------------------------------------------------------------
(* prepare_matches.py. *)

LEMMA FetchStep ==
  ASSUME Inv, NEW t \in Tours, FetchTour(t)
  PROVE  Inv'
<1>1. run \in Runs /\ raw \in [Tours -> Dates] /\ prepared \in [Tours -> Dates \cup {Torn}]
  BY DEF Inv, TypeOK, Runs, Pcs
<1>2. PICK current \in Answers, past \in Answers, d \in Time :
       LET got == current = "ok" \/ past = "ok" IN
       /\ raw' = IF current = "ok" THEN [raw EXCEPT ![t] = d]
                 ELSE IF past = "ok" THEN WithPast(t) ELSE raw
       /\ spoiled' \in IF got THEN {spoiled, spoiled \ {t}} ELSE {spoiled}
       /\ run' = [run EXCEPT
            !.pc = AfterFetch(got), !.left = @ \ {t}, !.tour = t,
            !.warned = @ \/ "rejected" \in {current, past} \/ (~got /\ HasFiles(t))]
  BY DEF FetchTour
<1>3. UNCHANGED <<now, prepared, artifact, bot, messages, faults>> BY DEF FetchTour
<1>4. raw' \in [Tours -> Dates] /\ \A u \in Tours : raw[u] # Nil => raw'[u] # Nil
  BY <1>1, <1>2, Absent DEF Dates, WithPast
<1>5. run' \in Runs /\ run'.pc = "prepare" /\ run'.tour = t /\ run'.left = run.left \ {t}
  BY <1>1, <1>2 DEF Runs, Pcs, AfterFetch
<1>6. TypeOK'
  <2>1. spoiled' \in SUBSET Tours BY <1>2 DEF Inv, TypeOK
  <2> QED BY <1>3, <1>4, <1>5, <2>1 DEF Inv, TypeOK, Runs, Pcs, bot, messages
<1>7. Prepared' BY <1>3, <1>5 DEF FetchTour, Inv, Prepared
<1>8. OnDisk'
  <2>1. run.pc = "fetch" BY DEF FetchTour
  <2> QED BY <1>3, <1>5, <2>1 DEF Inv, OnDisk, OkMeansServed, Up, bot, messages
<1>9. Archived' BY <1>3, <1>4 DEF Inv, Archived, Up, Readable, bot
<1> QED BY <1>6, <1>7, <1>8, <1>9 DEF Inv

LEMMA PrepareStep ==
  ASSUME Inv, PrepareTour
  PROVE  Inv'
<1> DEFINE t == run.tour
<1>1. run \in Runs /\ raw \in [Tours -> Dates] /\ prepared \in [Tours -> Dates \cup {Torn}]
  BY DEF Inv, TypeOK, Runs, Pcs
<1>2. run.pc = "prepare" /\ t \in Tours BY DEF PrepareTour, Inv, Prepared
<1>3. /\ prepared' = IF raw[t] = Nil THEN prepared ELSE [prepared EXCEPT ![t] = raw[t]]
      /\ UNCHANGED <<now, raw, spoiled, artifact, bot, messages, faults>>
  BY DEF PrepareTour, archive
<1>4. /\ run' \in Runs /\ run'.left = run.left
      /\ run'.pc = IF run.left = {} THEN "build" ELSE "fetch"
  BY <1>1 DEF PrepareTour, Runs, Pcs
<1>5. /\ prepared' \in [Tours -> Dates \cup {Torn}]
      /\ prepared'[t] # Torn
      /\ \A u \in Tours \ {t} : prepared'[u] = prepared[u]
      /\ \A u \in Tours : prepared[u] # Nil => prepared'[u] # Nil
      /\ \A u \in Tours : prepared'[u] # Nil => prepared[u] # Nil \/ raw[u] # Nil
  <2>1. CASE raw[t] = Nil
    <3>1. prepared[t] = Nil BY <1>2, <2>1 DEF Inv, Archived
    <3> QED BY <1>1, <1>2, <1>3, <2>1, <3>1, Absent
  <2>2. CASE raw[t] # Nil
    <3>1. raw[t] \in Dates /\ raw[t] # Torn BY <1>1, <1>2, Absent
    <3> QED BY <1>1, <1>2, <1>3, <2>2, <3>1
  <2> QED BY <2>1, <2>2
<1>6. TypeOK' BY <1>3, <1>4, <1>5 DEF Inv, TypeOK, Runs, Pcs, bot, messages
<1>7. Prepared'
  <2>1. \A u \in Tours \ run.left : prepared'[u] # Torn
    BY <1>2, <1>5 DEF Inv, Prepared
  <2> QED BY <1>4, <2>1 DEF Prepared
<1>8. OnDisk' BY <1>2, <1>3, <1>4 DEF Inv, OnDisk, OkMeansServed, Up, bot, messages
<1>9. Archived' BY <1>3, <1>5 DEF Inv, Archived, Up, Readable, bot
<1> QED BY <1>6, <1>7, <1>8, <1>9 DEF Inv

-----------------------------------------------------------------------------
(* build_ratings.py, the restart and the message. *)

LEMMA BuildStep ==
  ASSUME Inv, BuildOpens \/ BuildWrites
  PROVE  Inv'
<1>1. run \in Runs /\ prepared \in [Tours -> Dates \cup {Torn}] BY DEF Inv, TypeOK, Runs, Pcs
<1>2. UNCHANGED <<now, raw, spoiled, prepared, bot, messages, faults>>
  BY DEF BuildOpens, BuildWrites, archive
<1>3. run.pc \in {"build", "write"} BY DEF BuildOpens, BuildWrites
<1>4. \A t \in Tours : prepared[t] # Torn BY <1>3 DEF Inv, Prepared
<1>5. prepared \in [Tours -> Dates] BY <1>1, <1>4
<1>6. artifact' \in {artifact, Torn, prepared} BY DEF BuildOpens, BuildWrites, Sections
<1>7. \E pc \in {"write", "restart"} : run' = [run EXCEPT !.pc = pc] BY DEF BuildOpens, BuildWrites
<1>8. run' \in Runs /\ run'.pc \in {"write", "restart"} BY <1>1, <1>7, RunType DEF Pcs
<1>9. TypeOK'
  <2>1. artifact' \in [Tours -> Dates] \cup {Nil, Torn} BY <1>5, <1>6 DEF Inv, TypeOK
  <2> QED BY <1>2, <1>8, <2>1 DEF Inv, TypeOK, Runs, Pcs, bot, messages
<1>10. Prepared'
  <2>1. run'.pc = "write" => artifact' = Torn
    <3>1. CASE BuildOpens BY <1>1, <3>1 DEF BuildOpens, Runs
    <3>2. CASE BuildWrites BY <1>1, <3>2 DEF BuildWrites, Runs
    <3> QED BY <3>1, <3>2
  <2> QED BY <1>2, <1>4, <1>8, <2>1 DEF Prepared
<1>11. OnDisk' BY <1>8 DEF OnDisk, OkMeansServed
<1>12. Archived' BY <1>2, <1>6, Absent DEF Inv, Archived, Up, Readable, bot
<1> QED BY <1>9, <1>10, <1>11, <1>12 DEF Inv

LEMMA RestartStep ==
  ASSUME Inv, RestartBot
  PROVE  Inv'
<1>1. run \in Runs BY DEF Inv, TypeOK, Runs, Pcs
<1>2. run' \in Runs /\ run'.pc = "notify" BY <1>1, RunType DEF RestartBot, Pcs
<1>3. loaded' = Nil /\ stamps' = {} /\ UNCHANGED <<now, files, messages, faults>>
  BY DEF RestartBot, Stopped, Unstamped
<1>4. TypeOK' BY <1>2, <1>3 DEF Inv, TypeOK, Runs, Pcs, files, archive, messages
<1>5. Prepared' BY <1>2 DEF Prepared
<1>6. OnDisk' BY <1>2, <1>3 DEF OnDisk, OkMeansServed, Up
<1>7. Archived' BY <1>3 DEF Inv, Archived, Up, Readable, files, archive
<1> QED BY <1>4, <1>5, <1>6, <1>7 DEF Inv

\* A message that all went well is sent by a run whose restart came back.
LEMMA NotifyStep ==
  ASSUME Inv, Notify
  PROVE  Inv'
<1>1. run \in Runs BY DEF Inv, TypeOK, Runs, Pcs
<1>2. run' \in Runs /\ run'.pc = "idle" BY <1>1, RunType DEF Notify
<1>3. dm' \in {"failed", "frozen", "ok", Nil} /\ (dm' = "ok" => run.rc = 0)
  <2>1. WeeklyMessage \in {"failed", "frozen", "ok"} /\ (WeeklyMessage = "ok" => run.rc = 0)
    BY DEF WeeklyMessage
  <2>2. dm' = WeeklyMessage \/ dm' = Nil BY DEF Notify
  <2> QED BY <2>1, <2>2, AbsentAssumption
<1>4. faults' \in 0..MaxFaults /\ UNCHANGED <<now, files, bot, beat>>
  BY HorizonAssumption DEF Notify, Fault, Inv, TypeOK
<1>5. TypeOK' BY <1>2, <1>3, <1>4 DEF Inv, TypeOK, Runs, Pcs, files, archive, bot
<1>6. Prepared' BY <1>2 DEF Prepared
<1>7. OnDisk'
  <2>1. run.pc = "notify" BY DEF Notify
  <2> QED BY <1>2, <1>3, <1>4, <2>1 DEF Inv, OnDisk, OkMeansServed, Up, files, archive, bot
<1>8. Archived' BY <1>4 DEF Inv, Archived, Up, Readable, files, archive, bot
<1> QED BY <1>5, <1>6, <1>7, <1>8 DEF Inv

\* A step that fails, whatever it leaves of the file it was writing.
LEMMA FailStep ==
  ASSUME Inv, (\E t \in Tours : FetchFails(t)) \/ PrepareRaises \/ PrepareFails
              \/ BuildFails \/ RestartFails
  PROVE  Inv'
<1>1. run \in Runs /\ raw \in [Tours -> Dates] /\ prepared \in [Tours -> Dates \cup {Torn}]
  BY DEF Inv, TypeOK, Runs, Pcs
<1>2. run' = Failed /\ (Fault \/ UNCHANGED faults) /\ UNCHANGED <<now, artifact, bot, messages>>
  BY DEF FetchFails, PrepareRaises, PrepareFails, BuildFails, RestartFails, files, archive
<1>3. run' \in Runs /\ run'.pc = "notify" /\ run'.rc = 1 BY <1>1, <1>2, RunType
<1>4. /\ raw' \in [Tours -> Dates] /\ \A t \in Tours : raw[t] # Nil => raw'[t] # Nil
      /\ spoiled' \subseteq Tours
      /\ prepared' \in [Tours -> Dates \cup {Torn}]
      /\ \A t \in Tours : /\ prepared[t] # Nil => prepared'[t] # Nil
                          /\ prepared'[t] # Nil => prepared[t] # Nil \/ raw[t] # Nil
  <2>1. CASE \E t \in Tours : FetchFails(t)
    <3>1. PICK t \in Tours : FetchFails(t) BY <2>1
    <3>2. prepared' = prepared
          /\ (raw' = raw \/ raw' = WithPast(t)
              \/ \E d \in Time : raw[t] # Nil /\ raw' = [raw EXCEPT ![t] = d])
      BY <3>1 DEF FetchFails, archive
    <3>3. spoiled' \in {spoiled, spoiled \cup {t}, spoiled \ {t}} BY <3>1 DEF FetchFails, archive
    <3>4. spoiled' \subseteq Tours BY <3>3 DEF Inv, TypeOK
    <3> QED BY <1>1, <3>2, <3>4, Absent DEF Dates, WithPast
  <2>2. CASE PrepareFails
    <3>1. run.tour \in Tours BY <2>2 DEF PrepareFails, Inv, Prepared
    <3>2. raw' = raw /\ (prepared' = prepared
             \/ (raw[run.tour] # Nil /\ prepared' = [prepared EXCEPT ![run.tour] = Torn]))
      BY <2>2 DEF PrepareFails, archive
    <3>3. spoiled' \subseteq Tours BY <2>2 DEF PrepareFails, archive, Inv, TypeOK
    <3> QED BY <1>1, <3>1, <3>2, <3>3, Absent
  <2>3. CASE PrepareRaises \/ BuildFails \/ RestartFails
    BY <1>1, <2>3 DEF PrepareRaises, BuildFails, RestartFails, files, archive, Inv, TypeOK
  <2> QED BY <2>1, <2>2, <2>3
<1>5. TypeOK'
  <2>1. faults' \in 0..MaxFaults BY <1>2, HorizonAssumption DEF Fault, Inv, TypeOK
  <2> QED BY <1>2, <1>3, <1>4, <2>1 DEF Inv, TypeOK, Runs, Pcs, bot, messages
<1>6. Prepared' BY <1>3 DEF Prepared
<1>7. OnDisk' BY <1>3 DEF OnDisk, OkMeansServed
<1>8. Archived' BY <1>2, <1>4 DEF Inv, Archived, Up, Readable, bot
<1> QED BY <1>5, <1>6, <1>7, <1>8 DEF Inv

-----------------------------------------------------------------------------
(* The bot. *)

LEMMA BotStep ==
  ASSUME Inv, OnStart \/ Crash
  PROVE  Inv'
<1>1. /\ UNCHANGED <<now, run, files, messages>> /\ stamps' \in {stamps, {}}
      /\ faults' \in 0..MaxFaults
      /\ loaded' = Nil \/ (loaded' = artifact /\ Readable(artifact))
  BY HorizonAssumption DEF OnStart, Crash, Loadable, Unstamped, Fault, Inv, TypeOK
<1>2. TypeOK' BY <1>1 DEF Inv, TypeOK, files, archive, messages, Readable
<1>3. Prepared' BY <1>1 DEF Inv, Prepared, files, archive
<1>4. OnDisk' BY <1>1 DEF OnDisk, OkMeansServed, Up, files, archive
<1>5. Archived' BY <1>1 DEF Inv, Archived, Up, Readable, files, archive
<1> QED BY <1>2, <1>3, <1>4, <1>5 DEF Inv

\* Time, a new week, a stamp and a heartbeat leave what the pipeline made.
LEMMA QuietStep ==
  ASSUME Inv, Tick \/ CronStarts \/ JobEnds \/ Heartbeat \/ UNCHANGED vars
  PROVE  Inv'
<1>1. UNCHANGED <<files, loaded, dm, faults>>
  BY DEF Tick, CronStarts, JobEnds, Heartbeat, vars, files, archive, bot, messages
<1>2. run \in Runs BY DEF Inv, TypeOK, Runs, Pcs
<1>3. /\ run' \in Runs
      /\ \/ run' = run
         \/ run.pc = "idle" /\ run'.pc = "fetch" /\ run'.left = Tours
  BY <1>2 DEF Tick, CronStarts, JobEnds, Heartbeat, vars, Waiting, Runs, Pcs
<1>4. TypeOK'
  <2>1. now' \in Time
    BY HorizonAssumption DEF Tick, CronStarts, JobEnds, Heartbeat, vars, Time, Inv, TypeOK
  <2>2. stamps' \subseteq Jobs
    BY DEF Tick, CronStarts, JobEnds, Heartbeat, vars, bot, Inv, TypeOK
  <2>3. Lines \in SUBSET Warnings BY DEF Lines, Warnings, Inv, TypeOK
  <2>4. beat' \in [header : {"ok", "problems"}, warnings : SUBSET Warnings] \cup {Nil}
    BY <2>3 DEF Tick, CronStarts, JobEnds, Heartbeat, vars, messages, Inv, TypeOK
  <2> QED BY <1>1, <1>3, <2>1, <2>2, <2>4 DEF Inv, TypeOK, Runs, Pcs, files, archive
<1>5. Prepared' BY <1>1, <1>3 DEF Inv, Prepared, files, archive
<1>6. OnDisk' BY <1>1, <1>3 DEF Inv, OnDisk, OkMeansServed, Up, files, archive
<1>7. Archived' BY <1>1 DEF Inv, Archived, Up, Readable, files, archive
<1> QED BY <1>4, <1>5, <1>6, <1>7 DEF Inv

LEMMA NextInv ==
  ASSUME Inv, [Next]_vars
  PROVE  Inv'
<1>1. ASSUME NEW t \in Tours, FetchTour(t) PROVE Inv' BY <1>1, FetchStep
<1> QED BY <1>1, PrepareStep, BuildStep, RestartStep, NotifyStep, FailStep, BotStep, QuietStep
        DEF Next, Script

LEMMA InvHolds == Spec => []Inv
BY InitInv, NextInv, PTL DEF Spec

-----------------------------------------------------------------------------
(* A tour that is served. *)

\* Everything of a tour that a step of the pipeline could lose.
Kept(t) ==
  /\ raw[t] # Nil /\ prepared[t] # Nil
  /\ Readable(artifact) => artifact[t] # Nil
  /\ Up => loaded[t] # Nil

\* What is served has all of it.
LEMMA ServedIsKept ==
  ASSUME Inv, NEW t \in Tours, Serves(t)
  PROVE  Kept(t)
BY DEF Inv, Archived, Serves, Kept

\* A torn or rewritten file is still a file; a bot that starts reads the artifact.
LEMMA KeptStays ==
  ASSUME Inv, NEW t \in Tours, Kept(t), [Next]_vars
  PROVE  Kept(t)'
<1>1. /\ raw \in [Tours -> Dates] /\ prepared \in [Tours -> Dates \cup {Torn}]
      /\ run.pc = "prepare" => run.tour \in Tours
  BY DEF Inv, TypeOK, Prepared
<1>2. raw'[t] # Nil
  <2>1. CASE \E u \in Tours : FetchTour(u)
    <3>1. PICK u \in Tours : FetchTour(u) BY <2>1
    <3>2. PICK d \in Time : raw' \in {raw, WithPast(u), [raw EXCEPT ![u] = d]}
      BY <3>1 DEF FetchTour
    <3> QED BY <1>1, <3>2, Absent DEF Kept, WithPast
  <2>2. CASE \E u \in Tours : FetchFails(u)
    <3>1. PICK u \in Tours : FetchFails(u) BY <2>2
    <3>2. raw' = raw \/ raw' = WithPast(u) \/ \E d \in Time : raw' = [raw EXCEPT ![u] = d]
      BY <3>1 DEF FetchFails, archive
    <3> QED BY <1>1, <3>2, Absent DEF Kept, WithPast
  <2>3. CASE ~(\E u \in Tours : FetchTour(u) \/ FetchFails(u))
    <3>1. raw' = raw
      BY <2>3 DEF Next, Script, vars, Tick, CronStarts, PrepareTour, BuildOpens, BuildWrites,
                  RestartBot, Notify, PrepareRaises, PrepareFails, BuildFails, RestartFails,
                  OnStart, Crash, JobEnds, Heartbeat, files, archive
    <3> QED BY <3>1 DEF Kept
  <2> QED BY <2>1, <2>2, <2>3
<1>3. prepared'[t] # Nil
  <2>1. CASE PrepareTour
    <3>1. run.tour \in Tours BY <1>1, <2>1 DEF PrepareTour
    <3>2. prepared' = prepared
          \/ (raw[run.tour] # Nil /\ prepared' = [prepared EXCEPT ![run.tour] = raw[run.tour]])
      BY <2>1 DEF PrepareTour
    <3> QED BY <1>1, <3>1, <3>2 DEF Kept
  <2>2. CASE PrepareFails
    <3>1. run.tour \in Tours BY <1>1, <2>2 DEF PrepareFails
    <3>2. prepared' = prepared \/ prepared' = [prepared EXCEPT ![run.tour] = Torn]
      BY <2>2 DEF PrepareFails
    <3> QED BY <1>1, <3>1, <3>2, Absent DEF Kept
  <2>3. CASE ~PrepareTour /\ ~PrepareFails
    <3>1. prepared' = prepared
      BY <2>3 DEF Next, Script, vars, Tick, CronStarts, FetchTour, BuildOpens, BuildWrites,
                  RestartBot, Notify, FetchFails, PrepareRaises, BuildFails, RestartFails, OnStart,
                  Crash, JobEnds, Heartbeat, files, archive
    <3> QED BY <3>1 DEF Kept
  <2> QED BY <2>1, <2>2, <2>3
<1>4. Readable(artifact)' => artifact'[t] # Nil
  <2>1. artifact' \in {artifact, Torn, prepared}
    BY DEF Next, Script, vars, Tick, CronStarts, FetchTour, PrepareTour, BuildOpens, BuildWrites,
           RestartBot, Notify, FetchFails, PrepareRaises, PrepareFails, BuildFails, RestartFails,
           OnStart, Crash, JobEnds, Heartbeat, files, archive, Sections
  <2> QED BY <2>1 DEF Kept, Readable
<1>5. Up' => loaded'[t] # Nil
  <2>1. loaded' = loaded \/ loaded' = Nil \/ (loaded' = artifact /\ Readable(artifact))
    BY DEF Next, Script, vars, Tick, CronStarts, FetchTour, PrepareTour, BuildOpens, BuildWrites,
           RestartBot, Notify, FetchFails, PrepareRaises, PrepareFails, BuildFails, RestartFails,
           OnStart, Crash, JobEnds, Heartbeat, bot, Stopped, Loadable
  <2> QED BY <2>1 DEF Kept, Up
<1> QED BY <1>2, <1>3, <1>4, <1>5 DEF Kept

-----------------------------------------------------------------------------
(* The abstract specification. *)

Served == <<Covered(prepared), artifact, loaded>>

\* The tours that were set up have a section each.
LEMMA ServingInit == Init => Serving!Init
<1> SUFFICES ASSUME Init PROVE Serving!Init OBVIOUS
<1>1. PICK tours \in SUBSET Tours :
        /\ prepared = [t \in Tours |-> IF t \in tours THEN 0 ELSE Nil]
        /\ artifact = IF tours = {} THEN Nil ELSE prepared
  BY DEF Init
<1>2. Covered(prepared) = tours BY <1>1, Absent DEF Covered
<1>3. prepared \in Serving!Builds BY <1>1, <1>2, Absent DEF Serving!Builds, Dates
<1>4. loaded = Nil BY DEF Init
<1> QED BY <1>1, <1>2, <1>3, <1>4 DEF Serving!Init

\* A tour that has a match file keeps one: a killed prepare leaves it torn.
LEMMA PreparingLearns ==
  ASSUME Inv, PrepareTour \/ PrepareFails
  PROVE  Serving!Learn
<1>1. prepared \in [Tours -> Dates \cup {Torn}] /\ run.tour \in Tours
  BY DEF Inv, TypeOK, Prepared, PrepareTour, PrepareFails
<1>2. UNCHANGED <<artifact, loaded>> BY DEF PrepareTour, PrepareFails, bot
<1>3. \/ prepared' = prepared
      \/ raw[run.tour] # Nil /\ prepared' = [prepared EXCEPT ![run.tour] = raw[run.tour]]
      \/ prepared' = [prepared EXCEPT ![run.tour] = Torn]
  BY DEF PrepareTour, PrepareFails
<1>4. \A t \in Tours : prepared[t] # Nil => prepared'[t] # Nil BY <1>1, <1>3, Absent
<1>5. Covered(prepared) \subseteq Covered(prepared') /\ Covered(prepared') \in SUBSET Tours
  BY <1>4 DEF Covered
<1> QED BY <1>2, <1>5 DEF Serving!Learn, Covered

\* The build reads whole files only, hence its sections are those of every tour there is.
LEMMA BuildIsWhole ==
  ASSUME Inv, BuildWrites
  PROVE  Serving!Write
<1>1. run.pc = "write" BY DEF BuildWrites
<1>2. artifact = Torn /\ prepared \in [Tours -> Dates]
  BY <1>1 DEF Inv, TypeOK, Prepared
<1>3. prepared \in Serving!Builds BY <1>2 DEF Serving!Builds, Covered
<1>4. artifact' = prepared /\ UNCHANGED <<prepared, loaded>> BY DEF BuildWrites, Sections, bot
<1>5. Covered(prepared') = Covered(prepared) BY <1>4
<1> QED BY <1>2, <1>3, <1>4, <1>5 DEF Serving!Write, Covered

\* Every step of the pipeline, the bot and their faults is one of the abstract
\* specification, or none.
LEMMA ServingStep ==
  ASSUME Inv, [Next]_vars
  PROVE  [Serving!Next]_Served
<1>1. CASE PrepareTour \/ PrepareFails BY <1>1, PreparingLearns DEF Serving!Next
<1>2. CASE BuildWrites BY <1>2, BuildIsWhole DEF Serving!Next
<1>3. CASE BuildOpens
  <2>1. /\ UNCHANGED <<prepared, loaded>>
        /\ UNCHANGED artifact \/ (Covered(prepared) # {} /\ artifact' = Torn)
    BY <1>3 DEF BuildOpens, bot
  <2>2. Covered(prepared') = Covered(prepared) BY <2>1
  <2> QED BY <2>1, <2>2 DEF Serving!Next, Serving!Open, Served, Covered
<1>4. CASE OnStart
  <2>1. /\ UNCHANGED <<prepared, artifact>>
        /\ loaded = Nil /\ artifact \notin {Nil, Torn} /\ loaded' = artifact
    BY <1>4 DEF OnStart, Up, Loadable, Readable, files, archive
  <2>2. Covered(prepared') = Covered(prepared) BY <2>1
  <2> QED BY <2>1, <2>2 DEF Serving!Next, Serving!Start, Covered
<1>5. CASE RestartBot \/ Crash
  <2>1. UNCHANGED <<prepared, artifact>> /\ loaded' = Nil
    BY <1>5 DEF RestartBot, Crash, Stopped, files, archive
  <2>2. Covered(prepared') = Covered(prepared) BY <2>1
  <2> QED BY <2>1, <2>2 DEF Serving!Next, Serving!Stop, Covered
<1>6. CASE ~(PrepareTour \/ PrepareFails \/ BuildWrites \/ BuildOpens \/ OnStart \/ RestartBot
              \/ Crash)
  <2>1. UNCHANGED <<prepared, artifact, loaded>>
    BY <1>6 DEF Next, Script, vars, Tick, CronStarts, FetchTour, Notify, FetchFails,
                PrepareRaises, BuildFails, RestartFails, JobEnds, Heartbeat, files, archive, bot
  <2> QED BY <2>1 DEF Served, Covered
<1> QED BY <1>1, <1>2, <1>3, <1>4, <1>5, <1>6

-----------------------------------------------------------------------------
(* The theorems. *)

\* The served model is never a torn or half-written artifact, and every file holds
\* what its writer can leave.
THEOREM TypeCorrect == Spec => []TypeOK
<1>1. Inv => TypeOK BY DEF Inv
<1> QED BY InvHolds, <1>1, PTL

\* build_ratings never reads a match file that a killed prepare left half-written.
THEOREM BuildsFromWholeFiles == Spec => []NoTornInput
<1>1. Inv => NoTornInput BY DEF Inv, Prepared, NoTornInput
<1> QED BY InvHolds, <1>1, PTL

\* The weekly message says OK of a build that is served.
THEOREM OkIsTrue == Spec => []OkMeansServed
<1>1. Inv => OkMeansServed BY DEF Inv, OnDisk
<1> QED BY InvHolds, <1>1, PTL

\* No failed fetch, killed run or restart ever takes a tour away from the served model.
THEOREM NoTourIsLost == Spec => TourKept
<1>1. ASSUME NEW t \in Tours
      PROVE  Spec => [](Serves(t) => [](Up => Serves(t)))
  <2>1. Inv /\ Serves(t) => Kept(t) BY ServedIsKept
  <2>2. Inv /\ Kept(t) /\ [Next]_vars => Kept(t)' BY KeptStays
  <2>3. Kept(t) => (Up => Serves(t)) BY DEF Kept, Serves
  <2> QED BY InvHolds, <2>1, <2>2, <2>3, PTL DEF Spec
<1> QED BY <1>1 DEF TourKept

\* For any tours and any faults the refresh, the bot and its restarts implement
\* ServedModel: what is served is one whole build, with every tour that had matches.
THEOREM ImplementsServedModel == Spec => ServesWholeBuilds
<1>1. Inv /\ [Next]_vars => [Serving!Next]_Served BY ServingStep
<1>2. Serving!Spec <=> Serving!Init /\ [][Serving!Next]_Served BY DEF Serving!Spec, Served
<1> QED BY ServingInit, InvHolds, <1>1, <1>2, PTL DEF Spec, ServesWholeBuilds
=============================================================================
