# Project Matador: TLA+ models, checks and proofs

Matador compares an Elo win probability for a tennis match with the price of the
match on Kalshi, logs the opportunities it finds as paper bets, captures the
closing line of each one just before the match starts, records how each one
settled, and reports the closing-line value (CLV) that decides whether it may go
live. One bot process (python-telegram-bot, an event loop with a job queue) does
all of this over one SQLite file; `scripts/*.py` write to the same file from other
processes; a weekly cron job rebuilds the rating artifact.

The value of the log lies in properties no single function has: a close that is
recorded once, and before the match is under way; a position that is counted once;
a result that the owner can always overrule; nothing that is lost by a restart.
These are what the models are about.

## 1. Inventory

| Component (source) | State | Operations | What makes it correct |
| --- | --- | --- | --- |
| Closing-line capture (`matador/bot.py` 279-383, 491-504, 817-896, 1192-1195, `storage.py`) | `outcomes` rows, `opportunities.occurrence_datetime`, jobs `close:{id}` in memory, capture threads | arm, fire, reconcile the start, guard, snapshot, miss, `/close`, re-arm, restart | recorded once; never in play; fails closed; every timed row settles |
| Scheduled scan cycle (`bot.py` 584-660, 899-935) | phase of the job, `new_ids`, restamped rows | sweep, arm, announce, sharp entry, re-arm | its rows are armed, announced and found whatever fails |
| Opportunity log and dedup (`engine.py` 224-256, 355-394, `storage.py` 227-260, `bot.py` 182-248, `scripts/scan.py`) | `opportunities` | evaluate, read last position, insert, show the prior row | one row per economic position |
| Settlement (`bot.py` 400-488, 938-996, `storage.py` 154-192, 262-280) | result columns of `outcomes`, `scalar_flagged` | `/result`, auto-result sweep, announcements | the owner wins; the automatic result is right; what needs a human reaches one |
| Heartbeat (`bot.py` 999-1190) | `bot_data` stamps, the model file's date | stamp, daily message, dead-man ping | a dead job or a frozen model is seen |
| Pricing (`edge.py`, `engine.py` 97-222) | none | fee, net edge, side, Kelly, gates | positive edge after the fee, on the right side, bounded stake |
| CLV report and go-live gate (`clv.py` 121-244) | none; it reads the joined log | `summarize`, `net_pnl`, bootstrap, co-gates | sharp evidence alone opens the gate, bad news never does, its P&L is the recorded one |
| Elo and walk-forward (`model/elo.py`, `backtest.py`, `model/calibration.py`) | ratings while replaying | update, predict | no look-ahead, same-day batching |
| Name resolution (`names.py`, `model/probability.py`, `tournament.py`) | indexes | resolve a name, a pair of surnames, a tournament | a rated player is never taken for another; abstains rather than guesses |
| Weekly refresh (`scripts/weekly_refresh.sh`, `prepare_matches.py`, `build_ratings.py`, `refresh_notify.py`) | data files, `model.json` | fetch, prepare, build, restart, notify | a partial failure never installs half a model |
| Win-probability model (`model/probability.py`, `model/artifact.py`) | loaded artifact | predict | abstains before it guesses; numerical otherwise |
| Sharp odds client (`sharp.py`) | the board memo of one capture or batch | fetch, find the event of a row, orient and devig its price | the price is of the player backed, off the board the start was checked on |
| Kalshi client (`kalshi/*`) | none | HTTP, signing, paging, asks from bids | I/O, but for the asks and the match it resolves |
| Telegram front end (`alerts.py`, handlers of `bot.py`), configuration | none of their own | parse, authorise, format | I/O |
| Research scripts | none | one-shot analyses | outside the running system |

How they interact. The event loop runs every handler and every job; the blocking part
of each (a capture, a sweep, a result sweep) is sent to a thread with its own
SQLite connection, and every write is its own committed transaction. So whole
handlers of different jobs interleave between any read and the write it
justifies, while updates from the owner are handled one after the other. Job
names (`close:{id}`) are the only mutual exclusion there is. Timers, `new_ids`,
and the flags of asked questions live in memory only and die with the process.

Hard behaviours, each with its line and the property that covers it, are the
`hazards` of `PROJECT.json`: overlapping captures of one row, a start time that is
corrected by three different writers, a timer that outlives the start it was
computed from, a batch whose guards must be re-evaluated row by row, scans that
fail in the middle, two anchors for one position, a result sweep that races the
owner, messages that fail after the commit they announce.

## 2. Plan

Modules are written in the order of what the log is worth.

1. `Outcomes`, `CloseOnce`, `ClosingCapture`: the capture and the scan cycle around it. Done.
2. `PositionLog`: the dedup. Done.
3. `Settlement`: results and announcements. Done.
4. Proof modules for the three. Done, for the safety properties the runs check.
5. `Refresh`: the weekly pipeline, the bot it restarts and the heartbeat. Done.
6. `WalkForward`: the order of the replay and what it writes to the artifact. Done.
7. `Pricing`: the decision of `evaluate_resolution`, on prices in cents. Done.
8. `Gate`: `clv.summarize` over every history of the log. Done.
9. `Identity`: names, the sharp feed's event of a row, the price taken from it. Done.
10. The refinement of the capture log into `CloseOnce` through a mapping. Done.
11. Proof modules for 5-9. Done, for what is within the prover's reach (section 5).
12. `WriteOnce` and `NoInPlayClose` as theorems: for one capture thread, then for any number
    of them that do not overlap on a row. Done.
13. `ServedModel`, the abstract specification of the refresh, and the proof that `Refresh`
    implements it. Done.
14. The equation of a sum, and with it `AlertPriceHasDepth` and `BadNewsNeverOpens`. Done.
15. Year files that a killed download leaves behind (`Refresh`), the two books of a match
    (`Pricing`), the BCa bootstrap as a parameter (`Gate`), the entry job read by read off a board that
    ages (`ClosingCapture`), the rounds of a knockout (`WalkForward`). Done.

## 3. The modules and the code

### Outcomes, CloseOnce, ClosingCapture

`Outcomes` is the closing-line part of a row of `outcomes` and the three UPSERTs
`capture_close` makes of it. Prices are abstracted to whether they are there: no
property is about their values. The Kalshi mid is `mid`, the sharp reference
`sharp`, `closing_source` a pair of a kind and a writer.

`CloseOnce` is the abstract specification: a log that holds at most one close per row, and
a close that never changes. `ClosingCapture` maps its rows to it by `Recorded`: the
close of a row is what was recorded with a price, and a missed attempt, which the code
writes to the same columns and may write again, is a stutter of the abstract log. The
refinement `WriteOnce == Log!Spec` holds when captures run one at a time (`capture_serial`), and
more generally as long as no two threads are past the idempotence test of one row together
(proved as `ApartCaptureWritesOnce`): of two that are, the later write replaces a recorded close
(section 6).

`ClosingCapture` has one action per transaction or network answer of a capture:

| Code | Action |
| --- | --- |
| `schedule_pending_captures`, `rearm_captures` | `Scheduled`, `Rearmed` |
| `/check`, `/scan` after their reply | `LogOpportunity`, later `CommandSchedules` |
| `scheduled_scan_job` | `ScanBegins`, `ScanSchedules`, `ScanAnnounces`, `ScanEnds`, `ScanAborts` |
| `_sharp_entry_job` on one row: the row read, then the board looked up and the start written | `SharpReads`, `SharpEntry` |
| `capture_job` leaving the queue, its retries, its re-arming | `FireJob`, `CaptureFails`, `Reschedule` |
| `auto_capture` | `BeginAttempt` (row and clock read), `Reconcile` (start corrected) |
| `capture_close` | `CloseGuards`, `MarkMissed`, `Snapshot` (`NothingToRecord`, `RecordClose`) |
| `run_close` on one row, on the work list | `CloseOne`, `CloseAll` with `NextRow` |
| a crash, `on_startup` | `Crash`, `OnStartup` |

Choices. `CommandSchedules` is an action of its own because the reply is awaited
between the insert and the arming and a failed reply skips the arming. The SELECT and
the arming of `schedule_pending_captures` are one step: it runs on the event
loop, and a commit of another thread between the two leaves the state it would
leave right after the step. The two reads at the top of `capture_close` are one
step for the same reason: nothing decides on the first before the second.
`NoCommandRuns`: updates are handled one at a time, so two `/close` threads never overlap.
Kalshi's stamp may be any of `Stamps` at any moment; the sharp feed, when it
lists the match, gives the real start. The world may move a match that has
not begun, and a market closes some time after the start.

The entry job reads a row, looks it up on a board that was fetched for it or for an earlier row of the
same tournament, and writes what that board lists, comparing with the start it has read. `entry.posted`
are the starts that a board fetched since the job began may list of a row: the real one then, and every one
since. `EntryTime` bounds the job (`Tick`), as the code bounds its requests: 5 seconds each (`sharp.py:99`)
and at most five requests and 7.5 seconds of back-off per tournament (`sharp.py:123-128`), so half a minute for
each of the few tournaments of a cycle, while the late grace of 5 minutes and the tolerance of 2 make seven.

### PositionLog

The sweeps of three actors (the scheduled scan, a command, `scripts/scan.py`) over
one log. An event has two players; a sweep that takes the event as typed may
anchor on either market, a scan anchors on the first. `SamePosition` is the
key of `last_position`: the event and the player backed. `ReadLastPosition`
and `InsertOpportunity` are two transactions; `ShowPrior` is the second read of
`_prior_position_id`. `--force` belongs to the CLI. `high` is the
`high_water` of `_scheduled_scan_job`. `seen` is a history variable. The key
without an opponent (`last_opportunity`) is left out: the engine abstains before an
opportunity without an opponent exists. `/preview` writes nothing, and is not an action.

### Settlement

`settled` is Kalshi's final settlement, `due` the rows old enough for
`awaiting_result` (it only grows: the string comparison is abstracted to that set),
`outcome` the result columns with `by`, a history of the last writer. `_auto_result_job` is
`SweepBegins`, then per row `ReadPrior`, `Fetch` or `FetchFails`,
`RecordIfAbsent`; `auto_result_job` is `SweepReturns`, `Send`, `SendFails`; `/result` is
`OwnerRecords`. The owner's UPSERT is unconditional, the sweep's has its `WHERE result
IS NULL`. A P&L is abstracted to what it is computed from, which is what the ROI
co-gate needs to be right. `Sized` are the bets with a contract count. A question is
flagged in memory after its message went out; `Restart` forgets it.

### ServedModel, Refresh

`ServedModel` is the abstract specification: a reader is served one whole build, with a section for
every tour that had matches when it was made, and gets another one by a restart only. The file it was
read from is torn while the next build is written, and for good when its writer is killed. `Refresh`
maps to it by the artifact, the loaded model and the tours that have a match file; the refinement
`ServesWholeBuilds == Serving!Spec` is checked (`refresh`) and proved.

In `Refresh` a file is the date of the newest match in it, per tour; `Torn` is a file whose writer was
killed. `weekly_refresh.sh` runs each step in a container of its own, chained with `&&`:

| Code | Action |
| --- | --- |
| cron | `CronStarts` |
| `prepare_matches.fetch`, `prepare`, one tour after the other | `FetchTour`, `PrepareTour` |
| `build_ratings.main`: `write_text` opens (truncates), then writes | `BuildOpens`, `BuildWrites` |
| `docker compose restart`, then `scripts/bot.py` main | `RestartBot`, `OnStart` |
| `refresh_notify.main` and `build_message` | `Notify`, `WeeklyMessage` |
| a step that raises or whose container is killed | `FetchFails`, `PrepareFails`, `BuildFails`, `RestartFails` |
| `scheduled_scan_job`, `auto_result_job` stamping `bot_data` | `JobEnds` |
| `_heartbeat_text`, `heartbeat_job` | `Heartbeat` |

The year files of a tour are two classes, the running year and the past ones, because a
download of either counts towards `got` and only the running one moves the data. The feed may
answer each with a usable body, an unusable one, nothing, or not at all. `write_bytes` truncates a year file
before it writes (`prepare_matches.py:92`): a container killed there leaves one that reads as fewer rows, so that
the date may go back, or one that `read_csv` raises on (line 126). Such a tour is in `spoiled`, and `PrepareRaises`
ends every run at it until a download replaces the file; a usable download may be of another year, so it
need not mend it. A match file of the tour stays as it was.

### WalkForward

A rating is the set of results it rests on: `fed` is the closure over opponents, which is what
look-ahead means. The season is played in a real order that the feed does not carry; events may
overlap, but a player finishes one before he starts the next (`Possible`). `After` is the course of an event:
a knockout from R128 to the final, a group stage before one, a bronze match of the losing
semi-finalists; `RoundOrder` is `_ROUND_ORDER`, label by label. `Prepare`
is `prepare_matches`; `Replay` records the prediction and then makes `RatingBook.update`
(`Update`); `BuildSection` writes the last dates as `_build_tour` does from
`build_name_index`. `records` takes every match of two experienced players; `walk_forward` and
`replay_predictions` keep a part of them (best of 3 or 5, the held-out years).

### Pricing

`bids` are the resting bids of one market per side and price, `view` what the model
knows of its two players, `flat` the configured `paper_flat_stake`. `Ask`, `Spread`,
`Depth` are `reconstruct_asks`, `spread`, `depth_at_ask`; `NetEdge`, `Fee`,
`KellyContracts`, `Actionable`, `Best` are `edge.py`; `Gates` lists the abstentions of
`evaluate_resolution`, `Model.predict` and `win_probability` in the order of the code, and
`Evaluation` takes the first that fails. Prices and probabilities are whole cents and
edges are scaled by `FeeDen * Full * Full`, so that every comparison is exact; the doubles
of the code can differ at an exact tie only, and for the `//` of the flat stake,
which is modelled (`RoundedUp`). The probability of the players is an input: its
arithmetic is floating point. `BidsMove` keeps the book uncrossed, as an exchange does.

Every match has two markets, one per player, "each already carrying its own yes/no quotes"
(`kalshi/client.py:166-168`). The other one is read by `SiblingView` (the players swapped) off any of
`SiblingBooks`, which have nothing to do with `bids`. Which market is priced therefore changes the selection, as
DESIGN-DECISIONS.md (247-248) says, and no property claims otherwise. `SiblingIsConsistent` is what is left: the
gates that look at the players alone refuse both markets for the same reason, and where one
market backs one player and the other market the other, the two bets, which the log takes for two positions, are
worth it together.

### Identity

Kalshi, the rating artifact and the sharp feed each name the two players of a match in their
own way. A player is a record of what tells two players apart: surname, initial, given
name. `CanonicalKey` and `SurnameKey` are what `names.py` keeps of it, `Resolve` is
`probability.resolve_player` over the index of the artifact, which holds the rated players only
(`build_ratings.py:61-63`). A board is what the feed lists of each match and who prices it;
`MatchEvent` is `sharp._match_event` (the pair of surnames, then the nearest start), `Oriented` the
side, `SourceOf` Pinnacle or the median of two others, `FairProb` `sharp_fair_prob`.

| Code | Action |
| --- | --- |
| `scan_series` on one match; `resolve_match` for `/check` | `ScanMatch`, `CheckMatch` |
| `_sharp_entry_job`, one row | `SharpEntry` |
| `auto_capture`: the start check, then the close off the same memo | `CaptureBegins`, `CaptureCloses` |
| batch `/close` | `BatchBegins`, `BatchCloses` |

`Events` is `_events_for_opp`: a board is fetched once per capture or batch and an empty answer
is remembered like any other. A price is modelled as what it is a price of (the event, the
player, the source), which is all that can be wrong about it here. The clock and the market
of a capture are `ClosingCapture`'s; here a capture may be put off, refuse, or go on. The rows of
one cycle share a board in the code; here each may see any, which allows more.

### Gate

`log` joins each bet with its outcome, as `storage.settled_bets` reads it; `GoLive` is
`clv.summarize` with its co-gates in the order of the code. `Close`, `Miss`, `AutoResult` and
`OwnerResult` are the writers, one transaction each; that they interleave is
`ClosingCapture`'s and `Settlement`'s subject. A CLV is counted from `min_effect_size`
in whole units, a P&L in cents with the fee rounded up. The bootstrap over weeks has two branches.
Below `_BCA_MIN_CLUSTERS` (4) weeks it is a plain percentile; the worst week is then drawn alone in one of at most
27 resamples, which is more than the tail, so that its lower end is the mean of the worst week exactly. From
there on it is the BCa interval, whose arithmetic is floating point; with its fixed seed it is a function of the
sample, so that the samples it lets pass are a parameter, `BcaPasses`, of which nothing is assumed. The number of
weeks is not bounded; `min_clv_clusters`, 12 as shipped, is `MinWeeks`. The segmentation of the report
decides nothing and is left out.

## 4. Runs

| Run | Instance | Shows |
| --- | --- | --- |
| `capture_threads` | 1 row, 2 interchangeable threads, clock 0..3, two stamps, no fault, an entry job of 1 | types; a Kalshi mid is never erased; a row without a start is settled by the owner only |
| `capture_serial` | 1 row, 1 thread, clock 0..4, two stamps more than `Epsilon` apart, an entry job of 2 = `LateGrace + Epsilon`, 2 faults, 2 tries; fair | one thread: write-once log, no in-play close, every timed row is settled |
| `capture_batch` | 2 rows, 1 thread, 1 fault | a batch re-evaluates the guards row by row |
| `dedup` | 1 event, 2 of the 3 sweepers at a time, log of 2 | an unforced duplicate is a race; a dedup shows its row; a cycle finds its rows |
| `settlement` | 2 bets (one sized, one not; no and yes), 1 fault; fair | right automatic results, P&L of its result, one question, the owner wins, questions and results arrive |
| `capture_inplay` | as `capture_threads`, an entry job of 0 | finding: overlapping captures record an in-play close |
| `refresh` | 2 tours, 2 instants, 1 stamping job, 2 faults; fair | it implements `ServedModel`; no torn input, no lost tour, an OK message is true; a frozen model is flagged and the bot comes back, unless stuck (below) |
| `walk_forward` | 4 interchangeable players, 3 matches, 2 dates, rounds RR, QF, SF, F, other | no look-ahead, no spoiled training set, right last dates |
| `name_variants` | 2 matches, 2 spellings | finding: the last date of one spelling only |
| `pricing` | 4 bid prices, 2 levels a side, 6 books of the other market, 3 probabilities, 5 histories, Kelly and flat stake | the alert is on the only actionable side, earns its edge, is bounded, has the depth of the gate at its price; the two markets of a match are consistent |
| `identity` | 4 players (two pairs of namesakes, one of them with an unrated one), 2 matches with one pair of surnames, boards with and without Pinnacle | a rated player is priced as himself; a price is of the player backed; a timer's price comes from the board its start was checked on |
| `gate` | 3 bets in 2 weeks, one without a size, 2 fills, sharp CLVs on both sides of the minimum, `MinWeeks = 1`, BCa from 2 weeks on | sharp evidence alone opens the gate; a loss or a miss never does; the report's P&L is the recorded one |

Bounds. `MaxTime` is the horizon; three instants are needed for a capture before a
start, at it and after it, a fourth for a second start far enough to be material. Two
threads are the smallest overlap, and every check-then-act of a capture is between two.
Rows do not interact except in a batch and in a scan's phases, so two rows for the
batch and one elsewhere. `MaxFaults` bounds crashes, failed reads and aborted
scans together: two let a retry fail and the process die in the same behaviour. The
windows are small multiples of the clock in the proportions the code has
(`Epsilon <= LateGrace`, `BeforeStart <= Earliest`, the `WindowAssumption`). In
`dedup` two rows are enough for one duplicate pair, and a log of two is enough for a cycle
to see a foreign row above its high-water mark. In `settlement` `asked` counts
per process and is bounded by `AskedOnce`, which is an invariant. In `refresh` two instants
and `StaleAfter = 0` make a tour fresh or stale, which is all that is compared, and two tours let
one advance while the other stands still; two faults let a killed build and a crash of
the bot fall together. Two faults also suffice for the one state the pipeline cannot mend by itself, `Stuck`: a
build killed while it writes, and a download killed while it writes a year file that the feed then never serves
again. `FrozenModelIsFlagged` and `BotComesBack` except a behaviour that stays in it for ever, and nothing else; both
are violated without the exception. In `walk_forward` three matches of four players give a chain
(a result, an opponent of it, a third match) and two overlapping events. In `pricing` the prices are
chosen so that every gate is met and passed: 15 and 80 make an ask at the favourite
floor of 20, 45 and 50 give a near-even one with an edge between nothing and the fee. The six books of the
other market are empty, one-sided, near even, wide, and in favour of either player.
The experience and idle days lie on both sides of each threshold. In `identity` two matches with one
pair of surnames are the smallest case in which the feed's event is ambiguous, and their
starts differ so that the nearest one depends on the stored stamp; a season of closed rows really
stops, so deadlock is not checked there. A match of two players with one surname, which the
feed cannot be searched for, and a consensus of two books are in the model and its proofs but not in
the instance. In `gate` three bets are enough for every co-gate to bind: two sharp
closes reach `MinBets`, in one week by the percentile and in two by the BCa bound, the third bet is a soft close, a miss, a loss or
a void that decides the coverage (3/4) or the missed rate (3/10).

Fairness. `ClosingCapture`: the clock advances; the repeating scan comes round and goes on
(`run_repeating`); a thread that runs goes on; a dead container is
restarted (`restart: unless-stopped`); the entry job ends within `EntryTime`; a due timer eventually gets a thread, strongly
because commands may take the pool's thread again and again while the pool is
larger than the one command that runs. Nothing is assumed of commands, corrections or
faults. `Settlement`: the repeating job comes round and runs to its end; the owner, the
market and the faults may do nothing for ever. Faults are bounded, which is what the
liveness properties need: a feed that never answers again settles nothing. `Refresh`: the script runs every week and to its end;
Docker starts a dead bot again and again, and the heartbeat beats daily, both strongly, because the
moments in which the artifact is half-written are brief and do not always coincide with them. Nothing is assumed
of the feed.

## 5. Proofs

`tlapm` checks every theorem below for every value of the constants that satisfies the
modules' named assumptions.

`ClosingCapture_proofs`. `Inv` is the type invariant with `TimersTimed` (a timer exists only
for a logged row with a start) and `ThreadsFit` (what a thread is doing fits its row: a
timer's thread works on a row with a start; a snapshot is reached without a start only if it
was forced). `TypeOK` alone is not inductive: that a start is known when a timer fires is
what lets `FireTime` be a time and what `UntimedNeedsOwner` rests on. From `Inv`:
`TypeCorrect`, `KalshiMidIsKept`, `UntimedIsTheOwners`, `CaptureFailsClosed`. `LogChanges`
says which step writes a row, `WriteFacts` what such a write leaves.

Two theorems say how far the component keeps what it promises with any number of threads. As long as
no two threads are between the idempotence test and the write of one row (`TestsApart`), `TestStands` (past
the test the row is still open) is invariant, and `ApartCaptureWritesOnce` shows that every step is a
step or a stutter of `CloseOnce`. As long as no two captures are between the read and the check of one row's
start (`StartsApart`), `ChecksStand` says what a capture's knowledge is worth until it writes: after a start
check that found the match at the sharp feed, either its instant or the stored start is not after the real
start, up to `Epsilon`. The only other writer of a start is the sharp entry. What it writes is the real start, or one that was
real when the job began (`BoardsFit`); in the second case the match has been moved since, to an instant after the
job began, and the job, which takes `EntryTime` at most, ends before a capture in flight could be later than that by more
than the code tolerates. That needs `EntryIsQuick`, `EntryTime <= LateGrace + Epsilon`, for which section 3
gives the code's numbers; with a slower job TLC finds an in-play close. A match
postponed meanwhile has not begun at the instant the capture read. `ApartCaptureIsPreMatch` follows:
`NoInPlayClose` for any rows, threads, windows and stamps. So these two overlaps on one row are the only
causes of an overwritten close and of the finding `capture_inplay`; captures of different rows, crashes,
retries, batches and forced captures are none. The code excludes neither overlap: a timer armed again beside
its own attempt makes both, a `/close` beside a fired timer the first (it reads and writes no start, and so
cannot make the second). Both hypotheses hold of one thread, whence
`SerialCaptureWritesOnce` and `SerialCaptureIsPreMatch`, the latter the case the serial runs check.

`PositionLog_proofs`. `Inv` adds to the types what a sweep knows between two of its steps
(`TasksFit`): an insert is justified by the rows its read saw, a dedup about to be shown has
a row, own rows lie above the high-water mark. The log only grows (`FitGrows`), so no other
sweep's insert disturbs it. From it `DuplicatesComeFromRaces`, `DedupShowsItsRow`,
`CycleCoversItsRows`. For `Lanes = 1`, `OneInv` adds that at most one sweep runs and that a
row was inserted right after its read; then `SerialSweepsNeverRepeat`: no unforced row
repeats a position (`OneRowPerPosition`). With two lanes a race of two
inserts does repeat one, which DESIGN-DECISIONS.md (785-794) accepts.

`Settlement_proofs`. `Inv` adds `SweepKnows` (what is about to be written follows from a
settlement that is final), `WrittenBySomeone` and `AskedIsFlagged`. From it `TypeCorrect`,
`AutoRecordsAreRight`, `PnlIsOfItsResult`, `QuestionsAreAskedOnce`, `OwnerAlwaysWins`.

`Refresh_proofs`. `Inv` adds to the types how far a run has cleaned up the match files
(`Prepared`, by the step of the script: what is left to prepare may still be torn, what was
prepared is not; the artifact is torn from its opening to the write), that a bot restarted by a successful run serves what is on disk (`OnDisk`) and that a tour with a
section has a prepared file, and a prepared file a raw one (`Archived`). From it `BuildsFromWholeFiles`,
`OkIsTrue` and `NoTourIsLost`. None of the three is inductive: that a build reads whole
files is a fact about the steps before it, and that no tour is lost one about files that are never deleted.
`ImplementsServedModel` is the refinement, step by step: preparing a tour, or being killed at it, adds to the
tours at hand and takes none away (`PreparingLearns`); a build reads whole files only, hence has a section for every tour
there is (`BuildIsWhole`); a start reads a whole artifact, since a torn one does not load; every other step is a stutter.

`WalkForward_proofs`. The heart is `Sorted`: no row still to be replayed is older than one that was.
With `Complete` (all but the newest matches are replayed) and `Lasts` it gives
`LastPlayedIsKept`; `TrainingStaysClean` needs the closure of `fed` under opponents.
`RatingsNeverLookAhead` adds `InPlay`: the matches of one player are replayed in the order in
which they were played, whence by the chain of opponents (`Behind`) no rating rests on a later match.
It has the hypothesis `NoBronze`, and `OneSpellingRehydrates` has `OneSpelling`: they are the
conditions under which the observation on bronze matches and the finding `name_variants` do not arise.

`Pricing_proofs`. `Inv` says that the bids do not cross and that a result is the evaluation of
the bids and the view it stands beside. An edge above the minimum puts the price at or below the
chance (`EdgeBelowChance`); two asks that do not cross sum to more than a dollar and two chances to exactly one,
so one side at most is actionable (`OneActionable`). That is `OneSide`; it makes the `CHOOSE` of
`evaluate_market` determined (`BestFits`), on which `TypeCorrect` rests. `BothMarketsAreConsistent` compares two
markets with bids of their own: gate by gate (`SwappedGates`) those of the model pass or fail alike on both, so that the
first one to fail is the same (`SameReason`), and an alert's contract costs at least its minimum edge and fee less than
the chance of its player (`EdgeIsGain`), two chances that sum to one. `WithinCap` and `EarnsItsEdge` are arithmetic: a whole number of contracts below a
quotient, and a fee rounded up once for `n` contracts (`RoundingCostsACent`). `DepthIsAtItsPrice` shows that the depth the gate found for
an alert, `min_liquidity` contracts at least, rests at its price: the code sums a whole ladder, from the prices at or above the best bid (`DepthAtTheAsk`),
and there is only one such level. It needs what a sum of one element is, which is derived from the definition of the
fold (`SumEquation`): the function the fold makes exists on the subsets of a finite set, by induction over
sets of subsets instead of an operator.

`Identity_proofs`. `Inv` adds what a row's ids and prices stand for (`RowFits`, `PriceFits`) and
`Checked`: a capture that holds a board with an event of its row's surnames has checked the start. The last
one needs the memo: the start may change between the check and the price, the board may not. From it
`RatedAreThemselves`, `PricesAreOfTheBacked`, `StartsAreCheckedFirst`, for every roster and every
board, a consensus of books and two players of one surname included.

`Gate_proofs`. `Inv` adds that the row of a win or a loss holds the fill its P&L was computed from
(`PnlOfFill`), which voids and corrections keep. From it `ReportIsTheRecord`: the two sums add
the same numbers over the same bets. `PinnacleOpensTheGate` compares the log with
`OnlyPinnacle` of it co-gate by co-gate. Neither it nor the next assumes anything of the number of weeks or of what the
BCa bootstrap passes: the two logs they compare have the same sample. `BadNewsOnlyShuts` is `BadNewsNeverOpens`: a loss lowers the P&L of the
log (`LossLowersRoi`, over the equation of a sum as in `Pricing_proofs`) and changes neither the closes nor their
sample; a miss leaves the sample as it was and raises the missed rate (`MissRaisesRate`). It has the
hypothesis `FeeAtMostOne`, a fee coefficient of at most one, which is 0.07 in the code and in Kalshi's schedule. The
configuration accepts any coefficient that is not negative (`config.py:108-114`), and the hypothesis is needed: with a
coefficient of 9 a win at a middling price costs more in fees than the loss that corrects it at a low one, and TLC
finds the gate opened by it.

The type invariants of `Refresh`, `WalkForward`, `Pricing` and `Gate` are proved and not listed by a run.

Model-checked only: the liveness properties (`TimedRowsSettle`, `QuestionArrives`,
`SettledIsRecorded`, `FrozenModelIsFlagged`, `BotComesBack`), which rest on fairness and are out of the
prover's reach. Every other property of a passing run is a theorem, with the hypotheses named above.

## 6. What the checks found

1. `capture_inplay`: two captures of a row overlap. A row has no job while the attempt of its timer is in flight, so the
   scheduling after another command (`bot.py:740`) arms it again and a second attempt runs beside the first. The first finds the
   match at the sharp feed with the start that is stored; before it re-reads that start for its guards (294), the second, for which
   the feed no longer lists the match, writes Kalshi's later stamp over it (372-376). The first is then not late, and an in-play
   price is recorded. The second writes only what differs from the start it has read itself: it undoes a correction of the
   first if it has read the corrected start, and writes nothing if it has read the placeholder Kalshi still gives.
   DESIGN-DECISIONS.md (790-791) calls a double capture harmless for the CLV.
2. `name_variants`: a player written in two ways that fold to one id but to two index keys gets
   `last_date` from the first bucket only; the rehydrated book is older than the one built, and the
   staleness gate may abstain on, or the log may mis-segment, an active player.

Observations that no run states:

- Two captures of one row that overlap both pass the idempotence read; the later UPSERT (`bot.py:331`) replaces the
  recorded close, against the comment at `bot.py:297-299`. `WriteOnce` fails with two threads;
  it is proved as long as no two of them make this overlap.
- The header of the heartbeat counts lines that start with the warning sign (`bot.py:1136`), and the freshness
  line carries its sign at the end (1059-1060): a frozen model leaves the header at "Matador OK", and only the line itself
  tells.
- The index of the artifact is filtered to rated players after its buckets are built (`build_ratings.py:61-63`), so the
  bucket of a rated and an unrated namesake has one entry, which `resolve_player` takes without looking
  at the full name (`probability.py:134-135`). `RatedNeverConfused` says what remains: an unrated player may
  be priced as his namesake, a rated one never is another; two namesakes of one bucket who meet get one id.
- A single event of the right pair of surnames is taken whatever its start (`sharp.py:191`): when a row's own
  match is not listed, that of two namesakes may price it, which `PriceIsForTheBacked` allows for.
- `missed_rate` counts rows with a `closing_source` only, so that a row no capture was ever attempted for is in
  neither number (`clv.py:144-148`, `193-194`).
- The ROI co-gate is satisfied by one result (`clv.py:192`); voiding a bet, or un-voiding it into a loss, changes the sample of the
  CLV and so may open the gate. `BadNewsNeverOpens` is about a loss or a miss that is learnt, not about a void.
- An attempt the sharp feed does not answer puts Kalshi's stamp back over a start the feed had corrected
  (`bot.py:376`), against README.md:255 of the repository.
- A scan can arm a row whose capture is in flight; if that capture moves the start back, the old timer stays
  and fires late (`bot.py:887`).
- An automatic result is committed before it is announced; a failed send or a restart between the two
  loses the announcement (`bot.py:984`).
- `/close <id> pre` skips the "too early" guard as well as the unknown-start one (`bot.py:313`).
- The dedup race of two processes can log one position twice; the documents accept it,
  `DuplicateOnlyFromRace` says exactly when.
- A bronze match has round order 0 (`elo.py:23`) and is replayed before the semi-finals that lead to it: with
  `Rounds = {"SF", "BR", "F"}` the invariant `NoLookahead` fails. Olympic singles have such matches.
- The flat stake is divided with a plain `//` (`engine.py:164`), which loses a contract at prices such as 0.20;
  `edge.py:58` guards the Kelly stake against it.
- A year file that a killed download left unreadable stops every later refresh at `read_csv`
  (`prepare_matches.py:92`, `126`) until the feed serves that year again: past years are fetched every week too, so this ends
  unless the upstream has dropped the file. If the artifact was torn as well, the bot stays down until someone
  removes the file by hand, with the weekly "failed" message as the only sign. While it is up and the artifact is torn, the
  freshness line says that freshness is unavailable (`bot.py:1061-1062`) and carries no flag.
- The two markets of a match may give different bets, on either player, at different prices: a `/check` and a scan
  that anchor on different markets need not agree, which DESIGN-DECISIONS.md (247-248) knows.
- No gate compares the size of an order with the depth at its price: `min_liquidity` is a constant, and a Kelly order
  at a low price may ask for more contracts than rest there.
- When only the running year's file is missing, nothing is warned of and the weekly message says OK; the
  heartbeat's freshness line is what reports it.

## 7. What is not modelled, and why

Out of reach: the floating-point arithmetic of the ratings, the probability model, calibration and the
bootstrap of four weeks and more (any function of the sample in `Gate`); HTTP, signing, paging, parsing and devigging of the clients, which appear as
choices of the actions that call them. Without a state or a decision of their own: Telegram formatting,
authorisation and argument parsing; the parsing of one printed name into a surname and an initial and the table of
tournaments, whose results are inputs of `Identity` and `Pricing`; the configuration file, whose values
are constants; the research scripts, which keep no state of the running system. Abstracted: closing prices
(to their presence, or to what they are prices of), stamps (to a small clock), the string comparison of
instants in `awaiting_result` (to the set of overdue rows).
