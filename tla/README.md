# Formal verification of binance-algo

TLA+ models of the parts of `binance_algo` that are hard to get right and hard to
test, the TLC configurations that check them, and TLAPS proofs of their main
invariants. Source paths below are relative to `src/src/binance_algo/` unless
they start with `src/`. `PROJECT.json` maps every definition to the lines it
models and lists runs, mutants, hazards, findings and theorems.

    tlc -workers 2 -config recorder_run.cfg MCRecorderRun     # a run
    tlapm RecorderProofs.tla                                  # the proofs of a module

## 1. The system

binance-algo is a data and research platform for Binance USD-M futures, without
trading. A real-time recorder and a historical download fill a data lake; a research
registry executes experiments on it; portfolios of strategies are derived from the
experiments that succeeded.

| component | state it keeps | operations | hard behaviour | what makes it correct | modules |
|---|---|---|---|---|---|
| recorder run: `data/recorder.py`, `exchange/binance_usdm/websocket.py`, `data/writer.py`, `data/stream_quality.py` | bounded queue, buffers per partition, counters, outcome | one task per route receives and enqueues; the writer buffers and flushes in a thread; the coordinator stops, drains, times out, audits | interleaving of all of these, a full queue, a flush that hangs, cancellation in the middle of a put | nothing received is lost silently; a passed report is about final numbers; the shutdown reaches its audit | `RecorderRun`, `LosslessCapture`, `RecorderProofs` |
| recorder files: `data/writer.py`, `data/storage.py`, `data/state_store.py`, `data/manifest.py` | Parquet files, SQLite rows and checkpoints | a flush of seven steps; recovery at every start | file system and SQLite share no transaction; a crash between any two steps, in recovery as well | VALIDATED means durable and intact; row and checkpoint change together; nothing is left behind | `FileManifest`, `StreamStore`, `VisibleBatches`, `RecorderProofs` |
| archive download: `data/archive_client.py`, `data/backfill.py`, `cli.py` | `.part` files, archives, CHECKSUM files, CSVs, rows, the job | validate locally, quarantine, download with resume and retries, extract | a remote file that changes, stale `.part`, crash between rename and row | an archive that becomes VALIDATED is the published one | `ArchiveStore`, `ArchiveDownload` |
| normalisation and quality gate: `data/normalize.py`, `data/quality.py`, `data/catalog.py` | canonical Parquet files, rows, verdicts, the DuckDB view | normalise a day, audit it, rebuild the view | replaced archives, a kill between file, row and raw row | a day that is served does not change; a pass means that no candle is missing or twice | `KlineFrames`, `KlineNormalization`, `ServedDays` |
| funding: `data/funding.py`, `exchange/binance_usdm/rest.py`, `cli.py` | raw, Parquet and manifest files, row, view | page through a range with retries, write, register, rebuild | pages that end between simultaneous events, rates revised and revised back, kills | nothing published is missing or covered by something older | `FundingHistory` |
| experiment attempts: `research/experiments/runner.py`, `artifacts.py`, `store.py` | a row per attempt, a bundle in tmp, gold or quarantine | create, queue, run, persist, complete; exception handler | errors and Ctrl+C between the rename and the commit, several processes | a success is published completely and only once; failures are recorded | `ExperimentRun` |
| campaigns: `research/experiments/campaign_runner.py` | a row per campaign, the plan in memory | register, plan, execute sequentially or in a pool, interrupt, finish | fail-fast, a broken pool, interrupts that mark attempts of others | COMPLETED only with all successes; every command ends | `CampaignRun`, `CampaignOutcome` |
| registry and promotion: `research/experiments/store.py`, `promotion.py`, `campaign.py`, `ablation.py`, `registry.py`, `validation/robustness.py` | definitions, promotion events, feature evaluations | idempotent registration, plan a grid, assess, promote, reject, ablate | several processes that decide on what they read before, a clock that is set back | the record is append-only; a stage is reached along permitted transitions | `CampaignTrials`, `PromotionHistory`, `ResearchRegistry`, `ResearchRecord` |
| research engine: `research/dataset.py`, `panel.py`, `features/`, `strategies/`, `portfolio/`, `state_machine.py`, `backtest.py`, `trades.py`, `costs.py` | panel, fold, weights, curve, trades | build, fit, score, weigh, trade bar by bar, report | holes, embargo, delay, funding at a boundary, the end of a fold | no decision knows the future; the books agree | `ResearchDataset`, `StrategyScores`, `Strategies`, `PortfolioPolicies`, `WalkForward`, `ResearchProofs`, `ResearchCausality` |
| strategy portfolios: `research/strategy_portfolio/` | the portfolio being built, the snapshots | resolve attempts, verify, compare, account twice, reconstruct trades | attempts that end and artifacts that are damaged meanwhile | three accounts of one portfolio agree | `StrategyPortfolio`, `PortfolioProofs` |

Components interact through files and SQLite tables only: the recorder and the backfill
share the manifest (`FileManifest` is used by both models), normalisation reads what
the backfill validated (`KlineNormalization` composes with `ArchiveDownload`), campaigns
drive attempts (`CampaignRun` composes with `ExperimentRun`), promotion and ablation
read the successes of campaigns, portfolios read the bundles of successes.

Left out, with the reasons in `PROJECT.json`: replay, parsing of stream messages,
universe and metadata, configuration and wiring, observability, dashboards and reports.

## 2. Layout and plan

A component has its modules, with what must hold at the end of the last or in a
`...Properties` module, where there are proofs a `...Proofs` module (`RecorderProofs` is about the run and its files, and
`ResearchCausality` continues `ResearchProofs`), and an `MC...` module with the instance that its
`.cfg` checks. The mutants stand next to the definitions they change.

Done, in this order: recorder run, recorder files, attempts and campaigns, archives and
klines, research engine, registry, funding, strategy portfolios; proofs about the
recorder, its files, attempts, registry, archives, funding, strategy portfolios and the
research engine.

Left: the routes' backoff and rotation with durations, the replay's total order, and the
migrations of the registry.

## 3. The recorder run

`RecorderRun` has one action for what a task does between two suspension points.

| code | model |
|---|---|
| `RoutedPublicWebSocket.run`, `_receive`, `_enqueue` | `Connect`, `Disconnect`, `ReceiveAndPut`, `ReceiveAndBlock`, `PutResumes`, `PutTimesOut`, `ObserveStop` |
| `StreamMicroBatchWriter.run`, `flush_all` in a thread | `WriterTake`, `WriterPollTimesOut`, `WriterFinishes`, `StartFlush`, `FlushPartition`, `NextPartition`, `FlushFails` |
| `run_recorder` | `StopCapture`, `Interrupt`, `CancelProducers`, `ProducersFinish`, `ProducersTimeOut`, `SetProducerDone`, `WriterAwaited`, `WriterTimesOut`, `Audit`, `AuditRaises` |
| `audit_recorder_run` | `CountsAgree`, `AuditImpossible` |

Events are numbered in the order of reception, rows are sets of events, and the
partition of an event is arbitrary. Ghost variables record what was received.

`LosslessCapture` is what the caller of `run_recorder` may rely on: events are received,
some become lost, and the capture returns only if none is. `RecorderRun` implements it.

Abstractions: a cancelled task ends with the step that cancels it; reconnect delays,
rotation and staleness are a nondeterministic `Disconnect`; flushing by age may happen
whenever the poll of the queue times out; unexpected exception classes raised by a task
and an interrupt during the final `finally` end the process without an outcome.

**Runs.** `recorder_run`: two routes, four events, three partitions, a queue of one,
batches of two rows. A queue of one makes both routes block at once; four events fill
buffer, queue and both blocked routes at the same time; batches of two force a flush in
the middle and at the end; three partitions let a flush fail with work done before and
after. All interleavings, timeouts, writer failures and Ctrl+C. `CancelCanHitPut` says
whether a put can outlive the shutdown timeout (`stale_after_seconds +
queue_put_timeout_seconds >= shutdown_timeout_seconds`); with the defaults it cannot, and
it is FALSE in both runs. `recorder_silent_drop` shows that an interrupt, which does not
wait for a put, drops an event silently all the same: finding 1.

**Fairness.** Only the steps of the coordinator up to the audit (`ShutdownStep`) and the
timeout of a put are weakly fair: they are asyncio timers or awaits with a timeout (`duration`,
`shutdown_timeout`, `queue_put_timeout`), which the loop runs whatever the network, the writer
or its flush thread do. So `ShutdownReachesAudit` says that a flush that never returns cannot
keep the shutdown from the audit. It says nothing of the audit itself: `recorder.py:221-256`
reads SQLite, DuckDB and every Parquet file on the event loop, without a timeout, and a disk
that hangs there does hang the recorder. Nothing is assumed of that step, no property says
that it ends, and PROJECT.json lists it as a hazard no property covers.

**Proved** (`RecorderProofs`), for every number of routes, events and partitions and every
capacity: type correctness, `ReturnedIsLossless`, `PassedReportIsFinal`,
`CountersStableAfterGate`, `CountedIsAccounted`, and that `RecorderRun` implements
`LosslessCapture`. The invariants are not inductive alone: that a returned capture is
lossless needs that every received event is counted, dropped, held by a blocked route,
in queue, buffers, flush or on disk, that counters equal the sizes of those sets, and
which of them can still change in each phase of the coordinator. That strengthening is
the invariant of the proofs module. `ReturnedLossless` and `CaptureIsLossless` assume
`~CancelCanHitPut`.

## 4. Recorder files and manifest

`StreamStore` has one action per SQLite transaction and per visible change of the file
system; `Crash` may happen after any of them, `Damage` between runs. `FileManifest` has
the transition table of `data/manifest.py` and the two guards of the store.
`VisibleBatches` is the reader's view: batches become visible one at a time, together
with their stream's checkpoint, once and for ever.

Not modelled: loss of power (a rename that is not yet on disk, as the directory is not
fsynced) and two recorders in one data directory.

**Runs.** `stream_store`: four batches on two streams, two of them found without a row
(orphans), three crashes. Two batches per stream are needed for a checkpoint to be replaced
and two streams to confuse them; the third crash lets recovery die, and the recovery
from that die again. `checkpoint_advance` shows finding 2.

**Fairness.** A start of the recorder and the steps of recovery and flush happen if
they can; crashes are bounded. With unbounded crashes nothing could be promised.

**Proved** (second part of `RecorderProofs`), for every set of batches and any number of crashes:
type correctness, `ValidatedIsDurable`, `CheckpointIsVisible`,
`RecoveryLeavesNothingBehind`, and that `StreamStore` implements `VisibleBatches`. The inductive
invariant `StoreInv` adds where the file of a row in each status can be, which lists of
recovery cover which rows, and what the local variables of a flush stand for.

## 5. Archives and klines

A target is a day, and the content of a file is the version of the archive that the venue
published. `ArchiveStore` declares what the commands share; every action of the two other
modules is one transaction, one rename or one HTTP exchange.

| code | model |
|---|---|
| `cli.py` `_run_kline_backfill` | `StartBackfill`, `RunJob`, `FinishJob`, `FinishJobAnyway`, `CrashBackfill` |
| `_guarded_download`, `_download_one`, `_validate_local`, `_quarantine_existing`, `_promote_manifest_to_validated` | `RegisterRaw`, `ValidateLocal`, `RejectKeeping`, `RejectLocal`, `QuarantineFile`, `MarkQuarantined`, `Reopen`, `Promote`, `FailRaw` |
| `_download_small`, `_download_archive`, `validate_and_extract_kline_archive` | `FetchChecksum`, `ChecksumUnavailable`, `AdoptPart`, `ReceiveBody`, `BodyBreaks`, `ArchiveRefused`, `ArchiveBusy`, `RangeNotSatisfiable`, `CheckNothing`, `CheckPart`, `SaveDownloaded`, `Extract`, `SaveValidated` |
| `normalize_one`, `data_normalize` | `StartNormalize`, `NextDay`, `OpenArchive`, `ExtractCsv`, `ReadCsv`, `RegisterBronze`, `VerifyBronze`, `ReopenBronze`, `WriteBronze`, `SaveBronze`, `MarkRawNormalized`, `FailBronze`, `FinishNormalize`, `CrashNormalize` |
| `normalize_kline_csv`, `_gap_metrics`, `audit_kline_frame` | `Canonical`, `GapMetrics`, `FramePasses` of `KlineFrames`, and `AuditBronze` |
| the venue and the disk | `Replace`, `DamageRaw`, `DamageBronze` |

`ServedDays` is the reader's view: a day is served by one usable version for ever, and the
catalogue forgets none.

Known limits that the model has and no property states: a NORMALIZED row may keep an old
checksum while a newer archive is on disk; a damaged Parquet file of a row that is not
NORMALIZED yet raises a `PolarsError` that nobody catches, which ends every later normalise
command at that day; an archive
that the venue republishes keeps the file id of the first, so its normalisation fails as a
"file id collision" and the first version stays served.

**Run** `archive_pipeline`: one day, three versions of which the third cannot be used, two
replacements by the venue, two attempts, three faults. Days interact only through the job
and the list of a normalise command, and a second replacement is what makes a `.part`, an
archive and a row of three different versions meet; one fault each is needed for a stale
`.part`, a damaged file and a kill of the recovery from them. Version 1 has every minute of
the day with one twice and out of order, version 2 lacks the last minute. `Overlap` is
FALSE: a normalise command does not start next to a backfill, as `docs/operations.md`
runs them one after the other. With `Overlap` a row could become VALIDATED over a CSV that the
normalise command extracts at the same time.

**Fairness** (`EventuallyListed`). The operator repeats the two commands (strong fairness of
the starts, as `docs/operations.md` tells him to), a command that is not killed goes on (weak), and a request that
is repeated for ever is answered in full at some time (strong). Nothing is assumed of a
single request. The property holds while the venue keeps one usable archive and no Parquet
file is damaged.

**Proved** (`ArchiveProofs`), for any number of days, versions, replacements and faults:
type correctness, `BronzeIsDurable`, `RawNotOverwritten` and `ServedForever` in all cases,
`ValidatedIsVerified` and `CompletedIsDelivered` if `~Overlap`. The inductive invariant
`ArchiveInv` has two layers. `RawInv` says what a task knows at each of its steps: which of
archive, CHECKSUM file, CSV and `.part` are of the version it expects and which statuses
its row may have. `FilesInv` says the same of the normalise command and the Parquet file: the path it
writes, the rows it holds, and that the row of a day names what was hashed. What a normalise
command assumes of the raw row between its list and its last transaction (`SoloNormInv`) holds only if
no backfill runs next to it, and is the part that `~Overlap` guards.

`PassesAreComplete` proves `PassedIsComplete` for every interval, day length and content of the
archives, from `RowsAssumption` (a usable archive has rows with integer times, which the cast of
`normalize_kline_csv` establishes). Its state part, `PassedInv`, says that a day with a recorded
pass is NORMALIZED and its rows pass; it is kept because `StepServes` never lets a served day
change its rows. Its data part is the correctness of `_gap_metrics` (`GapsCounted`):
`SortedFacts` shows that the ranks of `Sorted` list a finite set in increasing order,
`FoldCounts` that the fold over the first k timestamps has counted exactly the minutes (`Lost`)
and the holes (`Holes`) before the k-th (`Counted`), and `NextTime` that between two consecutive
timestamps there is at most one hole. `PassIsEveryMinute` concludes: n different multiples
of the interval inside the day, none of them missing, are all of them.

## 6. Attempts and campaigns

`ExperimentRun`: an attempt is created, queued, started, computed, promoted (tmp renamed
to gold), persisted, completed. A step is a transaction or a change of gold; what
happens in the memory of the process or in its own directory under tmp is merged with the
step after it. `Raise` stands for every exception, Ctrl+C included, `QuarantineFailed` and
`RecordFailure` for the handler of `run`, `HandlerRaises` for a handler that fails.

`CampaignRun`: each coordinator is a `campaign run` command with its local variables in one
record. It registers, decides trial by trial what is a cache hit, moves the campaign to
RUNNING, executes the pending trials and finishes. Fail-fast, the call queue of the pool
(`Cancellable`), a broken pool (`WorkerDies`), `shutdown(wait=True)` (`draining`, `stopping`) and
the interrupt handler that marks attempts STALE in two transactions are each modelled as
the code does them. `Rerun` is `experiment rerun` from another shell.

`CampaignOutcome`: successes are never taken back, the campaign completes only when every
trial has one, and its outcome is final.

Abstractions: the latest success is read in the same step that creates the attempt;
requests of a pool not yet started are dropped when the coordinator leaves; heartbeat
times, reports and registration conflicts are left out; wall clock does not go back, so
that the last row of `list_runs` is the latest attempt. An interrupt that arrives in the
few instructions in which a finished future is inspected counts as an interrupt before or
after them.

**Runs.** `campaign_resume`: one coordinator at a time, two commands, two trials, one fault:
enough for partial outcomes, fail-fast with a second trial, a resume that finds a success,
a failure, a damaged bundle or an attempt of a dead process. `campaign_commands`: two
coordinators and a rerun on one trial, two faults, so that one interrupt can hit an
attempt of the other command. `MaxAttempts` bounds the attempts of a trial and is at least
the number of commands, so it never stops one. `success_duplicated` shows finding 3.

`RunningIsExecuted` excepts attempts whose process was killed and those whose exception
handler failed itself: the program has no recovery for them (`mark_stale_runs` has no
caller), and no document promises one. Two more limits the model shows and no property
states: an exception between the rename and the return of `persist`, or a STALE mark,
leaves the bundle of a failed attempt in gold (`runner.py:451`, `artifacts.py:397`), where
ADR 0010 wants it in quarantine; and executions of one experiment that overlap may both succeed with different
digests, since the digest to compare with is read before the attempt exists
(`runner.py:349`).

**Fairness** (`campaign_commands`). A coordinator that is not killed takes its next step, and an
attempt goes on or raises. The computation of a trial is finite and does no network I/O.

**Proved** (`CampaignProofs`), for every number of trials, attempts, commands, workers and
faults: `SucceededIsPublished` and `RunningIsExecuted`. The argument first shows that whatever
a command does, the registry changes only by the steps of `ExperimentRun`
(`NextRegistryStep`), then that each of these preserves `RunInv`: between rename and
registration the bundle is in gold, nothing is a success before `complete_run`, and RUNNING
implies the try block, its handler or a dead process. 

`CampaignImplementsOutcome`: `CampaignRun` implements `CampaignOutcome`. A command finishes a
campaign from what it remembers, not from the registry, so the inductive invariant
`CampaignInv` says that every command's memory is sound: a trial it counts as a cache hit or as done has a success
(`Sound`), every trial it planned is either cached or pending, and the successes only
grow, so what was sound stays sound whatever other commands do. COMPLETED needs
no failure, and a count of zero failures over the pending trials means that each has a success.

## 7. Registry and promotion

| code | model |
|---|---|
| `plan_campaign`, `_grid_combinations`, `_constraints_pass` | `Combinations`, `ValidCombinations`, `Plannable`, `TrialIds` of `CampaignTrials` |
| `robustness.py` neighbourhood, gates of `assess_candidate` | `Neighbors`, `NeighborhoodHolds`, `GatesPass` |
| `ablation.py` | `Resolvable`, `Decide` of `CampaignTrials` |
| `PROMOTION_TRANSITIONS`, `current_research_stage`, `record_promotion_event` | `PromotionTransitions`, `Readable`, `ReadsAs`, `Accepts` of `PromotionHistory` |
| `register_*`, `INSERT OR IGNORE` | `StartCommand`, `Register`, `EndCommand` of `ResearchRegistry` |
| `promote_candidate`, `promote_phase4`, `reject` | `AssessCandidate`, `AskCandidate`, `CandidateRefused`, `AskPhase4`, `AskRejection`, `RecordEvent` |
| `evaluate_campaign`, `record_feature_evaluations` | `Ablate`, `RecordEvaluations` |
| any process | `Killed` |

Each call of the store is one IMMEDIATE transaction and one action; a command makes
several. `ResearchRecord` is what an auditor may rely on: a name means for ever what
it meant first, a stage moves by permitted transitions from the stage it is really in, a decision stays.

Events are read in the order of a wall clock that can be set back. `ReadStageIsTrue` says
that such a history may become unreadable, but never gives an earlier stage: the
transition relation has no cycles.

Abstractions: identifiers are the definitions they hash; a command gives one reason, so
that the same event twice is the same row (`promotion_id` also hashes reason and criteria);
one result of a trial is kept, the first. Known limits without a property: a candidate is
assessed on the trials that have succeeded so far, also while the campaign runs
(`promotion.py:183`); changing `max_trials` alone keeps the identity of a campaign and then
conflicts with the stored row; `campaign resume` never allows large campaigns; the
stage shown by portfolios (`strategy_portfolio/loader.py:104`) is not checked for
consistency. Not modelled: status changes of hypotheses, migrations, Markdown reports,
the statistics (DSR, PBO) behind a gate, which is a constant predicate.

**Run** `registry`: two processes, two commands, at most three events, two times, one
trial that somebody reviews and one that is compared with it, plans of one, two and three trials. Three events and two times are enough
for every pair of events to be read in the wrong order with a third one before, between
or after; two processes make both decide on one stage. Symmetry of the processes.

**Proved** (`RegistryProofs`), for any commands, trials, metrics, times and bounds: type
correctness with references, `ReadStageIsTrue`, `RecordIsAppendOnly`. The transitions strictly raise a
rank of stages (`RankGrows`), so in any order in which a history can be read each move
leads further (`Descent`), the move of the highest rank is both the last one read and the
last one recorded (`LastIsReadLast`); `History` keeps that the moves are recorded from
the stage that was the true one.

## 8. Research engine

`ResearchDataset` has the window operators, the features and the panel
(hours, outcomes, completeness), `StrategyScores` and `Strategies` every registered
strategy, `PortfolioPolicies` every policy, `WalkForward` the run: `BuildPanel`,
`RefuseHistory`, `StartRun`, `FitAndScore`, `FitFails`, `WeighScores`, `ScoringFails`,
`WeighingFails`, `Bar`, `BarRefused`, `NextFold`, `FinishRun`, `ReportTrades`.

Prices and returns are integers and weights are in units of 1/400 of the capital, so the books
can be compared exactly; where the code divides, a weight is rounded and the property
allows the rounding it names. Fitted parameters (coefficients, pair models) are chosen
from small sets: whatever the fit computes, it is frozen for the fold.

**Run** `walk_forward`: eighteen histories of 6 to 22 hours for three symbols with holes,
spikes, payments at and between boundaries and a collapse, 21 pairs of strategy and policy that cover
every one of both, delays of zero and one. Train and test windows of three rows and an
embargo of one make every off-by-one visible, and 19 hours give two folds, so that positions meet a fold's end. `PriorExtremaAssumption`
checks the deque of the prior extrema against its definition for short series. Every parameter of a strategy has one value (`MCTuning`),
chosen so that it both trades and rests.

**Proved** (`ResearchProofs`, and `ResearchCausality` for the last), for any universes, histories, plans, delays, windows, embargoes,
tunings, risk limits and costs that meet the assumptions: `LabelsPrecedeTest`, `HoldIsBounded`,
`WeightsWithinMandate`, `FundingPaidByHolder`, `BooksBalance` and `DecisionsAreCausal`. The assumptions are those of
the code's constants and validators: windows of at least one hour, the short one within the day of history that a
decision needs (`WindowsAssumption`; `features/volatility.py:32`), windows and an embargo of at least one row and no negative cost
(`FoldsAssumption`; `costs.py:32`), a positive holding period (`HoldAssumption`;
`state_machine.py:35`), a strategy's windows and weights (`TuningAssumption`), gross exposure of at
most the capital, no negative limit and sleeves that share out the whole (`RiskAssumption`;
`portfolio/registry.py`), a policy that reads only columns its strategy scores (`PlansAssumption`), and hours
of the recorded form, with anything in them (`HistoriesAssumption`).

- *The invariants.* `ResearchInv`: the panel is built from the recorded hours, a fold that is
  scored exists in it, and its scores are those of the plan's strategy. `RunInv` adds that every row of
  targets is `Lawful` for the plan's policy. `LedgerInv` adds what each row of positions and
  curve records of the row of the panel as far behind the first test row as it is in the
  book, across the folds' ends. The properties speak of what was computed in earlier steps,
  and none is inductive without these.
- *Sums.* A sum over symbols, rows or payments is the community modules' fold, which chooses an order.
  By induction over finite sets it adds, scales, splits, follows a
  renaming and, for a table, is the same by rows as by columns (`TotalIsSum` to `TableTotals`).
- *Labels.* `BuildRows` numbers its rows by the rank of their hours. Every rank of a finite set of
  numbers is taken (`RanksFrom`) and higher ranks are later hours (`RanksOrder`), so rows
  ascend however many hours are incomplete (`PanelIsDated`). The first tested row is then two
  rows after the last training row, hence at least two hours, and that is when its outcome ends.
- *Holds.* `SparseColumn` is a recursive function: that a function with its equations exists, and so
  that it computes what they say, is shown by induction over its length (`ColumnIs`). While
  a position is held its count falls by one a row from at most `hold - 1` (`RowCounts`), and
  a row that leaves a position does not enter another, so `hold + 1` rows in succession
  cannot all be held (`HeldAtMost`). Each of the three strategies is such a matrix,
  or has a cell without history, which the property excepts.
- *Weights.* Every scaling divides and rounds towards zero, so it cannot raise gross exposure
  or a weight; what it can disturb is the net, by less than one unit a symbol
  and scaling, which is the rounding the property names. Buffers keep a row that
  is lawful or take one that is, and the delay only moves rows.
- *Funding.* A position is carried at most to the next row's execution (`CarriedIs`), so a payment has at
  most one holder. Each payment is due in the hour of one decision (`DueIs`); while a position is
  carried the panel has no row between its own and the next one, so of the payments due meanwhile
  only those of its own hour are in an hour with a row (`HeldForIs`), and these are what the
  panel summed.
- *Books.* The reconstruction of a symbol's episodes is a recursive function over its rows. A state
  of it is `Sound` when its closed episodes follow each other and end before the open one began,
  and `Accrued` is what they hold together. A row adds its profit and exactly the
  change of its weight (`RowEffect`: an exit and an entry on opposite sides charge the two
  sizes, which is the change), and the last row the closing as well (`StepEffect`). By induction the
  episodes hold what the rows booked (`EpisodesHoldRows`); summed over symbols on one side and
  over rows on the other this is the fold's curve.
- *Causality.* Two inputs are compared that agree on their first rows (`Shared`, `Grown`), and each
  definition in turn is shown to keep the agreement: windows, deques and z-scores, the features
  (`FeaturesShared`), the payments of an hour (`PaidShared`), the rows of the panel (`RowShared`), every
  strategy (`ScoresContinue`). The shorter history lacks hours, so its panel must not only hold the same
  rows but the same number of them: a row is complete in one when it is in the other, and the first
  `i` hours of the longer order are the order of the hours up to the `i`-th (`AscendingBegins`,
  `PanelBegins`). Event-driven strategies start flat at the first test row in both, and their rows
  follow by induction (`StatesShared`); quantiles frozen by a fit read only training rows, which
  the shorter panel has.

Known limit: rows that are missing inside a fold carry positions over the gap, and holds
count rows (`backtest.py:379`). The payments of the missing hours are charged to nobody, also the one at the
moment at which the position is replaced, which `src/docs/research_protocol.md:14` gives to the previous position;
`FundingPaidByHolder` says so (`InGap`) and holds for all others. `GapInFold` is a history with such a payment. Not modelled: cost stress, volume participation, rank
correlation, metrics and bootstrap.

## 9. Funding

`FundingHistory`: `Start`, `GetPage`, `GetFails`, `GetRefused`, `WriteRaw`, `WriteParquet`,
`WriteManifest`, `Register`, `RebuildCatalog`, with an exchange that publishes and revises
(`Publish`, `Revise`) and `Killed` anywhere. Events of distinct types may have one time, and a page takes any of
those of its last time (`Pages`). A revision is a number, its rate what `RatesOf` gives, so a
rate can go back to what it was. File names hold the checksum of the rates; the view takes, of each event,
the row ingested last.

`SyncIsServed` is claimed of every event but two kinds, which the code does not serve: events that a full page
leaves out although it ends at their millisecond (`CutBy`; the next page begins after it,
`funding.py:100`), and events whose rate went back (`Restored`; the file of the old content exists,
so it is not written again and keeps its old `ingested_at_ns`, `funding.py:197`). Simultaneous events that
share a page are included. Both differ from `src/docs/data_contracts.md:126-128`: the account adds simultaneous
events of distinct types, and the view selects the most recent observation. The ghost fields `begun` and `cut` of the command record what a sync is to find.

Assumed and stated in the module: one command at a time, a clock that does not go back. Known
limits: `funding sync --symbols X` rebuilds the view from the files of X only (`cli.py:650-656`); an error 5xx
whose body is not JSON is not retried.

**Run** `funding_history`: two symbols, events of three times of which two are simultaneous, one of them
revised, pages of two events, two attempts and at most two raw files, which bounds the number
of commands (deadlock is not checked for that reason). From the first time on a page ends between the simultaneous
events, from the second it holds both and another follows; two files of one range and different content are
what the view has to choose between. **Fairness**: the event loop goes on with the command.

**Proved** (`FundingProofs`), for any symbols, events, rates, ranges, requests, page size and number of
commands, revisions and kills: `TypeOK` and `SyncIsServed`. From `FundingAssumption`: `Keys` is finite,
times are natural numbers and, as `parse_symbols` sees to it, a request is not empty. The invariant
`Inv` has four parts beside the types. `FilesInv`: a file has the rates of its name, and one written later has, for
its symbol, no older revision (`Ordered`). `CommandInv`: what a command holds is no older than any file
(`NoOlder`), so that the file it writes keeps the order. `CoveredInv`: before the cursor nothing
is missing that was published when the fetch began and was not cut; it rests on `PageCovers`:
what a page leaves out is not earlier than any of it, and a page that is not full leaves out
nothing. `DueInv`: what a completed sync had to find is in some registered file, the one it wrote or one
of the same name, whose revisions are the same where no rate was restored. The row ingested last then
has it at least as new (`LatestServed`).

## 10. Strategy portfolios

`StrategyPortfolio`: attempts of experiments end (`AttemptEnds`) and artifacts are damaged
(`Damage`) while a dashboard is built: `Build`, `LoadComponent`, `LoadFails`,
`AcceptComponents`, `RefuseComponents`, `AccountPeriod`, `EquityLost`, `Analyse`, `Publish`, `Finish`. Costs are
one rate per traded unit.

**Run** `strategy_portfolio`: six experiments that differ in costs, folds, hours or
symbols, seven portfolio files, two attempts, one damage, two times. The experiments give
every reason to refuse a portfolio and both ways to align; the capital of 40 can be lost.
The system stops when all is built (deadlock is not checked).

**Proved** (`PortfolioProofs`), for any experiments, books, portfolio files, shares, attempts
and damages: `NettingOnlySaves` and `LegsExplainTheBooks`. `PortfolioAssumption` says what validated
declarations and frames are: finitely many symbols, integer weights and profits, rates and
shares that are not negative.

- *Sums.* `MapThenSumSet` is a fold, which a proof cannot unroll, so a sum is first shown to
  count cells (`SumOver`, `TotalIsSum`); that it adds, scales, is monotone, bounds sizes,
  exchanges rows with columns and does not mind how terms are named (`TotalRenamed`,
  `TotalOfNames`) follows over the subsets of its domain.
- *The invariant* `PortfolioInv` says why no step disturbs the account: curves have the types of
  their books and every row is what `_run_fold` books (`AttemptsInv`), components are copies
  that later damage does not reach (`FilesInv`), both accounts are a function of the curves
  and the grid (`AccountInv`), and what is analysed is accounted for to the end and has the
  legs of its weights (`LegsInv`). Neither property is inductive: both speak of rows, and only
  the copies and the grid say where a row comes from.
- *Netting.* Under strict alignment the times tell rows apart, so every component is read at
  the same position and folds begin and end together (`StrictIsAligned`); the rest is the
  triangle inequality, symbol by symbol, over the weighted components.
- *Legs*, for both policies. The intersected grid has one period per common time
  (`AscendingOf`: every rank of a finite set of numbers is taken), so every component has a row
  in each (`RowsOfPeriods`). A leg is the name of a nonzero change in one cell
  (`BookLegsAre`), so the legs of a period trade the turnover of the account (`BookTraded`) and, in
  step, of the backtests (`LegsOfTheSleeves`). A component has at most one leg of a kind in a cell, so
  contributions sum what the components change (`LegsContributed`). Entries and exits are
  counted along the periods of a fold: up to a period there is one entry more exactly when a
  position is carried out of it, and none is carried out of the last (`EnteredAreLeft`).

Known limits: a netted portfolio whose equity is lost raises outside the `try`
(`snapshot.py:250`) and stops the whole dashboard, where `src/docs/research_platform.md:244-245`
isolates an invalid portfolio; equal labels overwrite each other's contributions, and
the intersection of grids is exploratory, so the properties except both. The newest success is the one with the latest clock.

## 11. Findings

1. `NeverDiscardsSilently`: Ctrl+C while a route waits in `queue.put` discards its event with no
   counter touched, and the report passes (`recorder.py:196`; `src/README.md:246`).
2. `CheckpointAdvances`: a late event of an earlier hour, flushed after a newer batch,
   moves the checkpoint backwards (`state_store.py:333`; docstring at line 310).
3. `SuccessNotDuplicated`: a RUNNING campaign is entered by a second command with an outdated
   plan (`campaign_runner.py:160`; ADR 0011).

Further departures from the documents, which no run is about, are the known limits of sections 8 to 10.

## 12. What is checked and what is proved

| run | about | passing properties also proved | only model-checked |
|---|---|---|---|
| `recorder_run` | capture and shutdown | all safety, refinement of `LosslessCapture` | `ShutdownReachesAudit` (liveness) |
| `stream_store` | files, rows, checkpoints over crashes | all safety, refinement of `VisibleBatches` | `PromotedIsRecovered` (liveness) |
| `archive_pipeline` | archives, normalisation, catalogue | all safety, refinement of `ServedDays` | `EventuallyListed` (liveness) |
| `campaign_resume`, `campaign_commands` | attempts and campaigns | `SucceededIsPublished`, `RunningIsExecuted`, refinement of `CampaignOutcome` | `CampaignSettles` (liveness) |
| `registry` | definitions, promotion, ablation | all | none |
| `walk_forward` | research engine | `LabelsPrecedeTest`, `HoldIsBounded`, `WeightsWithinMandate`, `FundingPaidByHolder`, `BooksBalance`, `DecisionsAreCausal` | none |
| `funding_history` | funding | `TypeOK`, `SyncIsServed` | `SyncEnds` (liveness) |
| `strategy_portfolio` | portfolios | both | none |
| `recorder_silent_drop`, `checkpoint_advance`, `success_duplicated` | findings 1 to 3 | | |

Liveness under fairness and ENABLED are out of the prover's reach. The library's induction
theorems cannot be cited, as they take an operator; what one fold computes can still be proved
over its positions by a least counterexample among the finite sets of positions
(`FoldCounts`), and what a recursive function computes over its arguments by a least number
(`NumberInduction`), which is done where a property rests on one. Every property of a passing run has a mutant of the
code's definitions that violates it in that run (`PROJECT.json`, `mutants`).

## 13. Not modelled

With reasons under `components` in `PROJECT.json`. Replay sorts verified files once and
sleeps between events. Stream parsing, universe and metadata are pure functions or files written
once. Statistics (Sharpe ratios, bootstrap, DSR, PBO) and rendering compute over real
numbers and text, keep no state and interleave with nothing. Configuration, command line
and observability are wiring; what a command does is modelled where it calls it.

Hazards without a property, each with its reason in `PROJECT.json`: age of a batch
(durations), bundles of failed attempts in gold, digests of overlapping executions, attempts
of killed processes, order of attempts by wall clock, candidates of unfinished campaigns,
and one portfolio that aborts the dashboard. Of two more a part has none: the recorder's audit blocks
the event loop (after what `ShutdownReachesAudit` states), and the two kinds of funding events of section 9.
