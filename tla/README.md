# TLA+ verification of research-orchestrator

The orchestrator is a FastAPI service (one uvicorn worker, `src/src/orchestrator/__main__.py`)
through which autonomous agents run trading research. It owns no schema: it is a DML client of
the PostgreSQL database of a trading JVM, it has a *research JVM* run backtests, it spawns
`blackheart_train` child processes, and everything it knows between two requests is in tables.
All of its hard behaviour comes from that: long handlers that hold no lock, that await a dozen
times between two related writes, and that may be cancelled or die at each await.

Paths below are relative to `src/src/orchestrator/`.

## 1. Inventory

| Component | State | Operations | What is hard | What makes it correct |
|---|---|---|---|---|
| Research queue (`repo/queue_write.py`) | `research_queue` rows: status, `iteration_number`, `started_at`, `active_backtest_run_id`, last iteration, final verdict | claim, recover, rollback, park, fail, requeue, complete, reset, cancel, attach | single statements guarded by status *or* by `started_at`, never both | a closed row stays closed; the counter is exact |
| Tick (`services/tick.py`) | locals of one request; `hypothesis_audit`, `research_iteration_log` | claim, resume, derive a combo, record the trial, submit, poll up to an hour, log, attach, decide | concurrent ticks, reaper, crash at any await, lost answers, stale counts | one tick per row; one iteration per run; evidence belongs to its run and its trial; no cell skipped; every sweep ends |
| ML training (`api/ml_training.py`, `services/ml_training.py`, `repo/ml_training_runs.py`) | `ml_training_runs` rows, the set of in-flight tasks, child processes | POST, task, time-out, shutdown, boot reaper | task, row and child can each outlive the others | terminal is final, never a verdict over a live child, nothing stuck |
| Queue intake (`api/queue.py`) | inserts queue rows | enqueue behind review, discard and account gates; cancel; requeue | gates read once, at enqueue | no unreviewed or discarded sweep is queued |
| Idempotency (`services/idempotency.py`) | (agent, key) -> answer, 24 h | look up, work, store | three separate steps | a retry has no second effect |
| Reviews (`api/reviews.py`, `repo/reviews.py`, `services/review*.py`) | journal rows: requests, verdicts | request, verdict, auto-run of a checklist | a verdict closes *all* requests of its target | the gate uses a verdict on what was asked |
| Tick drain (`services/tick_drain.py`, `services/tick_summary.py`) | a digest | repeat `run_tick` until a stop condition | which outcome stops the loop | the digest names what the last tick did |
| Signal pool, house book (`api/pool.py`, `services/pool.py`, `services/house_book.py`) | `signal_pool` rows and weights, live weights of `account_strategy` | admit, rebalance, reconcile (evict), sync | plans computed from a read that others overtake; one autocommit write per row | weights sum to at most 1; no live weight without membership |
| Book rebalance and cron (`services/rebalance.py`, `tasks/rebalance_cron.py`) | live weights, journal | compute, guard, write; nightly per account | guard outside the write transaction | weights and journal agree |
| Model registry (`api/models.py`, `repo/models.py`) | model rows with a lifecycle | register, promote, mark synced | races on version and on status, cached errors | only legal transitions; nothing unvetted trades |
| Experiments (`api/experiments.py`, `repo/experiments.py`) | run header, metric rows | start, log metrics, finish | two tables that mirror each other | one verdict per run; header and metrics agree |
| Signals (`api/signals.py`, `repo/signals.py`) | signal definitions | promote | check and update apart | retired is terminal |
| Strategy registry, registry sync | registry rows | create, patch, upsert by slug, archive; the loop's find, then insert or update | find-then-write against human edits | claimed rows stay claimed; curated rows are never overwritten |
| Walk-forward, cross-window, null screen, capacity sweep (`services/walk_forward.py`, `cross_window.py`, `null_screen.py`, `capacity.py`) | locals of one request; one certificate row | a batch of backtests, one after the other, then a verdict and one insert | a backtest that fails; what an empty or thin batch may conclude; month arithmetic | test windows apart; a verdict rests on completed runs |
| Pooled certification (`services/pooled_certification.py`) | audit rows, one iteration, one certificate | audit every sleeve, run every sleeve, count trials, insert, link; then folds of all sleeves | half a book; trials counted while others add them | the iteration's evidence is all of its book |
| Signal screens, regimes, carry and hedging gates, combination, roster, drift (`services/signal_screen.py`, `regime_analysis.py`, ...) | none, or one journal row | align series, rank, match, judge | one pass over sorted rows: ties, gaps and ends | the answer is that of the definition |
| Verdict rules (`services/analyze.py`, `services/portfolio.py`) | none | metrics -> statistical verdict -> decision | thresholds | the reachable verdict pairs |
| Agent playbook, papers, journal, features, inference, monitors, rankings, reads | appended or read rows | inserts, digests, proxies | little | - |
| Lifespan (`tasks/lifespan.py`) | pools, tasks | boot, shutdown | order of the shutdown | modelled with ML training |

`PROJECT.json` lists every component with its source files and status, and every hazard at its
line with the properties that would catch it. The interactions between components are:

* agent -> `POST /tick` or `/tick/drain` -> queue rows -> research JVM -> `backtest_run` rows
  (written by the JVM, read by the tick) -> iteration log, audit rows -> queue row;
* the reaper has no process of its own: it is step 0 of *every* tick, of whatever row;
* agent -> request review -> verdict (by another agent, or the auto-checklist as its own agent)
  -> `POST /queue` reads the verdict, the discards and the account at one moment, and inserts;
* operator -> `/queue/{id}/cancel`, `/queue/{id}/requeue` -> the same queue rows;
* agent -> `POST /ml/training-runs` -> row and background task -> child process -> row;
* agent -> certification request -> research JVM, one run at a time -> `hypothesis_audit`,
  iteration log, journal or certificate row; the trial counts of other requests are read from the
  same audit rows;
* agent, reconcile, rebalance -> `signal_pool` -> sync -> live weights of `account_strategy`, which
  the nightly rebalance and the operator write too;
* lifespan -> cancels the training tasks at shutdown, reaps their rows at the next boot.

## 2. Modules

| Module | Models |
|---|---|
| `ResearchQueue` | the table and each statement of `repo/queue_write.py`: one operator per SQL statement, a no-op when its WHERE clause matches no row |
| `Tick` | `run_tick` as one step per await that reads or writes shared state, the JVM, the clock and the operator; extends `ResearchQueue` |
| `SweepLedger` | the abstract promise about a grid sweep, with no word of ticks, runs or crashes |
| `MCTick` | instances of `Tick` for TLC |
| `Backlog`, `MCBacklog` | `Tick` with the walk-forward backlog and the requests that drain it |
| `TickProofs`, `TickEvidenceProofs` | theorems about the tick and its ledger |
| `MlTraining`, `MCMlTraining` | training runs: request, task, child, shutdown, reaper |
| `MlTrainingProofs` | theorems about the training runs |
| `Reviews` | the review journal, the review gate's query, and the phase checklist that writes verdicts |
| `Intake`, `MCIntake` | requests in flight behind the idempotency store: review request, verdict, checklist, `POST /queue`, walk-forward; discards, crashes, client time-outs |
| `Lifecycles` | the status graphs and verdict tables of the catalogues: constants and functions, no state |
| `Registries`, `MCRegistries` | models, experiment runs, signals and the strategy registry under overlapping callers, the loop's sync, retries and crashes |
| `RegistriesProofs` | theorems about the catalogues |
| `Books`, `MCBooks` | signal pool, House Book sync, account rebalance and cron: every read and every row written is a step of a call in flight |
| `IntakeProofs`, `BooksProofs`, `GauntletProofs` | theorems about the reviews and the intake, the books, and the certification requests |
| `WalkForward`, `Screens`, `Analysis`, `Drain` | operators without state: folds and verdict rules; screens; from trades to verdicts; what a tick's answer means |
| `Gauntlet`, `MCGauntlet` | the requests that run batches of backtests, one step per await, over the four modules above |
| `Weights`, `BookGates`, `Reports` | operators without state: how capital is divided; carry, hedging and combination gates; roster, drift, paired deltas, regimes, prescreen |
| `Calculations`, `MCCalculations` | asks the operators above every small question and holds the answers against reference definitions |
| `CalculationsProofs` | theorems about the calculations, for questions of any size |

### Tick

A tick is a record: a program counter and the locals that `_execute_after_claim`,
`_derive_and_submit` and `_poll_and_finish` carry from await to await.

| `tick[t].pc` | code | action |
|---|---|---|
| `idle` | `run_tick`, step 0 | `Recover` (`recover_stuck`) |
| `claim` | step 1, `claim_next` | `Claim`, `EmptyQueue` |
| `resume` | step 1.5 | `Resume` |
| `derive` | steps 2 to 3.5 | `Exhausted`, `ConfigError`, `RecordTrial` |
| `submit` | step 4, `submit_backtest` | `SubmitAccepted`, `SubmitUnanswered` |
| `store` | `set_active_run` | `StoreActiveRun` |
| `poll` | step 4.5 | `PollCompleted`, `PollDead`, `PollCapExpires` |
| `find` | step 5, `find_iteration_for_run` | `FindIteration` |
| `log` | transaction A | `LogEvidence` |
| `attach` | transaction B, `_attach_fenced` | `Attach` |
| `decide` | step 6, `_decide_next_state` | `DecideNextState` |
| `reply` | return, paper, release of the connection | `Reply` |
| `rollback` | the handler `_rollback` | `Rollback`, `RollbackFails` |

`TickFails` is an exception or a cancellation at any await after the claim; `ProcessDies` ends
all ticks at once and runs no handler. What a tick committed stays: each action is one
transaction. The data is abstract: a combo is a cell number, a run, a trial and an iteration are
known by their place in their table, the analysis chooses any of `Outcomes`, a subset of the
four verdict pairs `decision_verdict` can produce. Timestamps matter in two ways only: `started_at`
is compared for equality by the fence (`Fences`), and with the reaper's age (`overdue`).

`Claim` keeps the active run that the RETURNING clause of the claim brought; `Resume` works from that copy, as the
code does, and not from the row. Steps read more than one thing in one action only where nothing can come in between that
matters; the comments say so.

What a slow tick does is a matter of `SlowTicks` and `LateCancel`. With both FALSE a claim in progress is safe from the
reaper and a tick is not cancelled after its last write; with both TRUE, two ticks can work on one row, and `started_at`
and the status guards are all there is between them. `ClosedStaysClosed` and `EvidenceMovesForward` say what these
still hold; every other property of the tick needs the first reading (section 3).

### Backlog

`Tick` and, beside it, the two steps of `POST /walk-forward` on a candidate of `GET /walk-forward/backlog` that the
tick parked: `RunWalkForward` stores the verdict, `AnswerWalkForward` is the rest of the handler. Neither touches the
queue: the only callers of `complete_queue` are in services/tick.py, guarded by RUNNING and without a
`walk_forward_id`. The folds and the gates of the request are in `Gauntlet`.

### SweepLedger

`ImplementsLedger` maps each grid row to a sweep with a phase, a cursor and a set of cells with
evidence. The cursor is what the iteration counter amounts to once the attempt in progress is
taken off (`CellsBehind`). The ledger only advances past a cell with evidence, and a step of the
tick, crash, reaper or operator must be a ledger step or a stutter.

### MlTraining

A run has a row (`status`), a request (`request`), a task (`task`: step, verdict to write,
cancellation on its way) and a child process (`child`). `_run_subprocess` is `created`, `spawn`,
`mark`, `wait`, `write`, `return`; every exception leads to `except`, which kills the child
before it writes FAILED. `Shutdown` cancels every task, as `lifespan` does through
`cancel_inflight_training_tasks`; `CancelArrives` is `except CancelledError`, and a cancellation
that finds the task inside the handler of an earlier exception cuts that handler short
(`CancelCutsHandler`). `blind` records that a terminal write was refused or cut off and only
logged. `Boot` reaps, best effort. Uvicorn finishes the requests in progress before the lifespan
ends, which is why `Shutdown` waits for them and why a created task has had its first step by then.
`mark_terminal` of the reaper and of the tasks all go through one guarded write.

### Reviews and Intake

A call is a record with an intent (which endpoint, on what, by whom) and a step: `lookup` in the
idempotency store, the gates or reads of its handler one await at a time, its write, and `store`,
which keeps the answer under (agent, key). `Crash` loses every call in flight and none of the
rows. A client that has heard no answer may call again with the same key: after the first
call ended if `ClientTimesOut` is FALSE, at any time if it is TRUE. The journal is one sequence
of entries, as `research_review_log` is one table ordered by time; a verdict closes every open
request of its target in the same transaction, which is what `insert_review_verdict` does.
What each statistical check of the checklist answers is a choice; the order of the checks, the
ones that abstain and the verdict their results add up to are the code's.

### Registries

Four catalogues with one pattern: read a row, decide, write it in a later statement. A call in
flight (`calls[c]`) holds its intent, its next step, the place of its row (`at`) and the status it
read (`seen`). The row of a model or run keeps in `trail` every status it had, of which the code
keeps the last; that is what lets an invariant speak of edges. The steps:

| Code | Steps |
|---|---|
| `register_model` | `FindByArtifactSha`; `ComputeVersion` (the subquery of the INSERT sees what was committed when it began); `InsertModel` or, when version or hash is taken by then, `RegistrationLost` |
| `promote_model` | `ReadModel` with `validate_transition`; `UpdateStatus`, guarded by the status that was read |
| experiments | `InsertRun`; `FinishRun`, guarded by `running`; `InsertMetric` and `MirrorMetric`, one transaction that shows at its commit |
| `promote_signal` | `ReadSignal`; `UpdateSignal`, not guarded |
| strategy registry | `Create`, `Patch`, `Rename`, `Archive`, one statement each; PUT by slug is `PutReads`, `PutInserts`, `PutRereads`, `PutUpdates` |
| `sync_from_research` | `SyncFinds`; `SyncUpdates` or `SyncInserts`, not guarded |

The version of a model is its place in the table, as all models are of one purpose, symbol,
interval and horizon. Idempotency is that of `Intake`, with a key per intent; the strategy
registry has none. `by` names the last writer of an entry and stands for `updated_by`.

### Books

A call in flight holds what it read (`seen`) and the rows it still has to write (`todo`). Pool
rows and live weights are written one statement at a time, so other calls, the operator and a
crash come in between; `CommitRebalance` alone writes its rows and its journal entry at once. A
weight is the number of the computation it came from: the weights of one computation sum to 1,
so "one computation" is what the sum bound needs (how one splits the book is `Weights`). What
returns there are on file is a history: `Listed` says which members have a series, `Marginal` what each adds to
each set of others, measured or not, with no further assumption. Admission compares it with a threshold of at least 0 and an
eviction with any; a reconcile evicts the lowest at or below its threshold, measures the rest again, and leaves alone the last one
and whoever cannot be measured or has no series. A rebalance weighs the members that have a series and leaves the others as
they are. The history may change at any time. `serial` marks the behaviours in
which calls follow each other: the code promises a book that follows its pool only to those.

### Gauntlet

A job is one request: its kind, its arguments, and the results so far. Each backtest is a step with
any result of a small set, `NoData` and failures among them. Audit rows are inserted before the
runs (`AuditSleeve`, `AuditDraw`), trials are counted after them, one surface at a time (`CountTrials`), and iteration,
verdict and links commit together (`CommitAnalysis`). A walk of a book keeps
the rows of each fold's sleeves (`parts`) with its certificate, as `fold_results[].sleeves` does. A crash ends every job and keeps the rows; an exception that no handler catches ends
one (`Raise`). A walk-forward of an iteration that is not on record skips the low-frequency gate, as the endpoint does. The
verdict operators are those of `WalkForward`, `Screens` and `Analysis`; dates are
<<year, month, day>> and month arithmetic is exact. `RunTick` answers as `run_tick` can.

### Calculations

There is no concurrency in these functions: each takes rows and returns an answer. A step asks one
(`given`, `answer`), a second forgets it. What is checked is never the function restated but what
it is for: a bar sees the latest point not after it (`SignalIsCausal`); overlap is time, counted
instant by instant (`ContentionIsTime`); the symbol cap fills like water (`CapFillsLikeWater`); the
roster leaves out nobody who ranks above one it took (`RosterIsBest`); the order of rows does not
matter (`ArmsIgnoreOrder`). Money, returns and profit factors are integers in small units, rounded
as the comments say; p-values, resamples, volatilities and optimizer weights are inputs. What the rows of a
question are like is said once (`AlignGiven` to `RegimesGiven`, `InputsAssumption`): TLC evaluates that of the
instance, the proofs rest on it. Sorted sequences are `Arranged(before)`, the k-th being the one that k - 1 others come
before, and rounds are functions of the number of the round: both say what the code computes without the recursion.

Three of the references had to be restated when they were to hold of every input and not only of the small ones.
The least weight of a rebalance holds up to eleven strategies: with twelve, one at its
most and eleven at their least are more than the book, and all are scaled down. A book that owes money has no
drawdown to speak of, as a fall is a share of what it had: `DrawdownIsDeepest` compares falls from a book that owned something to one
that does not owe, and asks of one that came to owe that its drawdown is all it had. And once a book is wiped out its curve is zero or below, where a larger loss is a
smaller factor: `BorrowOnlyCosts` ends there. `HedgeIsPaired` leaves out the days after a zero, which have no return.

## 3. Runs

| Run | Instance | Distinct states | Shows |
|---|---|---|---|
| `tick_safety` | 1 grid row of 3 cells and budget 2, 2 ticks, 2 timestamps, all verdict pairs, 2 disturbances; or 2 such rows on one universe, undisturbed | 365 k | one tick per row, runs logged once and recoverable, the counter true, verdicts justified, counts honest, and `ImplementsLedger` |
| `tick_fence` | the same row with ticks that outlast the reaper and late cancellations, 2 disturbances, at most 3 runs, trials and iterations | 2.6 M | `ClosedStaysClosed`, `EvidenceMovesForward` |
| `tick_live` | a trading loop, an untracked grid row (1 cell, budget 2) and a TPE row (2 cells) of higher priority, 1 disturbance | 231 k | `EverySweepConcludes`; and, for the combos a TPE row proposes, `RunsAreRecoverable` |
| `ml_training` | 2 runs of one agent, cap 1, 3 disturbances | 113 k | seven properties |
| `intake` | 14 intents of 2 agents and the checklist, 4 calls of which 2 at a time, 1 crash | 1.8 M | what was answered stays answered; nobody reviews himself, a pending request is unanswered, a checklist verdict is earned (`ReviewsAreSound`); the latest verdict governs, discarded axes stay out (`GatesHold`) |
| `registries` | 3 calls of which 2 at a time, on one catalogue: 17 on models, 6 on runs, 6 on a signal, 10 on the strategy registry; starts from every legal life of a model; 1 crash | 988 k | models and runs stay on their graphs, nothing unvetted trades, headers mirror metrics, claims are final |
| `books` | 3 surfaces, 3 histories of returns, thresholds on both sides of the marginals, 3 calls of which 2 at a time, or 6 serial ones, 1 disturbance (override, crash, or other returns) | 2.6 M | rebalances are audited, only the book's own rows are zeroed, evictions are earned, a reconcile settles, the book follows its pool |
| `gauntlet` | 2 overlapping requests of 8 kinds, 1 to 3 backtests each with every kind of result, 1 crash or exception | 361 k | pooled evidence is whole, multiplicity is current, robust books rest on whole folds, drains add up |
| `calculations` | all small inputs of 16 calculations | 26 k | the answers match the reference definitions |
| `ml_pending` | 2 training runs, 1 disturbance | counterexample | a row stays PENDING |
| `signal_retired` | 2 agents promoting one signal | counterexample | a retired signal becomes active again |
| `fold_overlap` | a walk-forward from 2018-11-30 | counterexample | two test windows share a day that is not their boundary |

The violated runs are findings: each checks what a comment of the code says, quoted in
`PROJECT.json`. Ten more instances are kept beside them, to be run by hand
(`tlc -config <file> MC<module>`, the module being the file's name up to the underscore). TLC finds each violated; they are the strict reading of a line of the code or of its documentation, or the
assumption of a passing run taken away:

| Instance | Property | The code says | What happens |
|---|---|---|---|
| `Tick_rerun.cfg` | `CellLoggedOnce` | repo/queue_write.py:305: the next claim "resumes this run instead of submitting a duplicate" | a tick that dies between `attach_iteration` and the decision has cleared the active run: the cell is run and logged again |
| `Tick_late.cfg` | `OneTickPerRow` | api/tick.py:139: "concurrent drains never collide on the same row" | a tick cancelled after its last write rolls back the claim of the next tick; a third claim joins it |
| `Tick_dual.cfg` | `TrialsCounted` | services/tick.py:760: the "DATA-UNIVERSE trial count (every COMPLETED trial on this symbol x interval, regardless of strategy_code)" | the count, read before a run of up to an hour, misses the trial that another loop logs on the same universe meanwhile |
| `Tick_slow.cfg` | `RunLoggedOnce` | services/tick.py:68: "so a healthy in-flight tick is never reset mid-run" | a live tick that outlasts the reaper's age shares its row, and both log the run |
| `Backlog_drain.cfg` | `ValidatedLeavesBacklog` | services/tick.py:1487: POST /walk-forward "(if ROBUST) flips the queue to COMPLETED/PASS"; repo/queue_write.py:331: "walk-forward callers complete PARKED rows"; repo/queue.py:90: a candidate "iff it has NOT already been walk-forwarded" | no such caller exists: a candidate answered ROBUST stays PARKED and in the backlog |
| `Intake_retry.cfg` | `OneRowPerKey` | api/queue.py:310: "a retried enqueue doesn't multiply queue rows" | a retry that overlaps the call it repeats finds no stored answer and inserts again |
| `Registries_curated.cfg` | `CuratedUntouched` | services/registry_sync.py:9-12: curated rows "are never modified" | an admin's edit between the sync's find and update is overwritten |
| `Books_stale.cfg` | `OneRebalanceForAll` | api/pool.py:258: "HRP-weight the active pool members", "renormalise" | a member without a series is skipped (api/pool.py:298) and keeps its old weight beside the new ones, which sum to 1 without it |
| `Calculations_guardrails.cfg` | `MaxWeightHolds` | services/rebalance.py:160-162: the last resort "never re-breaches MAX" | two strategies that both leave their guardrails: the renormalisation breaches the cap |
| `Books_manual.cfg` | `ManualLeftAlone` | services/rebalance.py:31: an operator hot-fix is not silently overwritten | a weight set by hand after the rebalance read the row is overwritten at its commit |

With slow ticks (`SlowTicks`, and any of the evidence properties as an invariant) TLC also finds `EvidenceMatchesRun`,
`ActiveRunIsResumable`, `MultiplicityIsHonest`, `NoCellSkipped`, `WithinBudget`, `ConclusionJustified`, `CellLoggedOnce` and
`ImplementsLedger` violated: the code has no protection for a row that two ticks share, beyond the fence and the
status guards of `tick_fence`.

**Bounds.** `MaxFaults` caps the disturbances (crashes, failed calls, dead runs, config errors,
refused writes). With two in `tick_safety` a resumed attempt can itself be disturbed. Ids grow
with the disturbances and the cells, so nothing else needs a cap: `iter` is bounded by the
budget. Two ticks on one row are every kind of conflict there is on it: claims of distinct rows
share only the trial count, and for that `OneSweepOrTwoCalm` lets a second row of the same universe join
an undisturbed behaviour of at most three runs. In `tick_fence` a row can be lost
again and again, so `FewRuns` bounds the tables; three entries of each are two attempts that overlap and one after. The budget of 2 below 3 cells reaches both the last permitted attempt and a
continued one; exhausted cells are reached in `tick_live`, where the grid row has 1 cell for a
budget of 2. Two timestamps for two ticks: `NOW()` never equals one that a tick in flight holds.
`Symmetric` permutes ticks and timestamps in the safety runs, where no constant tells them apart; no run
with a liveness property uses symmetry.

Four calls are the longest chains that matter at intake: request, verdict, enqueue and a retry of
it, or admit, discard and enqueue again. Two calls at a time are every pair of handlers overlapping.

Three calls on a catalogue are two that race and one that made, or changes, what they race over.
`OneCatalogue` keeps a behaviour on one catalogue: they share no row and no code path, so calls on
different ones do not interfere. A model starts in any state that a registration and
promotions lead to (`MCBegun`), so three calls need not build up the seven-step lifecycle.

In `books`, three calls are two writers that overlap and one that sees what they left; six serial
ones are admit, admit, rebalance, sync, reconcile, sync, the shortest story in which a row has to be
zeroed. The three histories: everybody adds to everybody; the two streams pay alike and the traded candidate, which nobody else
replaces, loses next to them; one stream has no series and the other no day in common with the trades. The
thresholds lie on either side of these.
In `gauntlet`, two requests at a time are every pair; `Cost` weighs the requests so that the long ones do not
overlap each other, and `MaxCost` bounds their sum. A book has at most two sleeves and two folds: one whole
and one that fails, is skipped or starts late. Thresholds that count (100 trades of a robust book) keep their
value and the results straddle them; the overlap of series (20 days, `MinOverlap`), the days of a judged year
(90, `MinYearDays`), the trades of a regime (10, `MinTrades`), the pairs of a hedge (30, `MinPairs`), the observations of a coefficient (20, `MinIcObs`) and the lengths of the regime classifier are constants
of the modules and small in the instances, so that short series fall on both sides of them. `Calculations`
enumerates inputs with ties, gaps, equal times and both ends; every verdict the functions have is given.

**Assumptions of the intake run.** `ClientTimesOut = FALSE`: an agent waits for its answer before
it repeats a call, as the playbook has it; a client that gives up sooner is `Intake_retry.cfg`.
`Durable = TRUE`: the idempotency store is the Postgres table, as in production. The expiry of a
key after 24 hours is left out: the runs are shorter than a day. So are the checks of a
request body against constants, which change no state.

**Assumptions of the safety run.** `SlowTicks = FALSE`: a live tick ends within
`poll_timeout_s + 300 s`, the reaper's age; the code has no other protection but the fence.
`LateCancel = FALSE`: no cancellation between a tick's last write and the end of its `try`;
`Tick_late.cfg` and `Tick_slow.cfg` show what happens otherwise.

**Fairness.** `Tick!Fairness`: each tick keeps running (the event loop runs what is ready; agents
and drains call `/tick` again and again), time passes (`ClaimAges`), and the JVM ends the runs it
accepted. The operator and all mishaps are unfair. `MlTraining!Fairness`: the event loop runs requests
and tasks that are ready, the wall clock of a child expires, and the orchestrator is started
again after it stopped (RUNBOOK: "Every time you restart your machine"). Callers, children and
mishaps are unfair, and an `Insert` that is never answered is always possible.

**Deadlock.** Checked in the tick runs, where a tick can always be called. Training runs that all
ended are a proper final state, so the ML runs say `CHECK_DEADLOCK FALSE`; so do the runs of
`Intake`, `Registries`, `Books` and `Gauntlet`, where the number of calls or their cost is bounded.

## 4. Proofs

TLAPS checks these for every value of the constants that satisfies the assumptions that
the modules name (`QueueAssumption`, `TickAssumption`, `MlAssumption`, `RegistriesAssumption`,
`ReviewAssumption`, `IntakeAssumption`, `BooksAssumption`, `ReturnsAssumption`, `GauntletAssumption`,
`BookAssumption`, `AnswerAssumption`, `InputsAssumption`):
any number of rows, ticks, calls, agents, requests, crashes. Those say what kind of values the
constants are; five say more. `ReturnsAssumption`: a member alone has a
marginal contribution, its own. `IntakeAssumption`: an intent is a call that its endpoint accepts, and the
checklist's name is no agent's. `BookAssumption`: a book has 2 to 5 sleeves, each
from a date of the calendar, and a walk is asked for with windows of 1 to 60 and 1 to 24 months and 1 to 20 folds, as both request
bodies are validated. `AnswerAssumption`: a sleeve that completed has a number of trades, and a tick answers what `run_tick` can.
`InputsAssumption`: what the calculations are asked with. Bars and points come in the order of time (services/signal_screen.py:
"Both inputs must be ascending"; the regime query says ORDER BY start_time), a quantile spread has two observations per bucket or is not
computed, an optimizer's weights are not negative (the long-only clip of services/rebalance.py) and those of a pool are not all
zero, a cap is above 0 and at most 1 (config.py), the regime classifier has more bars than its longest average looks back on, and dates are dates.

### The tick (`TickProofs`, `TickEvidenceProofs`)

All but the first three have the hypotheses `~SlowTicks` and `~LateCancel` of the safety run; `Tick_slow.cfg`
and `Tick_late.cfg` show that they are needed.

* `TickProofs!TypeCorrect`: `Spec => []TypeOK`. Not inductive as it stands: that an iteration
  has a combo requires that a tick which will log knows its trial or will find an iteration, which requires that a
  pointer or an id in hand refers to an entry that exists. `TypeInv` adds what each program
  counter holds and that every id is within its table. `Len` of the tables only grows, and one
  lemma per statement of the queue (`StatementsTyped`, `StatementEffects`) says what it does to a
  row; each action's step cites those.
* `TickProofs!ClosedForever`: no statement reopens a closed row or rewrites the verdict of a COMPLETED one, and the three that are
  unguarded (insert, cancel, requeue) are guarded by their handlers. The claim takes PENDING rows only. No hypothesis on
  slow ticks.
* `TickProofs!EvidenceNeverGoesBack` (`EvidenceMovesForward`), for ticks that outlast the reaper and are cancelled late as well. `ForwardInv`: no two
  ticks hold one fence, so a tick whose fence its row still carries made the last claim of it; then, and only then, the iterations of its run are
  newer than the one the row points at, and so are those of an active run, whoever stored it. A tick that comes back late may still
  store its run over that of the owner: no iteration backs that run yet (`Unused`), so what is logged of it later is newer too.
* `TickProofs!MutualExclusion`. The inductive
  invariant `ExclusionInv` says, beyond exclusion, that a row with a tick in flight is not
  PENDING and not overdue, and that the fence of a tick between its claim and its last write is its row's
  `started_at`. So the reaper, a rollback or a reset by anyone but its owner cannot make the row
  claimable. `FenceNeverTrips` is a corollary: 409 `queue_row_reclaimed` needs a slow tick.
* `TickProofs!LoggedOnce`. `LoggingInv` adds that a run in hand or
  pointed at belongs to the row, and that a tick at `log` holds a run with no iteration: no other
  tick can log it, because it would have to own the row.
* `TickEvidenceProofs!NoRunIsLost` (`RunsAreRecoverable`). `RecordInv` adds what a tick knows of its
  trial: until an iteration backs the run, the latest unattached audit of the row is the one of this run, with its combo.
  A tick that has a new trial has no other live run behind it, so the trial it hides is of a dead run.
* `TickEvidenceProofs!CounterKeepsToEvidence` (`CounterIsTrue`) and `VerdictsAreJustified`
  (`ConclusionJustified`). While a tick is in flight the counter is one ahead of the cell it works on:
  `SettledInv` speaks of `CellsBehind`, ties the cell in hand to the counter read at the claim, and the cell of a live
  pointer to the counter of its row. `CounterEffects` says what each statement does to the columns.
* `TickEvidenceProofs!QueueKeepsTheLedger`: `Spec => ImplementsLedger`, step by step: `LedgerFrame` turns a step of the
  queue that changes what the ledger sees into a step of the ledger, `LedgerLog` and `LedgerDecision` are the two kinds that do,
  and all others stutter. `LedgerInv` adds that cells in hand are cells of the row.
* `TickEvidenceProofs!TrialsAreCounted` (`MultiplicityIsHonest`), for any number of rows and loops on one universe. A count is read
  before the run and used after it; that it exceeds the row's own iterations, and that it is at most what is on file with the new one, are facts
  about the cardinality of two sets that grow in between (`CountInv`). Other rows only add to the second; to the first nobody adds but the
  owner of the row. What the count misses of *other* rows is what `Tick_dual.cfg` shows.
* `TickEvidenceProofs!GridsHaveNoGap`: the ledger, taken by itself, keeps its evidence without a gap below the
  cursor, so whatever implements it does.

### Training runs and catalogues (`MlTrainingProofs`, `RegistriesProofs`)

* `MlTrainingProofs`: `TypeOK`, and each safety property of the training runs. `InStepInv` relates
  the four views of one run (`RequestFirst`, `ChildFollows`, `ServerTold`, `RunningOwned`); each is
  about one run alone, so that `RunStepLocal` reduces a step of the system to a step of the run
  it touches. The cap is different: it counts over runs. `CapInv` keeps two sets, the rows that
  count and the requests that are past the count, and rests on the library's facts about cardinality.
* `RegistriesProofs`: every property that the run `registries` checks. `IInv` adds to the tables what a call in flight holds (`Ready`): its
  row exists, a promotion that was let through asks for an edge of the graph from the status it
  read, and a sync that goes on has a conclusion to write. The UPDATE of a promotion matches that status,
  so the move is an edge (`UpdateStatusPreserves`). `OnlyVettedGoLive` then follows from the graph alone
  (`LegalIsVetted`): what failed the gauntlet has no way to a status that trades. `LivesStayLegal` (`LivesAreLegal`) joins the two, as
  the run checks them.

### Reviews and intake (`IntakeProofs`)

Everything the run `intake` checks. `StepsTo` splits a step of a handler into the step of the call and what it writes, and
`JournalWrites`, `CacheWrites` and `WorkWrites` say which handler writes which table, so that each invariant is
disturbed by two or three actions.

* `AnsweredCallsAreNotRepeated` (with `Durable`): a call that repeats an answered one gets no further than its look-up
  (`CacheInv`), because what the server answered is in the cache and stays there.
* `ReviewsCanBeTrusted` (with `~ClientTimesOut`): what a reviewer found when it looked, that the target has a request and that the
  request is not its own, is true when its verdict is written (`ReviewInv`). The first needs an agent's calls to follow
  each other (`Alone`): a verdict that overlaps a request of the same agent would judge it.
* `GatesAlwaysHold`, without a hypothesis: a gate reads once and inserts later, and still no verdict on record at the
  call's arrival overrules the one it went by (`GateInv`). A verdict row is never withdrawn, a discard never deleted.

### Books (`BooksProofs`)

Everything the run `books` checks. A plan is a sequence made from a finite set; `OrdersArePlans` gives its entries, `CallMoves` what a call
may become. `TypeInv` says which rows a call in flight will write (`Sound`).

* `RebalancesAreAudited` and `OnlyTheBookIsZeroed` hold whatever overlaps. The second needs that a row a sync plans to zero was written by a sync
  before (`BookInv`), also when its source has changed since.
* `EvictionsAreEarned`, `ReconcilesSettle` and `TheBookFollowsThePool` speak of calls that follow each other, as the code
  does (`SerialInv`). What a reconcile has still to evict is, at each point of its plan, the lowest of those that are left by
  then, and those it leaves it would not evict (`EvictionInv`); a plan is a sequence of rounds, so this says of
  each suffix of it what the round saw. `EvictionsHold` (`EvictionsAreSound`) joins the first two, as the run checks them. The members that always have a series have the
  weights of one computation except where the rebalance under way still has to write (`WeightInv`); what a sync has read
  or still has to write accounts for the rest (`SyncInv`). Nothing is assumed of the marginals.

### Certification requests (`GauntletProofs`)

One inductive invariant `IInv`, of parts that the theorems share. `WorkMoves` and `WorkWrites` say once that a step
moves the job of one caller and which tables it may write, so that each part is only argued for the actions of its own kind.

* `TypeCorrect`, `EvidenceIsOwned` (`BookEvidence`) and `TrialsAreDeflated` (`MultiplicityIsCurrent`). The
  audits in hand are on record, still unattached and of no other request (`EvidenceInv`); the counts in hand lie, surface by surface, between the
  trials that the request saw and those there are now, so that their sum does too (`CountInv`). `AnalysisAdvances` and `QuietSteps`
  say what the pooled analysis does to a job and that nothing else touches audits of sleeves.
* `TrialsBySurface`: the sum of the trials on each surface, a fold over a set, is the cardinality of their union. Induction theorems with
  an operator parameter are out of reach, so `SumIs` proves that such a fold has any closed form that starts at zero and grows by its summands.
* `DrainsAccount` (`DrainAccounts`). `DrainInv`: every tick so far answered CONTINUE, and the tally is the one of those
  ticks (`Tallied`): as many iterations and discards as they logged, statuses that add up to them, the last one named.
  `DigestInv` keeps what `Answer` made of it: the last tick alone may end the drain, an error leaves `retryable` set.
* `FoldsAreWhole` (`WholeBookFolds`). `WalkInv`: each closed fold has the row of every sleeve, in their order, and is `BookFold` of
  them; the fold in hand has a prefix of them; the certificate is the verdict on those folds, of an iteration that had begun reviewed.
  It needs that a fold ends after it begins, hence the calendar (`LaterMonth`, `FoldsAre`): a date some months on
  comes later although its day is clipped to the month. A robust verdict counts trades of folds with metrics
  only (`PoolCounts`), so the hundred behind it are of whole folds.

### Calculations (`CalculationsProofs`)

The three invariants of the run `calculations`, for rows, books and rosters of any size. A question that stands
has the answer of its operator (`Answers`, inductive at once), so each theorem is a lemma per question.

* No induction theorem of the library can be instantiated, so induction is by the least counterexample: the first round, row or set
  for which a claim fails (`LeastNumber`, `SmallestSet`). That is how it is proved that the functions exist whose CHOOSE
  defines a recursive function or a fold (`FoldExists`, for any set of values and step), and a pass over rows is then a function
  of the number of rows read, with an invariant of that number.
* `CapitalIsFair`. `PinInv`: what is pinned high is above all the rest and what is pinned low below it, no two are pinned high,
  what settled is within bounds, what is free after the first round came within bounds, and a round that does not settle pins one
  more, so the rounds suffice. Order and least weight follow by what a weight comes to. `CapInv` does the same for the cap per symbol: what is pinned leaves a
  budget, of which its own share was too much.
* `ScreensAreSound`. `CursorInv`: the cursor stands behind the last point not after the bar. `TallyInv`: the trades that gate checks claimed so
  far are distinct and due. `SweepInv` relates the sweep to time: what is open between two events are the positions whose interval covers
  the time between them, and the spans added up so far are the instants passed (`Timeline` places opens and closes in the sorted events).
  `RanksAre` says where a value stands (its rank is counted, ties in the middle), and the bound on the correlation is `CauchySchwarz`, over deviations summed as integers.
* `ReportsAreSound`. `DrawInv`: the running peak is the highest value so far and the running drawdown the deepest fall so far.
  `LessGrows`: a book whose returns are each no larger stays below, rounding included, while it owns something.
  `RanksTurned`: turned upside down a series has the ranks counted from the other end, ties included, so that covariances change
  sign. `PicksInv`: while there is room each candidate so far is excluded or has its code taken, and before each pick
  everybody ahead of it was. `RegimesCausal`: the nearest bar and all that its classification reads lie in the prefix.

### Only model-checked

Liveness (fairness and ENABLED are out of the prover's reach): `EverySweepConcludes` and `RunningSettles`.
What the violated instances state is not proved because it does not hold.

## 5. What is not modelled

* Floating point and chance: p-values, bootstrap draws, Sharpe ratios, volatilities, HRP, covariance
  shrinkage, factor regressions, TPE proposals. Where a decision depends on them they are inputs that take every
  relevant value (`BootstrapDsr`, `LowerEnd`, `RawWeights`).
* In the tick: the analysis chooses among the verdict pairs (`Analysis` says which trades lead to which); the
  sync of the strategy registry and the paper are best effort after the writes that matter (the sync
  itself is in `Registries`); the Redis cache of the tick summary; the audit rows of null-screen draws, which
  `latest_unattached_for_queue` excludes (they are in `Gauntlet`).
* In the drain: the branches for WAIT and for unknown outcomes, which no answer of `run_tick` reaches.
* The baseline cache of the portfolio gate (24 h, also of a failed read). The idempotency replay of the certification endpoints, which is that of `Intake`.
* The sync of the strategy registry after a walk-forward: two overlapping walks may sync their verdicts out of order,
  as any two syncs in `Registries` may.
* The combination endpoint decides on residuals it read earlier, as `evaluate` does in `Books`; only its
  admission rule is modelled. `POST /pool/rebalance` fails with KeyError when a member is
  admitted between its two reads: `PlanRebalance` answers then and writes nothing.
* In `Registries`: `set_params` and `set_tags` of a run, which merge a JSON blob in one statement, the
  values of metrics, lists and the leaderboard; a signal definition's own insert.
* The agent playbook (a static document served as JSON and digests of other tables), papers and LaTeX (text from
  committed rows), journal, features, inference and monitors (single inserts, reads, proxies), read-only endpoints, HTTP
  plumbing, logging, operator scripts: no state of their own whose order matters.

## 6. Plan

1. Done: queue, tick, ledger, ML training, reviews and intake, the registries and their theorems; signal pool,
   house book and rebalance; walk-forward and the other certification requests; the drain; the calculations.
2. Done: the theorems of section 4.
3. Done: every invariant and every action property that a passing run checks is a theorem; liveness stays with TLC.
4. Left: the components listed as not modelled, if their state ever comes to matter (section 5).
