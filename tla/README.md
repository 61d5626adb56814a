# WilQuant: TLA+ models, model checking and proofs

This directory holds a formal model of the backend of WilQuant
(`src/backend/src/quant_lab`), a single-user research platform for daily-bar
trading on Chinese A-shares: it imports market data as immutable dataset
versions, runs backtests and paper-trading sessions on them, and asks an AI
provider for research analyses of the results.

The modules are TLA+ specifications checked with TLC on small instances; the
results that matter most are theorems whose proofs TLAPS checks for every value
of the constants. `PROJECT.json` lists the components, the runs, the theorems,
the hazards of the code with the properties that cover them, and for every
definition the source lines it models. Paths below are relative to
`src/backend/src/quant_lab` unless they say otherwise.

    tlc -workers 2 -config PaperSession.cfg PaperSessionMC      # a run
    tlapm PaperProofs.tla                                       # a proof

## 1. How the system executes

These facts shape every module.

- FastAPI endpoints are plain (not `async`) functions, so each request runs on
  a thread of a pool, and requests overlap freely. A single-user tool still has
  overlapping requests: double clicks, retries after a lost answer, two tabs.
- The two uploads (`POST /data-imports/inspect`, `POST /calendars/{id}/import`)
  are `async`: only the receipt of the bytes is awaited, and everything after
  it runs on the event loop, one upload at a time, though beside the threads.
- The AI provider host is a process of its own. It has the credentials and an
  in-memory replay cache; the backend, here called the Core, reaches it over
  HTTP with a token it reads from a file.
- There is one SQLite file (`db/sqlite.py`: WAL, foreign keys,
  `busy_timeout` 5 s). The driver emits no `BEGIN` before the first write, so
  an ordinary handler reads a row without any lock, checks it, and later
  writes with `UPDATE ... WHERE id = ?` that does not look at the row again.
  The ORM leaves out columns whose value equals what was read.
- A few operations open `BEGIN IMMEDIATE` first and are atomic: the paper
  advance, `claim_publication`, and the AI claim, checkpoint, cancel, reserve
  and finalize operations.
- Directories are published by `os.replace`; SQLite and the file system are
  not one transaction.
- On start-up, recovery of publications and AI analyses runs before the first
  request is served (`main.py`).

Hence the modelling rule of this project: an operation inside
`BEGIN IMMEDIATE` is one action; any other handler is a *read* action that
stores what it saw in `call[thread]` and a *write* action that uses it; a file
operation is an action of its own; a crash empties `call` and leaves rows and
directories as they are.

## 2. Inventory

| Component | State it keeps | Operations | What is hard | What makes it correct |
|---|---|---|---|---|
| Paper session replay (`paper/service.py`, `repository.py`, `state.py`, `api/paper.py`) | session status, version, current day; one row per advance key; intents, orders, fills; snapshots | create, start, pause, resume, stop, advance, manual intent, cancel order, mark failed | read-check-write handlers overlapping the atomic advance; retries with an idempotency key; failure recorded in a second transaction; freeze in mid-transaction | days replayed one by one, once; a key advances at most one day; no look-ahead; no missed execution; terminal states final |
| Paper account, positions, cash (`paper/service.py`, `execution/`, `backtest/rules.py`) | cash, FIFO lots, positions, realized result, fills, ledger, snapshots | apply fill, mark to market, snapshot | three tables written from separate computations; lots shared by sessions that replay different days of different calendars; rollback | conservation, holdings = bought - sold, T+1, FIFO; daily results add up |
| Risk engine and policies (`paper/risk*.py`, `policy_service.py`) | policies and their versions, account frozen or not, evaluations | evaluate, freeze, unfreeze, create and patch a policy | decisions on state that earlier intents of the close do not change; a previous equity marked by another session; policies written in two transactions | a loss beyond a limit stops the session; a frozen account submits nothing; a purchase leaves the cash buffer, but for its own slippage and fees |
| Dataset publication and recovery (`datasets/publication.py`, `recovery.py`, `repository.py`, `persistence.py`) | version and batch rows; staging and final directories | claim, write parts, rename, mark, finalize, fail, recover | two stores; crash between any two steps; two requests for one batch; retry after failure | rows never run ahead of files; append-only, gapless catalog; recovery settles everything |
| Dataset queries (`datasets/query.py`) | none (reads Parquet) | query bars, at most 1000 rows | a limit that silently cuts the newest bars; a file damaged after publication | answers exactly, from published and intact versions |
| Import batches and quality (`market_data/staging.py`, `service.py`, `repository.py`, `normalization.py`, `validation.py`, `processing.py`, `eligibility.py`, `api/data_imports.py`) | staged file, batch row, quality issues | upload, inspect, preview, answer, publish | a preview recomputed, or the file edited, while the batch is claimed; rows judged against the row before only | what is published is the preview that was shown, and passed the gate; the gate is exact |
| Calendars and profiles (`market_data/calendar_*.py`, `profile_*.py`, `consumption.py`) | calendar versions; a profile's binding to data and calendar | create, import, bind, rebind, health, coverage, snapshot | overlapping rebindings that write only the columns they changed; a table that another calendar has already | versions are gapless and never stored twice; a binding names what is published; coverage is exact |
| AI analysis orchestration (`ai/analysis_*.py`, `provider_execution.py`, `provider_budget.py`) | create keys and their frozen context, analysis run, epochs, attempts, provider bindings, budget | create, claim, run stages, checkpoint, cancel, recover, reserve, finalize | sources that change while they are observed; lost provider answers, cancel while a call is out, restart, retry of unknown results | sources are observed once and show nothing after the cutoff; a lost call is repeated on confirmation only; no answer is bought twice; the budget bounds the bill |
| AI provenance and validation (`ai/validation.py`, `retrieval.py`, `source_resolvers.py`, `packs.py`, `cases.py`, `gates.py`) | append-only records | resolve, freeze, retrieve, judge an answer | a chain of checks that stops at the first finding; malformed answers; a model that changes its word when asked again | an accepted claim is supported by the pack; an answer the check can see to be unsafe is the last |
| AI provider host (`ai_provider_host/`, `ai_provider_protocol/`, `ai_provider_client.py`) | token file, replay cache, running calls | start, accept a signed request, call the provider, stop | cache at capacity, expiry against clock skew, requests that are delayed, repeated or outlive their host | a request is executed once; an outcome the Core takes for known is over |
| Backtests (`backtest/`, `execution/kernel.py`) | run row, artifact rows, staging and result directories; in a run, cash, lots and pending intents | create, run day by day, store | two requests with one fingerprint share the run; a profile read again after its snapshot; crash between files, rows and status; lots across many sales | rows describe files; a finished run is whole and keeps its result; the data are those of the snapshot; no more is sold than was bought |
| Research, reports, journal (`research/`, `api/experiments.py`) | experiments, links to runs, journal entries | link, change role, compare, export, append | runs that end, and links that change, while a comparison is read | a ranking compares like with like |
| Platform (`db/`, `core/`, `health/`, `main.py`, front end, scripts, migrations) | none of its own | start-up | see section 1 | - |

Interactions: the paper advance reads bars of a *published* dataset version,
open days of a calendar version and the account's active risk policy, runs the
strategy and the same execution kernel (`execution/kernel.py`) that the backtest
engine uses, and writes session, account and orders in one transaction.
Publication takes a previewed import batch. Sessions and backtests freeze the
binding of a profile when they are created. AI analyses read frozen copies of
backtest, paper, research and dataset records and talk to the provider host over
HTTP. The components share state only through the database and the published
directories.

## 3. The modules

| Module | Models | Kind |
|---|---|---|
| `ReplayClock` | what the advance endpoint promises: a clock and idempotency keys | abstract specification |
| `PaperSession` | one paper session under concurrent requests | detailed specification, implements `ReplayClock` |
| `PaperSessionMC` | symmetry set for TLC | model-checking module |
| `PaperAccount`, `PaperAccountMC` | cash, lots, realized result of one account under several sessions | specification, instance |
| `PaperProofs` | theorems about `PaperSession` and `PaperAccount` | proofs |
| `PaperRisk`, `PaperRiskMC` | policies, the risk decisions of a close, marks and the freeze, two sessions on one account | specification, instance |
| `PaperRiskProofs` | theorems about `PaperRisk` | proofs |
| `VersionCatalog` | what publication promises readers of a dataset | abstract specification |
| `DatasetPublication`, `DatasetPublicationMC` | publication and start-up recovery | detailed specification, implements `VersionCatalog`; instance |
| `QualityRules` | the rules that judge a market data file row by row | operators |
| `ImportBatch`, `ImportBatchMC` | import batches from upload to publication; the instance also evaluates `QualityRules` | specification, instance |
| `ImportBatchProofs` | theorems about `ImportBatch` and `QualityRules` | proofs |
| `MarketProfile`, `MarketProfileMC` | calendars, profiles, coverage, and the sessions that freeze a binding | specification, instance |
| `DatasetProofs` | theorems about `DatasetPublication` and `MarketProfile` | proofs |
| `ResearchExperiment` | backtest runs, their links to an experiment, the comparison | the world `AiEvidence` extends |
| `AiEvidence`, `AiEvidenceMC` | the creation of an analysis: create key, observation, pack, gate | specification, instance |
| `AiAnalysis` | one two-stage AI analysis: executions, attempts, provider calls, cancellation, restart | specification |
| `AiValidation`, `AiValidationMC` | the judgement of a model's answers in both stages | specification, instance |
| `AiResearchProofs` | theorems about `AiEvidence` (with its world) and `AiValidation` | proofs |
| `ProviderHost`, `ProviderHostMC` | host processes, token file, replay cache, and what the Core learns of a call | specification, instance |
| `AiAnalysisProofs` | theorems about `AiAnalysis` and `ProviderHost` | proofs |
| `BacktestRun` | the life of backtest runs over a profile that can be rebound | specification |
| `BacktestRunProofs` | theorems about `BacktestRun` | proofs |
| `BacktestEngine` | the daily loop of a backtest, its strategies and the execution kernel | specification |
| `RecursionLemmas` | sums over finite sets, recursive functions of `0 .. N` | lemmas the proofs share |

How they meet: `PaperSession`, `PaperAccount` and `PaperRisk` are three views of
one advance (its control, its lots, its decisions); each leaves to the others
what it takes as a choice. `ImportBatch` ends where `DatasetPublication` begins,
at the claim; its instance takes which previews are clean from `QualityRules`.
`AiEvidence` extends `ResearchExperiment`, whose records it observes while they
change, and ends where `AiAnalysis` begins, with a run and its gate;
`AiAnalysis` takes the judgement of `AiValidation` and the outcome of
`ProviderHost` as choices.

In several modules a definition is preceded by a similarly named one
(`MayApproveFrozen` before `MayApprove`): a plausible bug in the same place.
No action uses it; `PROJECT.json` ("mutants") pairs it with the property that
fails when it takes the place of the real definition, which shows that the
property does depend on that piece of code.

### PaperSession

State: `status`, `version`, `date` are the session row; `advStatus[k]`,
`advDay[k]` the advance row of idempotency key `k`; `snapshots` the days with an
account snapshot; `orders[i]` the joint stage of intent `i` and of its order
(they are created and decided together), `signal`, `exec`, `submitted` its days;
`fills` the fills; `frozen` the account; `call[c]` what the request of client
`c` has read.

| Action | Code |
|---|---|
| `LifecycleRead`, `LifecycleWrite` | `_lifecycle`: start, pause, resume, stop |
| `AdvanceRead` | target day selection, before the transaction |
| `AdvanceCommit` (with `Close`) | the whole `BEGIN IMMEDIATE` transaction: idempotency, status, version and date checks, `_execute_pending`, `_mark_to_market`, `_close_phase` with the strategy's intents, risk decisions, loss-limit freeze, `_cancel_pending_orders`, snapshot, session row, advance row |
| `AdvanceRefuse` | an answered or refused advance that writes nothing |
| `AdvanceFatal`, `MarkFailedRead`, `MarkFailedWrite` | rollback, then `_mark_failed` in a database session of its own |
| `IntentRead`, `IntentInsert` | `create_manual_intent` |
| `CancelRead`, `CancelWrite` | `cancel_order` |
| `SetFrozen` | `freeze_account`, `unfreeze_account`, or a close of another session of the account |
| `Abandon`, `Crash` | lock timeout or unique-key error; death of the process |

Data are abstracted to choices: what a due order gets at the open
(filled, partly filled, rejected, expired), which intents the strategy adds,
which intents the risk engine approves (bounded by `MayApprove`: nothing while
frozen or after a breach, and no more than `max_open_orders`), whether a loss
limit is hit. A policy may be patched between two closes, so the limit of open
orders is any of `OpenOrderLimits` at each; orders that an earlier limit admitted
stay (`SlotsFor`). Every number behind those choices is left to `PaperAccount` and
`PaperRisk`.

### PaperAccount

State: `day[s]` of each session, `cash`, `lots`, `realized`, totals over the
`fills`, and `tx`, the open advance transaction with the values a rollback
restores. `BeginAdvance`, `ExecuteBuy`, `ExecuteSell`, `Commit`, `Abort` are the
steps of an advance as the account sees it. `Taken` is
`plan_sell_lot_consumption`, `CostBasis` the cost of what was consumed,
`SellableFrom` the next open day of the calendar the session froze (and the same
day on its last one, as the code has it). Each session has a calendar of its own
(`OpenDays`) and days of it to replay (`ReplayDays`). So a lot may be "acquired"
on a day another session has not reached, and a lot acquired later may be
sellable earlier.

### DatasetPublication

State: `batch[b]`, `status[b]`, `number[b]` are the batch row and its version
row; `staging[b]`, `final[b]` its two directories (present or not, and which
files are in them); `call[c]` the step a request takes next; `recover` the
versions start-up recovery has still to visit. `Claim` is `claim_publication`;
`ClearStaging`, `MakeStaging`, `WriteItem`, `MarkCommitting`, `Rename`,
`MarkCommitted`, `FinalizeRead`, `FinalizeWrite` are the steps of `publish` in
order, each of which may fail (`Error`) and lead to `MarkFailedRead`,
`MarkFailedWrite` (`mark_publication_failed`). The SQL triggers that protect a
published version are part of the actions: an update of a published row aborts
and rolls its transaction back. `shared` is a history that no action reads: the
batches that two requests have worked on at once. `Recover` is one version of
`PublicationRecoveryService.recover`; `Claim` waits until recovery is over,
since the application serves no request before.

### AiAnalysis

One analysis run from its creation on. State: `status`, `active`
(`active_epoch_id`), `unknown` (`provider_result_unknown`), `accepted` (which
attempt `diagnosis_json` and `recommendation_json` come from), `gate` and
`preflight` are the run's rows; `epochs[k]` the execution epoch of idempotency
key `k`; `attempts[i]` the i-th attempt with its provider binding, the most it
can have cost and its validation result; `call[c]` the step the execution on
thread `c` takes next. `lost` only remembers that the active epoch's thread
ended by an error nothing handles.

| Action | Code |
|---|---|
| `Claim` | `AnalysisRepository.claim` |
| `Start`, `Refuse`, `Gate` | `TwoStageResearchExecution.run`: preflight gate, diagnosis, gate between the stages |
| `Enter`, `Revalidate`, `GiveUp` | `_stage`: what an earlier epoch left of the stage, the retry loop |
| `NewAttempt` | `_new_attempt`: ownership and budget, the STARTED row |
| `Reserve`, `Send`, `Finalize` | `AIProviderExecutionService._reserve`, `execute`, `_finalize`: the binding is committed before the call, the answer after it |
| `Validate`, `Accept` | the recorded validation result, then the checkpoint that accepts it |
| `Release` | the checkpoint after a lost call, which hands the run back |
| `Stop`, `Fail` | `_stop`, and the `OSError` and `ValueError` handlers of `run` |
| `Die` | any other error: nothing releases the epoch |
| `Cancel`, `Restart` | `AnalysisRepository.cancel`; death of the process, then `recover` |

Choices stand for what the answer is (completed, failed, lost), what it costs,
what validation finds (accepted, worth a retry, final), what the gate decides
and where an artifact or a fingerprint turns out to be broken. The model assumes
that the budget is priced (otherwise no cost limit can be set) and that a call
costs no more than its reservation, which is the price of the whole input and
output allowance. It also assumes that the analysis component is enabled at the
restart: `main.py` leaves analyses alone without its local access token, and
then no request can reach them. `progress`, `outcome` and the trace rows only
report and are left out, except that a validation result and an attempt's
outcome are what a resumed run reads.

### BacktestRun

State: `profile`, the binding of the market data profile; `run[r]`, `rows[r]`
the row and the artifact rows of the run that froze binding `r`; `staging[r]`,
`final[r]` its directories; `call[c]` the step of each `create_run`.

| Action | Code |
|---|---|
| `Snapshot`, `ClaimRead`, `ClaimInsert` | the snapshot and its fingerprint, `claim` |
| `RunningRead`, `RunningWrite` and the `Succeeded`, `Failed` pairs | `_transition`, a read and an update by id, against the trigger on SUCCEEDED rows |
| `LoadBars`, `LoadCalendar` | the two later reads of the profile; the engine, a function of both, is part of the second |
| `Look`, `MakeStaging`, `WriteFiles`, `Move` | `BacktestArtifactWriter.write` |
| `AddArtifacts` | `add_artifacts`, against the unique keys |
| `Error`, `Abandon`, `Crash` | an error inside the `try` of `create_run`, one outside it, death of the process |
| `Rebind` | `PATCH /profiles/{profile_id}` |

A result is named by the bindings its bars and its calendar were read under.
The five data artifacts are inserted together and stand as one `DATA` row;
`MANIFEST` is apart, since a request that finds the directory in place records
what the manifest lists, which is everything but itself. Preconditions that
refuse a request before it claims (strategy, dates, health of the profile)
change nothing and are left out.

### PaperRisk

State: `policies`, the versions of each policy of one account; `call[c]` the
policy request of client `c`; `day`, `intents`, `orders` of each session;
`cash`, `held`, `equity`, `frozen` the account with one position; `snapshots`
its marks in the order they are made.

| Action | Code |
|---|---|
| `PolicyCheck`, `PolicyInsert`, `VersionInsert`, `Crash` | `create_policy`: a look, a transaction for the policy and another for its first version, between which the process may die |
| `PatchRead`, `VersionInsert` | `patch_version`: the latest version, changed and inserted |
| `Advance` (with `Executed`, `Marked`, `Close`, `Judge`, `Refused`, `Freezes`) | an advance: the due orders, `_mark_to_market` against the latest snapshot of *any* session, `_close_phase` with `RiskEngine.evaluate` for each intent and the freeze |
| `Submit`, `SetFrozen` | intents, manual freeze and unfreeze |

An advance is one step, as it holds the write lock. One instrument is enough for
what the risk engine compares: worth, cash, exposure, loss, drawdown. Each
session reads prices of its own version of the data, in which days may have no
bar: then `Opening` is 0 and nothing executes, and `Closing` is the last valid
close, 0 before there is one, and an intent at a price or a worth of 0 is
refused as RISK_CONTEXT_INVALID. A mark falls back on the average cost, which is
a choice (`Costs`), since lots are in `PaperAccount`. A fill slips by a
percentage, rounded to the tick against the account, and pays commission and
taxes, at least `LeastFee`; what an intent is estimated to cost has neither, as
in the code. Limit prices of manual intents, which only lower that estimate, are
left out. `Executed` and `Close` are recursive functions of the orders and of
the intents of one day. What the lots do is in `PaperAccount`, what a session
does in `PaperSession`.

### QualityRules and ImportBatch

`QualityRules` has no state: a file is a sequence of rows, and `Processed` takes
what `validate_bars` remembers (the instruments and days met, the latest day and
close of each symbol) through it, `After` each row. `HasInstrument`, `Readable`
are `normalization.py`, `Says` the findings of one row, `Counted`
`processing.py`, `Gate` `eligibility.py`. `IsSeries` and `IsUnremarkable` say,
without going row by row, what file the gate is meant to let pass.

`ImportBatch` has the staged `file`, the row `batch`, the preview whose
`issues` are stored, the `versions` claimed, and `call[c]`.

| Action | Code |
|---|---|
| `Stage`, `Inspect`, `Insert`, `Refresh` | `POST /data-imports/inspect`: stage, inspect and look for the hash, insert, read back. What follows the bytes runs on the event loop (`LoopIsFree`) |
| `PreviewRead`, `PreviewProcess`, `PreviewComplete` | `POST /data-imports/preview`: the mapping, the file, the guarded update with its issues |
| `Show`, `RespondBatch`, `RespondIssues`, `Answer` | the answer of a batch, read in two transactions |
| `PublishRead`, `PublishCheck`, `PublishRecompute`, `Claim`, `Publish` | `POST /data-imports/{id}/publish`: the row, the hash of the file, the preview computed again, the claim under the write lock, and the rows that are written (`DatasetPublication` has the steps of this last one) |
| `Edit`, `Crash` | the staged file changes behind the service; death of the process |

A preview is a function of content and mapping and is named by the pair; so are
its counts, its issues and its fingerprint. All contents have one size.

### MarketProfile

State: `zone`, `tables` the calendars and their versions, `orphans` uploads that
were left behind, `published` and `damaged` dataset versions, `profile` the
binding of one profile, `request[c]` what a request has read.

| Action | Code |
|---|---|
| `CreateCalendar`, `Import` | calendar creation; the import of a file, which runs on the event loop as a whole |
| `PublishVersion`, `Damage` | a version is published (`DatasetPublication`); one of its files is lost or altered |
| `CreateProfile`, `UpdateRead`, `UpdateWrite` | `MarketDataProfileService.create` and `update`; the ORM writes the columns that differ from what was read (`Dirty`) |
| `SessionRead`, `SessionFreeze`, `SessionRespond` | `create_session`: the dataset, then the snapshot of the profile |

`Health` and `Coverage` are what `consumption.py` answers; both take the limit
of a page into account.

### ResearchExperiment and AiEvidence

`ResearchExperiment` is the world an analysis reads: backtest runs that end and
are taken up again, with artifact rows that are written before the status says so
(`AddArtifacts`), a paper session that changes, an experiment with links to
runs, and `Comparability` and `RankingAllowed` of `comparability.py` over it. Time
is the number of changes. The limit of linked runs and the lock of an active
experiment are read in a transaction before the write, so a slow request may
write at any time; the writes have no guard.

`AiEvidence` extends it with the create call. State: `freeze[k]` the row of
create key `k`, `analysis[k]`, `cases`, `packs`, `documents`, `call[c]`; the
times of the world (`now`, `run`, `experiment`, `links`, `session`) are those of
`ResearchExperiment`.

| Action | Code |
|---|---|
| `Begin`, `Claim`, `Refused` | `create`, the claim of the key; a request that finds the key taken and waits in vain is `Refused` too |
| `LookAtSession`, `LookAtRow`, `LookAtArtifacts`, `LookAtLinks`, `LookAtLinkedRuns` | one source after the other; the row of a run and its artifacts are read in two transactions, and so are the links of an experiment and the runs they lead to |
| `Persist`, `Cut` | the rows stored under the key; cutoff, exclusions and the case |
| `Reread`, `Recall`, `Document` | retrieval of earlier cases that have a document, whose sources are read again |
| `Attach`, `Fail`, `Crash` | pack, gate and run in one transaction; any error; restart, which fails the keys left observing |

`since` and `files` (when the rows and the artifacts that were seen had been
written), `relinked` and `claims` are not in the code: they are what the properties
compare with. Of the runs that a recalled case names, all rows are read again at
one instant and all artifacts at a later one. Any error of a build is
`Fail`; limits of lists are left out.

### AiValidation

`Judge` records one answer of the model: `Codes` is the chain of checks in
`validation.py` (safety, form, claims one by one, agreement with earlier
answers), `Goes` the decision of `_stage` to accept, ask again or end,
`WordsOf` what is kept of the answer for the comparison with later ones. An
error that nothing catches (a number compared with NaN, a float that has no
canonical form) kills the execution (`KILLED`, `Breaks`, `Fails`).

Numbers are whole. `Tolerance` is absolute for money and counts (`Flat`), and
for ratios and numbers one part in `Part` of the right side, if that is more. A
text may read as a number (`Recast`), as an infinity or as no number
(`NotFinite`), or as a time with its zone (`Instant`), and DATETIME evidence is
ordered by it. What is `veiled` in an answer is not the list of texts it should
be: the safety check passes over it. Booleans, lists and the literals Infinity
and NaN are left out. `SaidOf` and `LastSaid` are what earlier answers said in a
claim's group, which is what the code compares the claim with. Freshness and
`TEMPORAL_LEAK` are left out: a pack has nothing later than its cutoff
(`NoHindsight` of `AiEvidence`), and the preflight stops requests for more than
historical data.

### ProviderHost

State: `process[h]` and the token `file`; `entries` the replay cache; `running`
calls and `executions`; for each request its `stamp`, the `token` it was sent
with, whether it got past the claim, and what the Core knows (`known`).

| Action | Code |
|---|---|
| `CreateToken`, `Serve`, `StopHost`, `Close`, `KillHost`, `RemoveFile` | `HostTokenFile`, `__main__.py`: exclusive creation, port, removal of the own file only; the user removes what a dead process left |
| `Probe`, `Arrive`, `ArriveAgain` | `ReplayCache.claim` for health requests, for a request of the Core and for the same request once more |
| `Build`, `SendRequest`, `NotConnected`, `StopReading`, `Finish` | `ai_provider_client.py` and the provider's answer |

Time moves in steps (`Tick`), and the sender's clock may be off by `Drift`. The
signature is taken to be unforgeable.

### BacktestEngine

State: `day`, `cash`, `lots`, `pending` intents, `closes`, `fills`. `Session` is
one session of the loop in `BacktestEngine.run`: the bars of the day (TLC
chooses them), the intents of the close before executed at the open
(`Executed` with `Execution` of `execution/kernel.py`, `SellableOf` and the
price limits of `rules.py`, `FillPrice`, `Fee`), the valuation, and at the close
`BuyAndHold` or `Rotation` of `strategies.py`. The tick is 1, and money is
counted in fractions `1/Unit` of it, so that fees are exact. A lot is appended
by a purchase and, as in the code, no sale reduces one.

## 4. Runs

| Run | Instance | Checks |
|---|---|---|
| `paper_session` | 2 clients, 3 advance keys, 1 manual and 1 strategy intent, 3 days, open-order limits 1 and 2, versions to 4; symmetry in clients and keys | each day is advanced by one key, orders are executed on their day, a freeze cancels, and a session implements `ReplayClock` |
| `paper_account` | 2 sessions with calendars {1, 3, 4} and {1, 2, 3}, 3 lot ids, prices 1-2, fee 1, orders up to 2 lots, 4 fills | conservation of cash and holdings, FIFO and what is left of T+1 lot by lot |
| `paper_risk` | 2 sessions of one account that start two days apart, one without bars before day 4; 1 policy client, 4 days with a loss, 2 versions, 2 waiting intents a session, slippage 1 %, fees 10 and 20 %, at least 1 | a loss stops trading, results add up over the sessions, the cash buffer |
| `publication` | 2 publishers, 2 batches, of which both may work on one, the manifest for all files, 2 crashes, `Fairness` | rows follow files, recovery, liveness, refinement of `VersionCatalog` |
| `import_batch` | 2 clients, 2 uploads, 3 contents, 3 mappings, 2 datasets; files of up to 4 rows of 19 kinds; symmetry in clients | what is published is what was previewed, confirmed and admitted; the quality gate is exact |
| `market_profile` | 2 clients, 2 calendars, 4 calendar files, at most 2 calendar versions, 3 dataset versions of 2 datasets, 2 rows a page; symmetry in clients and calendars | imports are sound, bindings name what is published, coverage is exact |
| `ai_evidence` | 2 clients, 1 create key, 2 runs, 3 requests, 2 changes of the world, 1 restart; symmetry in clients | no hindsight, one observation per key, nothing present is lost, gates pass on comparable runs only |
| `ai_analysis` | 2 request threads, 3 idempotency keys, 3 calls of cost up to 1 in a budget of 2, 1 restart, `FairSpec` | a lost call is repeated on confirmation only, an answer is bought once, the bill stays in the budget, stage order, one executor, termination |
| `ai_validation` | 7 items of evidence, relative tolerance 1/10, 16 answers to the diagnosis and 58 to the recommendation, up to 3 answers a stage | accepted answers are supported, unsafe ones final, retries keep their word |
| `provider_host` | 2 host processes, 2 requests, 1 probe, a cache of 2, skew and drift 1, time to 3; symmetry in requests and hosts | one execution per request, known outcomes are over, the token of a serving host is on file |
| `backtest_run` | 2 requests for 1 run, 2 bindings of the profile | files, artifact rows and status of a run agree |
| `backtest_oversold` | 2 instruments, 6 sessions, prices 2-3, rotation every session with lookback 1 and one instrument held | a counterexample: the engine sells more than was bought (section 7) |

What the properties of the passing runs say:

- `AdvanceLedger`: each processed day belongs to exactly one key, and no key to
  two days, also when `_mark_failed` overwrites a completed row.
  `ReplaysAsClock`: days are processed one after the other. The target day is
  selected outside the transaction and a lost update of a concurrent start or
  pause can take `version` *back*, so the optimistic version check alone does
  not give this; the unique key of the snapshots does.
- `FillsFollowSubmission`: a fill is on the order's execution day, strictly
  after the close that submitted it, which is not before the day whose data it
  used. It holds although a cancellation may overwrite a filled order.
- `NoMissedExecution`: no advance passes the execution day of an order that was
  submitted in time and leaves it pending.
- `RiskFreezeCancelsPending`: a freeze in the middle of a close leaves nothing
  pending in the session.
- `Conservation`: cash, cost of the open lots and realized result add up to what
  the fills moved, and holdings to what they bought and sold.
  `SalesRespectLots`: T+1 is enforced on a *sum* over sellable lots while
  consumption walks *all* lots. The oldest-first order alone keeps a sale off lots
  of a later day, whatever days the sessions have reached, and off those of its own
  day unless it is the last of a calendar. That a lot is not sold before its own
  date is more than that, and false with two calendars (section 7).
- `LossStopsTrading`: a session ahead of the others of its account that is marked
  beyond a limit of loss or drawdown has no order left, though intents of the same
  close were approved before, and freezes the account if that is worth something
  and the session knows a close: without one, risk control refuses before it looks
  at the loss. `ResultsAddUp`: daily
  results sum to the change of equity, whichever session made each mark.
  `LoneBuyKeepsBuffer`: a purchase approved at one close and executed at the
  next leaves the cash buffer but for its slippage and its fees, if no other order
  executes with it and the price does not rise. Each of the
  three names in its premise what the code does not promise.
- `RowsFollowFiles`: a version recorded as committed or published has every
  part and its manifest in the published root. `RecoveryLeavesOnlyMoved`: after
  recovery every version is settled or has all its files in place. Both are about
  the batches that no two requests have worked on at once, whatever is done for
  other batches meanwhile; of the others both are false (section 7).
  `CommittedSettles` (liveness): committed files are eventually published or
  failed, also when recovery is itself interrupted. `PublishesToCatalog`:
  version numbers are gapless and nothing published is withdrawn or renumbered.
- `NoSilentRetry`: once a call was lost, by an answer that never came, a
  cancellation, a restart or an error, every later attempt belongs to an
  epoch with which the user confirmed the risk. It relies on recovery looking
  at ABANDONED attempts too, since the flag is set after the attempt.
- `NoAnswerBoughtTwice`: a stage calls again only after a lost call or an
  answer that validation found worth a retry, also when the process died between
  the call, its validation and its acceptance.
- `BilledWithinBudget`: what the provider can have charged, for calls that are
  out, lost, failed, cancelled or settled, stays within `max_estimated_cost`.
- `StagesInOrder`, `EndedReservesNothing`: no second stage without an accepted
  diagnosis and a gate that let it pass; the thread of a run that has ended
  reserves no other call and has nothing accepted. The call it had reserved before
  may still be sent (section 7).
- `OneExecutor`: one thread at a time executes a run.
- `ExecutionEnds` (liveness): every execution returns, though a stage goes round.
- `RowsDescribeFiles`: the artifact rows of a run are those of the files in its
  directory, although one request may write the files and another record them,
  each with data of its own. `SucceededIsWhole`: files, rows and status change
  in three steps, and a run is SUCCEEDED only after the first two.
- `GateIsExact`: rows are compared with the row before only, rejected ones
  included; still a file passes exactly when it is a series of bars, and passes
  without confirmation exactly when nothing in it is remarkable.
- `PublishedAsPreviewed`: from its claim on a batch keeps the preview its version
  names, in its row, its issues and its published rows, though the file may be
  edited and previews be computed at any time. `PublishedIsConfirmed`: no
  version has a blocked preview, nor one with warnings that nobody confirmed.
  `ShownEligibilityIsSafe`: an answer whose row and issues are of two previews
  never shows as eligible what has issues.
- `ImportsAreSound`: calendar versions are gapless, never stored twice and
  usable; an upload is left behind only when another calendar has its table.
  `BoundToPublished`: every binding, of the profile and of sessions created
  meanwhile, names a published dataset version and an existing calendar
  version, though updates write single columns. `CoverageIsExact`: for one
  instrument and a range within the page limit, the missing and the outside days
  are the true ones, and health agrees with coverage.
- `NoHindsight`: nothing a pack says of what has ended was written after its
  cutoff, though runs end and links change between the reads, and though the row of
  a run and its artifacts are read apart. The artifacts of a run that failed are
  excepted (section 7). `PresentIsKnown`: an analysis of the
  present does not lose what it just observed to a cutoff taken too early.
  `ObservedOnce`: one request observes for a create key, and what it stored is
  what the analysis has, through failures, restarts and races.
  `ProceedsOnComparable`: an experiment review proceeds only on runs that ended
  well under the same environment and terms.
- `AcceptedIsSupported`: an accepted fact or derived number is true of the pack
  and rests on nothing the user wrote; `UnsafeIsFinal`: an answer that invents
  evidence in a list of references, asks for a forbidden action or answers something
  else ends the analysis, also when its claims do not fit the schema;
  `RetryKeepsWord`: what was said stands in every later accepted answer, up to the
  tolerance of its type at each answer between them (for a ratio or a number an
  infinity is within any tolerance).
- `ExecutedOnce`: however often a request arrives, late, early or after its host
  was replaced, the provider gets it once. `KnownMeansOver`: a call the Core
  takes for settled is not running any more. `ServedTokenIsOnFile`: two hosts
  that start together do not lock the Core out of the one that serves.

**Bounds.** Two clients are enough for every read-check-write overlap, since
each overlap is between one request that has read and one that writes; three
keys allow a success, a failure and a retry. Three days hold one signal, one
execution and one day after. Limits of one and two slots let a patch lower the
limit below what is pending. `MaxVersion` only stops new requests on old
sessions; the theorems of section 5 hold for any bound. Two fees or three prices
add nothing to sums that are linear in them; three lots are the fewest for which
"oldest first" differs from "sellable first" and "by id". Three epochs of an
analysis are one that starts it, one that resumes and one that retries; three
calls let one stage repeat and the other still begin; a budget of two calls of
cost one is reached by cheap calls as well as by dear ones. Two crashes let
recovery itself be interrupted; two batches let numbers collide.
`DatasetPublicationMC` bounds its run: both publishers work on one of the batches
and only the first on the other, so that runs in which both batches are contested
are left to the theorems; the last crash interrupts a recovery, with which the
run ends. With the manifest for all files a directory that is not
complete is an empty one; the theorems are about any parts and publishers.
Backtest runs share nothing but the profile, so one is enough; the second
binding makes the results of two requests for it differ.

Two sessions of an account, one a day ahead, are what makes the latest snapshot
another's; four days hold a small loss, a large one, and a day on which the second
session has its first bar. Two calendars that close on different days are the fewest
that disagree on when a lot can be sold. Two uploads can
have one content, and three contents one that was edited and one that no
provider reads. A row is judged against the row before, so four rows show a
rejected row between two others of its symbol. Two calendars and two versions
are what one table can be taken from and a binding be mixed from; a page of two
rows is one less than the days there are. One create key is enough, as keys
share nothing; two changes of the world fall before, between or after the two
reads of a comparison. Three answers a stage are the limit of the code. Two
requests and a probe are one identity more than the cache holds; time to 3 lets
an entry with the shortest lifetime expire while its request is still timely.
Horizons and counts of versions, intents and tables bound the state space only:
no guard of the code stands for them.

**Deadlock** is checked where the system goes on: in `paper_session`,
`publication` and `backtest_run`. The other worlds really end: the
calendar of `PaperAccount`, `PaperRisk` and `BacktestEngine` has a last day, an
analysis that has ended accepts nothing more (`AiAnalysis`, `AiValidation`), and
in `ImportBatch`, `MarketProfile`, `AiEvidence` and `ProviderHost` all uploads,
calendars, changes, keys or host processes may be used up.

**Symmetry** is used in runs without liveness only, over clients, keys,
calendars, requests and hosts, which nothing in their module orders or chooses
between.

**Fairness.** `DatasetPublication` states weak fairness of each request's next
step and of recovery's next step, `AiAnalysis` of each execution's next step.
All are straight-line code without waiting on another request (the provider
call has a timeout, after which its answer is lost); `Error`, `Fail` and `Die`
are among the steps, so fairness does not promise success, only that the thread
goes on. Crashes are
bounded by `MaxCrashes`: with crashes forever nothing need ever finish. No
fairness is assumed of paper sessions: only the user advances them.

## 5. Theorems

All are for every set of clients, keys, batches, parts, lots, files and answers,
any number of days and rows, and every bound; the assumptions on the constants
are the named ones of each module (`SessionAssumption`, `AccountAssumption` and
so on), which TLC evaluates in the runs. Every invariant and action property of
the passing runs is the statement of a theorem, but for the two on liveness.

**Recursion** (`RecursionLemmas`). The installed provers cannot instantiate an
induction principle that takes a predicate as its parameter, so the proofs use
the equivalent facts about sets, for which the library has them.

- *Induction* over naturals (`Induction`) and over the subsets of a finite set
  (`SmallestSubset`) is by a least counterexample: the set of those for which a
  claim is false has, if it is not empty, a member with none below it in a
  well-founded order.
- A sum over a finite set takes elements off in an order that is not known.
  `SumAdd`, `SumRemove`, `SumMinus`, `SumPart` and `SumLess` follow from
  `AddsUpExists` and `AddsUpUnique`: there is such a function, and any two agree.
- A function of `0 .. N` that is defined by the value before exists
  (`RecursionExists`): a longest one that keeps the rule ends at `N`, as it
  could be extended by one otherwise. This is what `Executed`, `Close`,
  `Processed` and the sums over sequences rest on, for each of which a lemma
  states the values.

### `PaperProofs`

About `PaperSession` it proves that `SessionInv` is inductive:

    SessionInv == TypeOK /\ Bookkeeping /\ ReplayProgress /\ AdvanceLedger
                    /\ FillsFollowSubmission /\ NoMissedExecution /\ OpenOrderBound

`Bookkeeping` is the strengthening: a request never knows a later day than the
session's (so a target day is at most the next one, and the unique snapshot
key, with `ReplayProgress`, makes it exactly the next one); an unused key has
advanced no day; no intent is based on a day still to come. From it follow
`TypeCorrect`, `ReplayIsContiguous`, `KeysAdvanceOnce`, `NoLookAhead`,
`NoOrderMissed`, `OpenOrdersBounded`, the action properties
`FrozenAccountIsQuiet` and `FreezeCancels`, and `SessionImplementsClock`: every
step of a session is a step of `ReplayClock` or a stutter. The assumption is
`SessionAssumption` (naturals, and a finite set of intents, for the count of
open orders).

About `PaperAccount` it proves `AccountInv`: the book, and the book that a
rollback would restore, balance. Money is conserved because the cost of the open
lots changes by what a purchase adds or `CostBasis` takes; `Taken` takes exactly
what is filled, since the quantities it walks through are sums over the lots
before each lot (`Before`) and a sale is checked against their total:
`NothingIsLost`. For `SalesTakeOldSellableLots` the invariant says of each lot
that it is sellable after its own day, or on it where its buyer's calendar ends
(`SellableLater`); more is not known, as each session has its own calendar. So what
is sellable in sum was bought before today, or today where a calendar ends. These
lots are a prefix of all lots in order of age that has at least that sum, and a sale
within the sum never reaches beyond the prefix.

### `PaperRiskProofs`

`RiskInv == TypeOK /\ ResultsAddUp` with each waiting order approved with what its
floor states (`GoodOrder`). It holds for any prices, also none, and any slippage and
fees: a fill price is a natural number and a fee is one, so cash stays an integer,
which the fee of a sale may bring below zero.

- While marks are made in the order of their days the latest mark is the last
  one made, so each daily result is a difference to the mark before and the sum
  telescopes: `DailyResultsAddUp`.
- `LossesStopTrading`: a session ahead of the others is judged by its own mark.
  At a loss every judgement has a reason to refuse, whatever the intent and whether
  or not the session knows a close; by induction over the intents such a close ends
  without an order. With a close and a worth above zero the first judgement freezes
  an account that is not frozen yet.
- `LoneBuysKeepTheBuffer`: an order remembers the cash it was judged with and
  the floor of its buffer (both in the model only); with the same cash and no
  higher price it costs no more than it was judged to, plus what the fill slips by
  and is charged, and those only are missing from the buffer.

### `DatasetProofs`

There are two inductive invariants of `DatasetPublication`.

- For any number of publishers, `RowsInv == TypeOK /\ Claimed /\
  BatchNeverAhead`, where `Claimed` says that a request works on a batch that
  has a version. It gives `BatchNeverClaimsTooMuch` and
  `PublicationImplementsCatalog`.
- For any number of publishers that overlap in any way, `FilesInv == RowsInv /\
  Alone /\ RequestInv /\ FilesOk /\ RecoveryInv`, where `RequestInv` and
  `FilesOk` are about the batches outside `shared`. `Alone` says that one
  request at most works on such a batch; `RequestInv` ties what is on disk to
  the step that request has reached, `FilesOk` says that a final directory is
  missing or complete and the rows claim no more, `RecoveryInv` that no request
  is in progress while recovery runs. What other requests do to other batches,
  shared ones included, touches none of this. It gives
  `PublishedVersionsAreWhole`, `BatchFollowsItsVersion` and
  `RecoveryAccountsForAll`, about batches that no two requests worked on at
  once; of the others these are false (section 7).

About `MarketProfile` it proves two more.

- `BindingInv`: the columns of the profile, and those that a request waits to
  write, are each `Checked`, that is, of a published version and a stored table.
  These are never taken back, so a late write puts checked columns over checked
  columns: `BindingsExist`. Which columns come together is another matter
  (section 7, 10).
- `TableInv`: the numbers of a calendar's versions are `1 .. n`, no file is
  stored twice in one calendar, and an upload left behind belongs to another
  calendar. An import runs as a whole on the event loop, so the highest number
  it reads is the highest there is: `CalendarImportsAreSound`.

`CoverageAnswersExactly` needs both, and a fact about a page: the first `Limit`
days or bars of a range that has no more days than that are all of them, as a
set within a range with as many members is the range. Health and coverage agree
since they look at the same rows.

### `AiAnalysisProofs`

About `AiAnalysis` it assumes `AnalysisAssumption` only (bounds that are
naturals, and `None` that is no key) and builds six invariants on one another,
each inductive with those before it:

- `TypeInv`: `TypeOK`, and a thread with an attempt in hand has one of its
  stage. It gives `TypeCorrect`, which is the shape of the state only, and with
  `OwnInv` the action property `EndedRunsAreLeft`: with the run ended no thread owns
  it, and whatever reserves a call or accepts a result checks ownership in its own
  transaction. Sending does not check, so a call that was reserved before is sent.
- `OwnInv`: a busy thread executes the active epoch or its run has ended. So a
  claim, which needs a run that nobody owns and that has not ended, finds every
  thread idle: `ExecutedByOne`, `EndedRunsAreClosed`, `EpochsAreExecuted`.
- `HistInv`: an attempt that is STARTED is the latest, and the thread at work
  calls for it or is about to stop; a call that is ABANDONED is known to the run
  before anybody else can claim it (`LostIsKnown`: the flag is set, the run has
  ended, or the thread that lost it is still to hand the run back); an epoch
  claimed with the flag set confirms the risk. Since only the latest attempt
  can be lost, losing it accuses no call that was made already:
  `NothingRetriedSilently`.
- `AnswerInv`: a thread about to call again has the latest attempt of its stage
  lost or answered, a thread that validates has a completed answer without a
  verdict. Earlier attempts are covered by the property itself:
  `AnswersBoughtOnce`.
- `StageInv`: a step of the second stage has an accepted diagnosis and an open
  gate, and no attempt exists unless the frozen gate let it: `StagesKeepTheirOrder`.
- `BudgetInv`: what is charged stays within the budget, where a call that is not
  settled is charged its reservation; only a bound call can have a bill, and only
  a bound, unanswered one is sent. A charge rises only when a call is reserved,
  which adds it up in the same transaction; a settlement replaces a reservation
  by no more, and a bill is within its charge: `SpendingStaysWithinBudget`.

About `ProviderHost` it assumes `HostAssumption` (capacity, skew, drift and
horizon are naturals, and `Nothing` is no host) and nothing else: hosts,
requests and forged identities may be infinitely many. Its invariants build on
one another.

- `MemoryInv`: `HostTypeOK`, and the memory is finite. It gives
  `HostTypeCorrect`, which includes that the memory never exceeds its capacity.
- `FileInv`: a host that has created its token, or serves, has its token on
  file. There is one file, so there is one such host: `ServingTokenIsOnFile`.
- `CallInv`: a request that has passed the claim, or was executed, is `Spent`:
  the host of its token no longer serves, or serves and remembers the request
  until its stamp plus the skew, or that time is over. The memory drops what is
  older only, and refuses at capacity rather than forget, so what is spent is
  refused for good: `RequestsExecuteOnce`.
- `RunInv`: a running call is the only one of its request; when it is the Core's
  own, the Core waits for it or has given it up as unknown, and when a copy came
  first, the Core's own never passed the claim: `SettledIsOver`.

### `AiResearchProofs`

About `AiEvidence` it proves `EvidenceInv`, which goes along with a create call:

- `WorldInv` and `ItemInv`: time goes on, a run has its artifacts before it
  succeeds and keeps both, and an item that says it is settled was written
  before it was known. A row that was read as SUCCEEDED is still the row when
  its artifacts are read (`RowReadInv`), so these were written before it was. An
  experiment is read in two steps, its links and then the runs they lead to;
  what is seen counts as known at the clock of the second, so what either step
  read was written by then (`ReadingInv`). Only items known by the cutoff are
  valid, and only valid ones reach a pack: `PacksHaveNoHindsight`.
- `KeyInv`: a create key is claimed at most once; the claim is one guarded update
  of an unclaimed row. With the `Owns` of the states of a call, what is stored
  under a key is what the owner has seen (`CutsInv`, `RecallsInv`, `AttachesInv`):
  `KeysAreObservedOnce`.
- `Complete`: the cutoff of a request about the present is taken after the last
  observation, so nothing valid that was stored is left out: `PresentIsComplete`.
- `Compares`: a build without a fault has a comparison that ranks, of runs that
  had succeeded in one environment; neither is ever undone:
  `PassedExperimentsCompare`.

About `AiValidation` it proves `ValidationInv`:

- `AcceptedClaimsAreSupported` needs the records only to be what `Judge` makes
  (`Results`), for any pack, claims and answers: acceptance is an empty set of
  codes, and each check that leaves a claim early leaves a code.
- `FinalInv`: a result with a code that is not retryable is the last and ends the
  analysis. The checks that are not retryable are made of a malformed answer
  too, as far as it has lists: `UnsafeAnswersAreFinal`.
- `HeldInv`: an answer *agrees* (`Agrees`) with the last one before it that says
  anything of the matter: over the same operands, and within the tolerance of the
  type. `RetriesKeepTheirWord` follows by an induction along the answers that say
  something of it. Agreement is not transitive: ratios and money may move by a
  tolerance at each answer, which the property says.

### `BacktestRunProofs`

It proves `Inv == TypeOK /\ Staged /\ Recorded` inductive for
any number of requests, runs and bindings. `Staged`: a staging directory is
there while a request writes or moves it, nobody else does, and what is moved is
that request's result; a directory left behind by a crash belongs to nobody.
`Recorded` adds to `RowsDescribeFiles` that the rows a request is *about to*
record describe the files, and that a run a request is about to call SUCCEEDED
has its data rows. The argument is that files only ever appear (`Move` needs an
empty place) and rows only ever grow (`Grows`), so what was true of them when a
request looked is true when it writes. Hence `RowsAlwaysDescribeFiles`,
`SucceededRunsAreWhole` and the action property `SucceededRunsAreFinal`.

### `ImportBatchProofs`

It proves `IInv == TypeOK /\ RequestInv /\ DataInv` inductive.
`RequestInv`: an upload works on a batch of its own, which is not there yet, and
a batch that is answered is there. `DataInv` adds to `PublishedAsPreviewed` and
`PublishedIsConfirmed` that the stored issues are those of the preview of the
row: both are replaced in one transaction, so a claim, which holds the write
lock while it decides, judges what it claims. From there no preview touches the
batch, as its status is past `PREVIEW_READY`. Hence `VersionsArePreviews` and
`VersionsAreConfirmed`. `ShownIsSafe` needs the type only: row and issues of an
answer may differ, but eligibility consults both.

`GateJudgesEveryFile` says of `QualityRules` what the run checks of short files
from a few kinds of rows: a file of *any* length and *any* rows passes exactly when
it is a series of bars. It is an induction over the rows (`JudgedTo`). A prefix
that is a series has had every row let through, and what is remembered
`Describes` it: the days met, and of each symbol the last row. So the comparison
with the row before is one with the rest of the symbol's rows, whose days are
increasing. A prefix that is not a series has a rejected row, or has ended the
validation by an error, and keeps it. `GateStaysExact` is the run's invariant.

### What proving changed

Attempts that failed, and reading the models against the code once more, changed
them. `RetryKeepsWord` had counted one tolerance in all, although each answer
between two may use up its own and a computed value one more; a claim that names
its evidence in another order is compared by another type; and a text that reads
as a number was kept as text. `LossStopsTrading` had promised a freeze that a
session without a close does not get, and `SalesRespectLots` a sellable date
that two calendars do not keep in order. `ValidationAssumption` and
`ExperimentAssumption` state what the proofs need of packs, answers and starting
worlds. `PaperRisk` and `QualityRules` were restated with recursive functions in
place of folds, whose order of evaluation the definitions hide.

## 6. Model-checked only

- `CommittedSettles` and `ExecutionEnds`: liveness is outside the proof system's
  reach.
- `SoldWithinHoldings` of `BacktestEngine` is refuted by its run; the module has
  no theorem.
- The statements that are listed in section 7 are false, so TLC's counterexamples
  are all there is of them.
- `CoverageIsExact` names three days and two instruments, and is proved as it
  stands, for any calendar files, bars and page limit; the lemma behind it
  (`CoverageExact`) is about any range and instrument.
- That the code is what the modules say is not proved; `PROJECT.json` ("map")
  names the lines to compare.

## 7. Where code and repository disagree

One run must end in a counterexample:

1. **A backtest sells what it has sold already** (`backtest_oversold`). A lot is
   appended by a purchase (`backtest/engine.py:99`); a sale adds cash and a fill
   and leaves `lots` as they are. Holdings, sellable quantity and market value
   stay, so a rotation sells the same shares at every later close that leaves the
   instrument out, and equity counts both the shares and their proceeds, though
   the kernel is written to reject a sale beyond the holdings.

The following statements stay in the modules, next to what holds in their place;
checked with the instance named, or with that of the module's run, TLC refutes
each.

2. **A filled order becomes CANCELLED** (`PaperSession`, `OrderTerminalIsFinal`):
   `cancel_order` validates the status it read and then updates by id, after an
   advance has filled the order. Fill, lot and ledger stay.
3. **A stopped or failed session runs again** (`SessionTerminalIsFinal`):
   `_lifecycle` writes status and version from the row it read before a
   concurrent stop or failure.
4. **An order submitted on or after its execution day**
   (`SubmittedBeforeExecution`, with `LastDay` 4 and `MaxVersion` 6):
   `create_manual_intent` computes the day from an old read; the order is never
   due and keeps its open-order slot.
5. **Interrupted publication that recovery skips** (`DatasetPublication`,
   `InterruptedIsSettled`, one publisher and batch, two parts, one crash): after
   `os.replace` and before the row says so, a crash leaves FILES_COMMITTING with
   the final directory in place; neither branch of recovery applies, and a retry
   fails on the existing directory.
6. **A published version without a part** (`PublishedIsComplete`, two publishers
   of one batch): two requests share the staging directory; one clears it while
   the other writes. After a crash such a batch may be left with part of its files
   published and a revived staging directory beside them, by a recovery that skips
   it (`SharedIsAccountedFor`, two publishers, one batch, one part, one crash).
7. **A cancelled analysis that does not tell of a lost call** (`AiAnalysis`,
   `CancelRetainsUnknown`, two keys, two calls, no crash): that a call was lost is
   recorded in two transactions, and `cancel` between them looks at STARTED
   attempts only.
8. **A backtest of data its snapshot does not name** (`BacktestRun`,
   `DataRemainFixed`, one client): the profile is read for the snapshot that
   identifies the run, and again for the bars and for the calendar; a rebinding in
   between makes the stored result that of other data.
9. **Two active policies of one account** (`PaperRisk`, `AtMostOneActive`, two
   clients), against the comment at `paper/policy_service.py:18`: the check and
   the insertion are two transactions. A crash between the policy and its first
   version leaves an ACTIVE policy without one, and every advance that has an
   intent to judge is refused from then on.
10. **A binding mixed of two** (`MarketProfile`, `BindingsAreWhole`, with
    `MaxTables` 3): of two overlapping rebindings each writes the columns it
    changed, and the profile may name a version of another dataset or calendar.
    Health then answers NOT_FOUND; nothing is read wrongly (`BoundToPublished`).
11. **A lot sold before its date** (`PaperAccount`, `OnlySellableTaken`): the T+1
    check adds up the lots with `sellable_from_date` reached
    (`paper/execution.py:80`), and consumption takes the oldest of all lots (118),
    although its docstring says that it consumes "sellable lots FIFO"
    (`execution/lots.py:32`). Each session dates the lots it buys by the calendar
    version it froze (`paper/service.py:301`, 500), so an older lot may be sellable
    later than a younger one, and is taken in its place.
12. **Made-up evidence that is answered with another try** (`AiValidation`,
    `NoEvidenceMadeUp`): a comment says that reference safety "is independent of
    claim/schema completeness" (`ai/validation.py:553`), but references that are no
    list, entries that are no text and claims that are no list or mapping are passed
    over (246, 555). Such an answer gets SCHEMA_INVALID, which is retryable.
13. **A buy that takes from the cash buffer** (`PaperRisk`, `BuyKeepsWholeBuffer`):
    the estimate has no fee (`paper/service.py:1071`) and no slippage, the fill has
    both.
14. **A loss that freezes nothing** (`LossAlwaysFreezes`): a session without a valid
    close judges by a price of 0 (`paper/service.py:1064`), which is refused as
    RISK_CONTEXT_INVALID before the limits of loss are looked at
    (`paper/risk.py:48`). No order is made, but the account is not frozen.
15. **A call sent for a run that has ended** (`AiAnalysis`, `EndedSendsNothing`): the
    call is reserved in a transaction that checks ownership, and sent afterwards
    without another look (`ai/provider_execution.py:268`); a cancellation between the
    two is not seen. The call is accounted for, and its answer accepted nowhere.

Weaker facts that hold all the same (`FillsFollowSubmission`,
`NoMissedExecution`, `RecoveryLeavesOnlyMoved`, `BatchNeverAhead`,
`BoundToPublished`, `SalesRespectLots`, `UnsafeIsFinal`, `LoneBuyKeepsBuffer`,
`LossStopsTrading`, `EndedReservesNothing`) are stated so that the limits of these
defects are known.

Noted while modelling, without a property of its own:

- A risk freeze cancels the pending orders of the session that advanced only
  (`paper/service.py:1214`); orders of the account's other sessions execute.
- `position.sellable_quantity` is recomputed only by a fill of the instrument
  (`paper/service.py:881`), and later days show a stale value.
- Two overlapping policy patches: the later one is built on the version before
  the earlier one (`paper/policy_service.py:113`). A daily loss or drawdown limit
  of 0 stops everything, as the comparison is `>=` (163).
- An advance and a backtest load at most 1000 bars of all instruments and days
  up to the target, ordered by instrument (`paper/service.py:335`,
  `backtest/service.py:228`): beyond that the newest bars of the last instruments
  are missing without an error.
- When the batch of an upload cannot be read back after its commit, the staged
  file is discarded (`api/data_imports.py:142`), and the batch stays without one.
- The artifacts of a run may be later than its failure, as two requests can work on
  one run: a pack with an explicit cutoff may have artifacts of a FAILED run that
  were written after it. What the pack says of a run is known since the run last
  ended, whenever its artifacts were written.
- A claim whose value is a float raises `TypeError` (`ai/validation.py:972`),
  and so does a comparison with NaN its own error; nothing catches either, and
  the execution ends (`KILLED`). The tolerance of a ratio or a number is
  relative to the right side (208), so every such value equals 'Infinity' there:
  a fact of that value is refused when it is recorded, and an inference of it
  never counts as drift. A text that reads as a number is compared as one (880),
  and of two words of one group the last counts (901).
- A research case is recalled when it existed at the cutoff, whenever its
  document was written (`ai/retrieval.py:209`).
- `api/experiments.py`: the active experiment (131) and the limit of linked runs
  (163) are read before the transaction that writes.
- A ranking is allowed for a baseline alone (`research/comparability.py`).

## 8. Not modelled, and why

- Formatting, parsing, Parquet encoding, HTTP routing, the React front end and
  the PowerShell scripts: no state that the properties speak of.
- Metrics, diagnostics, reports and the journal: pure functions or append-only
  notes.
- The strategy library: an append-only catalog of versions that nothing updates.
- `backtest/planner.py` and `ResearchCaseDocumentService.create`: only tests call
  them (documents appear in `AiEvidence` all the same).
- Fingerprints: two different contents never share one.
- The database triggers against updates of immutable records, but for those of
  published versions and finished backtests, which an action does meet.
- Several instruments, lot sizes and price limits in the paper modules, and the
  limit prices of manual intents: they select the choices `PaperSession` and
  `PaperAccount` leave open; `BacktestEngine` has them.
- The window of 1000 bars of an advance: an instance that overflows it needs more
  bars than TLC can choose; it is noted in section 7.
- The vendor's HTTP interface, retries of the HTTP library and the signature: the
  host gives a request to the provider, which answers, fails or is not heard of.

## 9. Plan

Built, in order: (1) `ReplayClock`, `PaperSession` and proofs; (2)
`VersionCatalog`, `DatasetPublication` and proofs; (3) `PaperAccount`; (4)
`AiAnalysis` and proofs; (5) `BacktestRun` and proofs; (6) `QualityRules`,
`ImportBatch`; (7) `MarketProfile`; (8) `PaperRisk`; (9) `ProviderHost`; (10)
`ResearchExperiment`, `AiEvidence`; (11) `AiValidation`; (12) `BacktestEngine`.

Then the proofs of `ProviderHost`, `ImportBatch` and the bindings of
`MarketProfile`; then those that need sums or recursion, or a longer invariant:
the budget of `AiAnalysis`, `PaperAccount`, the calendars and the coverage of
`MarketProfile`, `AiEvidence`, `AiValidation`, `PaperRisk` and `QualityRules`.

Left to prove: that a sale of `BacktestEngine` is bounded at each close taken
alone, and the refinement named next.

Left to model: that the published rows of `ImportBatch` are the files of
`DatasetPublication` (a refinement that joins the two at the claim), and the lots
of two instruments in `PaperAccount`.
