# StockSystem in TLA+

TLA+ models of the concurrent and recoverable parts of StockSystem, TLC
configurations that check them on small instances, and proofs checked by TLAPS.
Source paths are relative to the repository (`src/` in `PROJECT.json`, whose
`map` gives the lines behind every definition).

StockSystem is a Streamlit application that loads candles of up to thirty
symbols from rate-limited providers, calculates rankings and regimes over them,
and publishes the results; an external worker builds years of history for the
same symbols. Most of the code is numerical or rendering. What can go wrong
between its parts, and is hard to test, is the protocol around the numbers:
who may call a provider when, which rows a calculation saw, what a job row
claims after a crash, and which of several published states a session shows.

## 1. Inventory

| Component | State | Operations | Interacts with | Hard behaviour | Correct when |
|---|---|---|---|---|---|
| Historical build: `core/resumable_build_20260928.py`, `worker/run_build_worker.py`, `worker/fast_artifacts_20261002.py`, `supabase/build_strategy.sql` | job rows (status, requested action, heartbeat, progress, manifest), objects in a bucket, a worker's copy of its job | queue, claim, recover, download a window, checkpoint, sync manifest, export, finish, Stop, Resume | application and workers share the rows; workers share the bucket | crashes, stale heartbeats of live workers, failed fetches and store calls, corrupt objects | a row never claims what is not stored; jobs settle; one executor |
| Worker API keys: `TwelveDataWorkerClient` | uses and cooldown per key, a cursor | pick, use, 429, retry | download threads share one client under a lock | waiting releases nothing but the lock; late 429s | rolling per-minute budget per key |
| Key pool: `core/twelve_data_key_pool.py` | one process-wide entry per alias (key, window start, used, cooldown), a cursor per session | reserve a key or an alias, mark success, failure, 429 | loader threads of all sessions | pool objects read the cursor before they write it; windows are fixed | bounded bursts, shared cooldowns |
| Quota ledger: `core/data/twelve_data_quota_manager.py` | SQLite rows and daily counters | look, reserve, complete, release, record a 429 | all sessions of one database | time stamp before the write lock; midnight | no window or day overbooked |
| Symbol universe: `core/global_symbol_context.py`, `global_symbol_migration.py` | universes and members, one display row, a copy in each session | configure, load, publish, fail, select, restore | every tab reads the copy, every run writes the tables | old copies, several universes, one display row | completed within loaded within configured; copies stay valid |
| Run orchestration: `core/calculation/run_orchestrator.py`, `multi_symbol_load_manager_20260707.py`, `super_quick_field3_20260722.py`, `institutional_quant_layer_20260708.py` | loaded frames, target candle and run of a session | load, activate, full run, Super Quick, refresh | several transactions on the universe per click | other sessions load between a check and a publication | what is published is what was calculated |
| Market data: `core/data/market_data_orchestrator.py`, `candle_repository.py`, `symbol_level_provider_registry_20260708.py` | candle table, provider health | decide on the cache, ask the chain, normalize, upsert, reload, fall back | every load; adapters call providers | concurrent fetches, short or old pages, late answers, circuit breaker in two transactions | one canonical series for all fields |
| LOCAL backend of the build: `_LocalBackend` and `launch_local_build_worker` in `core/resumable_build_20260928.py` | a JSON file per job, files for chunks, worker processes | the operations of the build, each a read, a merge and a replacement of the job file; launch of a one-shot worker | a worker started by hand (`worker/README.md`), workers launched by a session, sessions that stop and resume | no lock and no row lock: updates are lost, a job is claimed twice | as the Supabase backend, except that one executor is not promised |
| Multi-symbol run: `core/multi_symbol_field10_20260701.py`, `child_generation_contract_20260702.py`, `child_snapshot_publication_20260706.py`, `generation_registry_20260702.py`, `runtime_state_cache_20260628.py`, `field10_daily_snapshot_contract_20260702.py`, `multi_symbol_completion_contract_20260706.py` | session keys (run, child run, canonical result, summary table, manifests), a cache file per symbol, six tables | activate, calculate, save, build and publish a child, register, publish the child's row, reload; publish the day, complete; restore | sessions share files and tables; a run is started by the run orchestration | a chain of files and transactions any of which may fail; reruns and lost sessions in the middle; two checksums of one file; one snapshot per broker day | what a row calls published, completed or latest is what its file holds |
| WebSocket feed, multi-symbol scheduler, canonical snapshot store | module-level runtime, queues, snapshots | start, stop, callbacks; batches; publish | feed sessions and runs | callbacks of old connections; breakers | not modelled, section 7 |
| Everything else (`PROJECT.json` lists it) | | | | | numerical, rendering or pure I/O |

## 2. Modules

| Module | Models | State and actions |
|---|---|---|
| `BuildWorker` | the resumable build, Supabase semantics | `row` is `build_jobs`; `stored`, `marked`, `corrupt`, `lost` are the bucket; `pc, job, sym, win, prog, man, verdict` are the locals of `execute_job`. One action per store call: `Recover`, `Claim`, `Begin`, `StartSymbol`, `NextWindow`, `Work`, `Save`, `EndSymbol`, `Sync`, `ExportFull`, `ExportPartial`, `Finish`; `Stop` and `Resume` of the user; `Crash`, `Restart`, `StoreError`, `GiveUp`, `ClaimUnheard`, `HeartbeatAges`, `Corrupt`, `Lose`. A HEAD that fails is a choice (`Unseen`) of the actions that look into the bucket |
| `DurableBuild` | the abstract build: windows become durable one at a time, a job completes when all are; both backends implement it | `Put`, `Complete`, `Reopen` |
| `RateBudget` | the abstract limiter: a key used `Limit` times is free again when the first of its last `Limit` uses is a window old; `WorkerKeys` implements it, and so does `KeyPool`, with twice the limit, for the keys that all sessions agree on | `TimePasses`, `Use` |
| `CandleSeries` | the abstract candle service: settled candles stay, and an answer is the newest part of the series at one moment between question and answer; `MarketFetch` implements it | `Settle`, `Ask`, `Look`, `Reply`, `Read` |
| `BuildWorkerProps` | its properties and the refinement mapping | |
| `LocalBuild` | the resumable build on the LOCAL backend | `file` is the job files, `stored` the chunk files; `held[p]` is the row a process has merged and is about to write, so every update is two actions: the one that reads and merges (`Recover`, `Claim`, `Begin`, `Save`, `Beat`, `Report`, `Finish`, `Stop`, `Resume`) and `Replace`. `Suspect` and `Scan` are the looks before a recovery and a claim. `Window`, `Work`, `End`, `Export` are `execute_job`; `Raise`, `Crash`, `Launch`, `Exit`, `HeartbeatAges` its surroundings |
| `WorkerKeys` | `TwelveDataWorkerClient` | `Start`, `Pick`, `Answer`, `Fail`, `RateLimited`, `Tick` |
| `KeyPool` | `TwelveDataKeyPool` | `MakePool`, `ReserveKey`, `ReserveAlias`, `AllLimited`, `AliasLimited`, `Mark`, `Tick` |
| `QuotaLedger` | `TwelveDataQuotaManager` | `Look`, `Stamp`, `Reserve`, `Refuse`, `Complete`, `Release`, `Leave`, `Tick` |
| `SymbolUniverse` | the universe tables and every session's copy, one operator per transaction | `ConfigureUniverse`, `Mark`, `PublishLoaded`, `PublishCompleted`, `SelectDisplay`, `Restore` |
| `UniverseRuns` | composes the transactions of `SymbolUniverse` into the clicks of several sessions | `StartLoad`, `MarkLoading`, `FinishLoad`, `StartActivate`, `PublishHeld`, `FinishActivate`, `Check`, `MarkCalculating`, `Record`, `Publish`, `GiveUp`, `SuperQuick`, `StartRefresh`, `RefreshLoaded`, `RefreshCalculating`, `RefreshPublish`, `Choose` |
| `SymbolRuns` | `run_selected_symbols` over the cache files and tables of several sessions | `file`, `evidence`, `children`, `registry`, `pubs`, `daily`, `audit` are what is shared; `ses[s]` is `st.session_state` and the locals of the run. One action per file or transaction: `Begin`; `Activate`, `Calculate`, `RunnerFails`, `Save`, `Build`, `Publish`, `Register`, `PublishChild`, `Reload` for a symbol; `Finish`, `ShowRun`, `DailyLook`, `DailySecond`, `DailyInsert`, `Complete`, then `Strict` or `Partial`, and `End` for the run; `View`, `Interrupt`, `Restart`, `Tick` around it |
| `MarketFetch` | `MarketDataOrchestrator.fetch` over one candle table | `Fetch` (the cache decision), `Skip`, `Request`, `Answer`, `Store`, `Reload`, `Fail`, `ReadScore`, `WriteScore`, `FallBack`; `ResetCircuit`, `Tick` |
| `*Proofs` | the theorems | |
| `MC*` | the instances for TLC | |

Operators whose name holds an underscore (`Wins_Ties`, `Claimable_RetriesFailed`)
are deliberate bugs; `PROJECT.json` pairs each with the definition it replaces
and the property that then fails. They are used by no specification.

### What is abstracted

*BuildWorker.* Jobs are raw-only (stages B and C follow the protocol and are
numerical). A window that has no data and one that is empty both become a
`marked` window. Rows, gaps and bytes of a chunk are left out; an exported CSV
is the set of chunks it was built from. The symbol state the worker persists as
JSON is written and never read back, so it is left out. Two adjacent checkpoint
writes of one symbol are one action. A new job
starts with empty progress. A worker forgets its locals when it finishes or
crashes. The heartbeat is a set `stale` of rows past the limit.

A call that fails, by an error or by the 15 seconds of its timeout, may have been applied all the same: a chunk or marker
(`Work`, `StoreError`), the verdict (`StoreError`, `GiveUp`), a claim (`ClaimUnheard`); a checkpoint applied without
an answer is its action followed by `StoreError`. It is not applied *later* than it failed, after the worker's next
call. Nor does `StoreError` write a marker over a window whose HEAD failed in the same step. A HEAD that is not answered with 200 means to the code that the object is not there (`core/resumable_build_20260928.py:377-380`), so
each look of `Trusted`, `Work`, `Sync` and the exports may see only some of the objects. `missed` is a history
field: the windows with data that such a look dropped from the manifest.

*LocalBuild.* The symbols' windows are merged into one list, since their order is
all the loop adds; one heartbeat and one progress report stand for the repeated
ones; the checkpoint a partial export writes is left out. A worker claims any
queued job instead of the oldest file. Chunk files are not lost or corrupted, as
objects are in `BuildWorker`. An exception that escapes to `main`'s own except
clause is a `Raise`. `queue_job`'s search for an equivalent job and the fallback
from Supabase are not modelled. The screen with the buttons is not in this commit; clicks
are modelled at `request_stop`, `request_resume` and `launch_local_build_worker`.

*WorkerKeys.* Time is monotone. The check and the record of one use share one
reading of the clock; the code reads it twice in a row under one lock
(`worker/run_build_worker.py:193`, 195), so a use is recorded no earlier than it was checked, which only lengthens the
time it counts. Times are those recorded under the lock, not those on the wire. *QuotaLedger.* A request costs one credit; the three
reads of `can_request` are one action. The manager is dormant in today's
production path (`reservation` is always `None` in `fetch`): the model shows
that it may be switched on. *KeyPool.* How a key's value is found in secrets,
environment and vault is the constant `KeyOf`.

*SymbolUniverse, UniverseRuns.* One timeframe, one process. The statuses FAILED
and BLOCKED are never set by the code and are absent; COMPLETED exists only
inside its transaction. Two adjacent LOADING marks are one. The evidence rows
that publications write beside the universe are left out, as is the
refresh's fallback to the repository. `SuperQuick` publishes any set of symbols of which the session holds frames, whether
they were named by its caller, are those the copy calls loaded, or all that are held. `runs` is a history of the recorded
identities.

*SymbolRuns.* A file is named by its contents, so its checksum is its contents.
The numerical gates of a symbol (`whole`, `ok`, `usable`) are left open where
`Faults` has "fields" and are passed otherwise. A day is two candles, one before
and one after its cutoff. A run is its number; a generation is the run and the
candle that calculated it. Sibling publications of a run (crowd, sentiment,
settlement, safety), the legacy cache path, and the repair of stored rows by
later reads are left out. A loaded symbol stays loaded; what an operator does to
the universe meanwhile is `UniverseRuns`. The broker's time of a daily publication is that of the main symbol's
candle or of a fresher frame of the session (`core/shared_broker_time_20260622.py:366-390`): any time from that candle to now, whatever day that is.

*MarketFetch.* One symbol and timeframe, since rows of others never meet; hence
the provider-wide circuit that an authentication failure of another symbol
opens is left out, as are `disabled_providers`. A row is its provider, whether
it is complete and what else tells it from another. Failures are classified as
in `_classify_failure`; TIMEOUT and VALIDATION_FAILED have the same
consequences and share a value. Failures are counted up to 2, beyond which
nothing distinguishes them. The audit and ledger tables are only written. `floor`
is a history variable.

## 3. Runs

Counters are capped by the bounds in the second column. Deadlock is not checked
in any run: clocks and clicks are bounded, and a user may stop clicking.

| Run | Instance and bounds | Shows |
|---|---|---|
| `build_faults` | 2 workers, 1 job, 1 symbol, 2 windows; every fault kind but a failed HEAD, Resume at any time, `MaxFaults` 2, `MaxClicks` 1 | no row claims a window that was not put; COMPLETED means all were put; the build implements `DurableBuild`; every job settles. Two faults are enough for a live worker to be replaced (a stall) and to fail or lose an object afterwards. A failed HEAD takes a window out of sight as a lost object does; it is in `build_careful` |
| `build_careful` | 2 workers, 1 job, 2 symbols, 2 windows; no wrong failure detection, Resume only of a job that no worker executes, crashes, failed fetches, failed or unanswered store calls, failed HEADs, unreadable chunks; `MaxFaults` 2, `MaxClicks` 2 | one executor per job; no lost progress; a COMPLETED job's CSV lacks no window with data but those whose HEAD failed while it was listed; a verdict is only replaced by a Resume, or by FAILED of the worker that did not hear the answer to it; a queued job is claimed, and no earlier worker writes over it; a Stop stays pending while a worker has the job. Two clicks are a Stop and a Resume |
| `local_build` | a worker that polls for ever and a one-shot one, 1 user, 1 job, 2 windows, `MaxFaults` 1, `MaxClicks` 1 | lost updates and double execution leave every row durable; the LOCAL backend implements `DurableBuild`; a job settles even when a lost Stop takes a finished row back to RUNNING. One fault already gives two live executors (a stall), one click an update that races every other |
| `symbol_runs` | 2 sessions with 2 symbols and 1 symbol, 2 runs, 2 candles (one before, one after the cutoff of a day); the first session may be interrupted at any place or lost, and its runner may fail; the second's save and publication may fail | registered, reloaded and published rows of the first session's symbols name the files they were made of (`OwnSymbols`: one session's own, with saves that succeed), eligible candidates always do; the day's snapshot is final; a session shows its last complete run, or a later one that was cut off. Two runs are a rerun of one session, over its own old files, or one run of each, which race for the day |
| `keys_budget` | 2 threads, 2 keys, `Limit` 2, two lengths of 429, time to 5 | the client implements `RateBudget`, bounded sleeps, a key answered 429 rests for the shortest penalty |
| `quota_ledger` | 2 sessions, 2 days, 3 rows | no rolling window or day is overbooked, the emergency reserve is kept |
| `pool_shared` | 2 sessions with a thread each, a common key under one alias and different keys under the other, `Limit` 1, time to 4 | for the common key, bursts of at most two windows' credits (the pool implements `RateBudget` with twice the limit) and cooldowns shared by the sessions |
| `universe` | 2 sessions, 2 symbols, 2 candles, 2 universes, 4 clicks | nesting, valid copies, equal versions, published = calculated, no overwritten load |
| `market_fetch` | 2 fetchers, 2 providers, 3 candles, 2 fetches, `Bars` 2, times 2..5, the fetchers symmetric | complete candles are final, all results agree with the table, none goes back |
| `build_stop_queued` | fails: `StopIsHonoured` | a Stop on a queued job is never answered (section 6) |
| `universe_preserves` | fails: `RefreshPreserves` | a refresh that published nothing unpublishes |
| `symbol_reload` | fails: `PublishedChildReloads` | on the second run of a symbol the reload looks for its publication under the first run's child id. One session, one symbol, two runs, no fault |

Properties that are proved are not all run: the type invariants of `BuildWorker`, `WorkerKeys`, `KeyPool`
and `MarketFetch` are theorems, and so is that `fetch` implements `CandleSeries`, which TLC also checked on the
instance of `market_fetch` without symmetry. The instances have up to about a million distinct states (`build_careful` 1,039,110, `universe` 939,045, `symbol_runs` 857,040,
`build_faults` 560,000).

Two actors suffice for the races modelled: every one of them is between one
actor's read and its write. In `market_fetch` three candles are one complete, one just
closing and one forming, the cases `is_complete` and the settlement delay tell
apart; `Period` 2 and `Delay` 1 make the delay shorter than a candle, as in the
code, and let the clock stop inside it. In `universe` two universes and two
symbols let a session's copy lag by a universe and by a member.

**Fairness.** The two builds have liveness properties. `BuildWorker`'s `FairSpec` assumes weak
fairness of each worker's own steps (`main` polls for ever and a claimed job is
executed to its end), of a restart after a crash (the platform restarts the
container), and of a dead worker's heartbeat growing old (time passes). Nothing
is assumed of the user's clicks, of faults, which `MaxFaults` bounds, or of one
worker in favour of another. `JobSettles` excepts a queued job that the user asked to
stop, the case of `build_stop_queued`. `LocalBuild`'s `FairSpec` assumes weak fairness
of each worker's poll-and-execute loop, of an update that has been merged (it is
the next statement), and of heartbeats growing old. It assumes nothing of launches,
clicks, exits and crashes, so that liveness rests on the worker that polls for ever;
there a queued job asked to stop does settle, because the claim keeps the request and the
loop sees it.

## 4. Proofs

Each theorem holds for every value of the constants that the module's named
assumptions allow; TLC evaluates these assumptions in the runs.

* `BuildWorkerProofs`. `TypesHold` from `Typed`, which adds to the types that
  inside a loop the positions name a symbol and a window. `CheckpointsHold` and
  `CompletionHolds` from `Durable`: it is not enough that rows tell the truth,
  since a worker writes its own copy of the progress over the row, so the copies
  must be `Backed` too, and a verdict COMPLETED must already be justified when
  it is decided. Steps only add to what was given to the bucket (an object that
  the bucket loses stays in `Given`), which carries `Backed` through every step of
  another worker. `BuildRefines` maps every step to a put, a completion, a
  reopening or a stutter of `DurableBuild`, and `DurableBuildCompletes` says what that is worth: a job
  of the abstract build completes only when all its windows are durable. Five theorems assume `Careful`: no live worker
  is taken for dead ("stall" is not in `Faults`) and the user resumes no job that a worker executes. Both halves are needed: with either one
  dropped TLC finds each of the five properties violated on instances of this size; section 6 says what happens then. From `Sole`
  (a job is executed by one worker; its row is fresh, RUNNING, and not ahead of that worker's progress) follow `OneExecutorHolds`, `ProgressHolds`,
  `VerdictHolds` and `QueueHolds`: a row is written by its one executor, or nobody executes it. A worker that did not hear
  that its verdict was applied still executes the job though the row is settled; `Unheard` says what it is about then:
  it writes FAILED, and the row has its own progress and manifest already. `StopHolds` needs the first
  half only: `Fresh` says that an executed job has a fresh heartbeat, however many workers execute it, and no worker's own
  writes touch the requested action.
  `CsvHolds` also assumes a bucket that loses nothing, so that what was marked stays marked; its `Whole`
  adds that a worker on its way to COMPLETED lists every window with data but the `missed` ones, or has exported what it listed.
* `LocalBuildProofs`. `CheckpointsHold` and `LocalRefines` from `Durable`: besides the
  rows, every row that some process has merged and not yet written must be truthful, and
  so must each worker's own progress and verdict. Chunk files only appear, so a row
  that was truthful when it was merged still is when it is written, however late.
* `SymbolRunsProofs`. `TypesHold` from `Typed`: files are never emptied, and a session
  past the runner has a generation. `LastCompleteHolds`, `DailyHolds` and `EligibleHolds` need
  no hypothesis. The first one is from `Kept`: run numbers only grow, so the run in hand is later than the complete one; from the
  moment the manifest is written it is the run's own; and what ends a run has put back the complete one. The last one is from `RunsApart` (sessions at work have different runs, and a run
  published for a day publishes no more children) and `Candidates` (what a session read stays
  true until it inserts it). `RegisteredHolds`, `ReloadedHolds` and `PublishedHolds` need none either:
  they speak of `OwnSymbols`, which one session alone has loaded, once, and whose saves succeed, while the
  other sessions do what they like to the files they share. For such a symbol the file is
  the session's own from the save to the reload (`Owned`), and a completed symbol keeps its publication and its file
  while the loop goes on (`Whole`). Section 6 says what happens to the other symbols.
* `WorkerKeysProofs`. `TypesHold` and `BudgetHolds`: the timestamps that are still kept are the
  tail of all uses, and what was purged had left the window, so the `Limit`-th use
  back is a window old. `WaitsAreBounded` follows from the same ledger. `ClientRefines`: every step is a step of
  `RateBudget` or a stutter, and `LimiterKeepsBudget`: `RateBudget` alone keeps the budget. `PenaltyHolds`
  from `Served`: the cooldown of a key reaches at least to the end of the shortest penalty counted from its last 429. A later
  answer may shorten a cooldown (section 6), but it asks for a penalty of its own, and the choice of a key never shortens one.
* `QuotaLedgerProofs`. `BudgetHolds`: a row is inserted after it is stamped, so the
  windows it falls into may end later than its stamp; the recheck counts every
  live row younger than the stamp minus the window, which covers all of them. `ReserveHolds` needs the
  same count for the plain rows alone, and `DayHolds` that a row keeps the day it was counted on.
* `KeyPoolProofs`. `TypesHold`, and, for the keys that all sessions have under one alias (`SteadyKeys`),
  `BurstHolds`, `CooldownHolds` and `PoolRefines`, whatever the sessions have under other aliases. The entry of a steady key
  remembers when its window began and how many of the key's leases fell into it; those before it are a
  window older, which leaves two windows' credits around a boundary, so the pool implements `RateBudget` with
  twice the limit. With another key under the alias the entry starts anew and remembers neither (section 6).
* `SymbolUniverseProofs`. `TypesHold`, `SessionsHold`, `SymbolsStayNested`, `CopiesStayValid` and
  `VersionsStayEqual`, for the runs of `UniverseRuns`, from an invariant of the tables under any
  sequence of transactions and one of what a session carries between them. A copy stays valid because
  it is a snapshot whose own sets are nested and configurations never change. `PublishedHolds` from
  `Calculated`: a session that waits to publish still holds the frames it recorded, and the match of the
  hashes under the lock is made against the rows of that moment. `LoadsHold` from `Framed`: a
  loaded member always has a hash, so evidence with a hash is compared and evidence without one leaves it.
* `MarketFetchProofs`. `AlwaysCompleteIsFinal`, `AlwaysResultsAgree`, `AlwaysTypeOK`. A result is
  either a load of the table or, after a request, the reload unless it is shorter than the answer. The
  invariant shows that case never arises: the answer has at most `Bars` rows, the table covers
  it once it is stored, and `LIMIT Bars` of a set leaves all of it or at least
  `Bars` rows. That last lemma needs the last element of a finite set of candles,
  obtained from the well-foundedness of `<` on the naturals. `AlwaysForward`: complete candles stay in the
  table, so a load that keeps its last rows reaches every candle some result reached before the
  fetch began. `FetchImplementsSeries`: the look of a successful fetch is
  its reload, that of any other its load from the cache, and what a load leaves in the frame is the newest part of the
  series (`LoadIsPart`: forming rows may take the places of the oldest settled ones). `SeriesAgrees` and `SeriesIsFinal` show
  that the abstract series alone implies `ResultsAgree` and `CompleteIsFinal`.

Only model-checked: `JobSettles` of both builds (liveness under fairness and ENABLED are out of the
prover's reach), and the three properties that fail. All other properties of the runs are theorems.

## 5. Hazards

`PROJECT.json` lists them with their lines, and the properties that watch them.
Those without a property name the reason there.

## 6. Where the code departs from its words

Shown by a run: `build_stop_queued`, `universe_preserves`, `symbol_reload` (see `findings`). Met while modelling, present in the
models' behaviours, and not given a run:

* `build_strategy.sql:88-101`: the recovery also requeues a live worker that is inside one
  long call, so two workers may execute a job (`build_faults` includes it and its
  safety properties hold). It also clears a pending Stop; when no live worker is taken for dead it does so
  only if nobody executes the job (`StopStands`), that is after a crash.
* `core/resumable_build_20260928.py:886`, 919-931: Resume pressed while the worker is pausing is
  overwritten by `finish_job`, and Resume of a running job gives it to a second worker. `build_faults` has both (`ResumeActive`);
  the properties of `build_careful` do not cover them.
* `worker/run_build_worker.py:1043-1048`: when the last `finish_job` is applied and its reply is lost, the
  except clause writes FAILED over COMPLETED, and the user must resume a job whose CSV is there. `VerdictStands` allows
  this one case and shows that nothing but the status changes. A claim whose reply is lost leaves the
  job RUNNING with nobody at it until the recovery takes it (`ClaimUnheard`).
* `worker/run_build_worker.py:623`, `core/resumable_build_20260928.py:377-380`: `_sync_candle_manifest` is to publish "the complete
  raw-candle inventory" (602). A HEAD answered with 429 or 5xx counts as a missing object, so the window is left out, the
  CSV lacks it, and the job is COMPLETED without a word. `CompletedCsvIsWhole` says that such windows (`missed`) are the only ones.
* `worker/run_build_worker.py:456`: the comment (450-455) says that an empty marker lets a load
  reach 100% instead of stalling at one range on every resume. When the marked window has a
  corrupt object of an earlier attempt, the manifest still lists it (623) and every export
  rejects it again; `build_faults` has the behaviour (`Corrupt`, then a window without data).
* `worker/run_build_worker.py:220`: `READ_ME_FIX_20260930.md:20` says that the worker respects key
  cooldowns. Each 429 overwrites the cooldown of its key, so of two requests in
  flight the later answer decides, even with the shorter Retry-After (`RateLimited`). The key rests for the
  shortest wait a 429 may ask for, no less (`PenaltyIsServed`).
* `core/resumable_build_20260928.py:214`: on the LOCAL backend a Stop pressed while the worker
  writes its verdict may take a finished job back to RUNNING, until the recovery requeues it
  and it is executed again; `local_build` includes it and `JobSettles` holds.
* `core/multi_symbol_field10_20260701.py:2856-2858`: the last complete manifest is preserved for browsing. The partial run's
  manifest is shown from 2601 on, and a rerun or stop that Streamlit raises before 2859, at any use of `st.session_state`, leaves it there
  until the next run ends (`Interrupt` at `look` to `partial`). That run takes the manifest shown for the previous one, and goes back
  to it when it says COMPLETED though no audit has it, if there was no complete run before (`Begin`, `KeepComplete`).
  If the interruption falls on the removal of the in-progress mark (2913), the session refuses further runs; the model leaves that mark out.
* `core/multi_symbol_field10_20260701.py:2336`: the report of `save_runtime_state` is ignored and a
  cache file is named by its symbol alone. After a failed save, or when two sessions have
  loaded one symbol, a child is published and registered over the file of another run. What `RegisteredIsOwn`,
  `ReloadedIsOwn` and `PublishedRunsAreWhole` say of `OwnSymbols` fails for those symbols; the damage does not reach the others.
* `core/twelve_data_key_pool.py:158`, 294: parallel threads of one session read the same
  cursor and may lease one key twice in a row. With different keys under one alias (213) two
  sessions reset each other's usage and cooldown; the keys under the other aliases keep theirs.
* `core/calculation/run_orchestrator.py:659`: the comment says that a generation is published
  only after every loaded child passed the completion contract; the condition (661-663)
  reads the manifest's status and contract, and every selected symbol with a frame is then
  published, whichever of them the run calculated.
* `core/global_symbol_context.py:411-414`: a publication rewrites the display row only if its
  symbol is not completed in the new universe. Otherwise the row keeps naming the older universe,
  `_context_from_conn` (167) ignores it, and the session shows the first completed symbol
  instead of the one chosen.
* `core/data/market_data_orchestrator.py:583`: the comment (570-572) says that a forming-aware caller
  needs the forming candle in the frame; during the settlement delay the candle that has just
  closed is newer than `expected` and is taken for it (`CacheServes`).
* `core/data/twelve_data_quota_manager.py:136`: a 429 that another session records after the look is
  not seen again under the lock, so one reservation passes its cooldown (`Look`, `Reserve`).
* `core/calculation/run_orchestrator.py:662`, 684: the snapshot and the run are COMPLETED before the
  checks that may still raise (`Record`, then `GiveUp`), and the target candle of a session
  may come from an earlier publication and block the next one (`Check`).
* `core/data/market_data_orchestrator.py:625-627, 797-803`: the comment speaks of retries after
  temporary transport failures; only RATE_LIMITED is retried.
* `core/data/candle_repository.py:92`: a candle is complete as soon as its period is over, without the
  settlement delay that `latest_completed_candle` applies, and complete rows are final.

## 7. Not modelled, and plan

`PROJECT.json` gives the reason for each part that is left out. They are of three kinds.

* Numerical: strategy research and books, the strategy stages of the build worker, position sizing,
  news scores. They are functions of one call's frames, without a protocol; what they receive and
  where their results go is in the models.
* Rendering and lookup: tabs, session defaults, the credential vault, database helpers. Their clicks are
  actions of the models, and the keys they find are constants.
* Protocols not reached yet, in the order of the plan below. Reading them for it showed that `start_websocket`
  makes a new stop event and a new queue by separate assignments to one process-wide object (`core/connectors/websocket_feed.py:231-241`), which the
  starts of two sessions may interleave; that callbacks of an earlier connection keep writing its
  `connected`; and that a scheduler retry replaces a result only by a good one that is as long, unless there was no good one.

Next:

1. The WebSocket feed: connection generations, the bounded queue, symbol changes.
2. The multi-symbol scheduler over `MarketFetch`, and the canonical snapshot store that
   `UniverseRuns` writes to.
3. `queue_job` and the fallback from Supabase to the LOCAL backend.
