# CloudZombie: verification project

CloudZombie scans an AWS account for resources that cost money and are no longer
used (unattached EBS volumes, unassociated Elastic IPs, stopped EC2 instances,
snapshots whose volume is gone), remembers over many scans how long each has been
so, and offers read-only investigation scripts or, when history and risk allow it,
guarded deletion scripts that a human runs.  This directory holds TLA+ models of
that system, the TLC runs that check them and the TLAPS proofs about them.

The models are translated from the code under `src/backend/app`; documents are
quoted only where a property states what they promise.  The models keep the
control (what changes state, under which condition, in which order, and what
happens when a step fails) and abstract the data: identifiers are model values,
prices are small integers, evidence and texts are left out.

    tlc -workers 2 -config MCFindings.cfg MCFindings.tla     # any run below
    tlapm FindingsProofs.tla                                 # any proof module

Contents: [the system](#the-system) · [hard behaviours](#hard-behaviours) ·
[modules](#modules) · [runs](#runs) · [fairness](#fairness) · [proofs](#proofs) ·
[known divergences](#known-divergences) · [not modelled](#not-modelled) ·
[plan](#plan)

## The system

One API process (FastAPI with a thread pool for requests), one database (SQLite or
PostgreSQL), one command line that uses the same database from another process, a
browser frontend that polls, and bash scripts that leave the system and are run by
an operator.

| Component (`src/backend/app/`) | State | Operations | Correct when |
|---|---|---|---|
| observation history, `scanner/history.py` | tables `findings`, `finding_observations` | `reconcile()` per cell of a scan: insert, continue, reappear, resolve, classify, log | counters, streaks and dates tell exactly what the scans saw; absence is concluded only from a complete cell |
| classification and eligibility, `scanner/classification.py`, `remediation/eligibility.py` | none | `compute_persistence`, `classify_remediation_risk`, `script_kind_for` | a destructive script is offered only for an open, unowned, unblocked finding with the history its thresholds ask for |
| scan runner, `services/scan_runner.py` | lock, `current_scan_id`, table `scans` | `start()`, `_execute()`, and restart, which restores nothing | one scan at a time; every scan ends; a committed outcome stays; a 409 means another scan is active |
| scan engine, `scanner/engine.py` | the pool's futures, coverage, the scan's row | select regions, run detectors per region in a bounded pool, derive coverage and status, commit once | only what was completely looked at is reconciled; status and coverage agree; all or nothing |
| memoizing provider, `providers/memoizing.py` | remembered answers and one lock per key | `_memoize` | all detectors of a scan see one account; each listing is made once; no lock is left held |
| finding service, `services/finding_service.py` | `findings` | `patch()` dismiss and reopen; listing | only open ↔ dismissed; no update undone by a concurrent scan |
| settings service, `services/settings_service.py` | `app_settings` | `load`, `patch` | a change affects later scans and nothing retroactively |
| script generator, `remediation/scripts/`, `services/script_service.py` | the AWS account, through the operator | guarded, bulk and investigation scripts | nothing is destroyed that is in use, ignored or owned by a stack; the output tells what happened |
| pricing, `pricing/` | `price_cache` | choice of backend, look-up and store, calculator | an estimate is the methodology's sum at the prices it is dated by; a stored row serves every request of its key; a known resource is never left without a price |
| detectors, `detectors/`, dependency collectors, `dependencies/`, ownership, `ownership/` | local listings; the resolver's stack index | four `scan()` methods, `resolve()` | a complete cell shows everything that is in its condition and nothing that never was; what is not known is warned about |
| AWS provider, `providers/aws/` | the pagination under way | read-only calls, pagination, retries, error translation | every page is read once; retries end; every client error becomes a `ProviderError` |
| demo provider and seeder, `providers/demo.py`, `services/demo_seeder.py` | the tables | a sequence of simulated scans | the demo history runs forward from one anchor and is whole |
| API, CLI, overview, history, narrative, frontend | none of their own | entry points, aggregations, rendering | |

Interactions.  A request thread of `POST /scans` calls `ScanRunner.start`, which
commits a row and hands it to a worker thread (or runs it inline when asked to
wait).  The worker calls `run_scan` (engine), which submits one task per region to
a pool; the tasks share one memoizing provider.  The main thread of the scan then
reconciles every region (history) in one transaction that also commits the scan's
row.  Meanwhile request threads patch findings and settings in transactions of
their own, the command line may scan or reset the database without asking the
runner, and the process may die and restart with nothing but the database.
Scripts are generated from stored findings and run later, against an account that
has moved on.

## Hard behaviours

`PROJECT.json` lists each hazard at its line.  The themes:

- **check and act**: the runner checks memory and table under a lock it releases
  before the worker starts; `patch()` and `reconcile()` read, decide and write in
  separate transactions; commands, the seeder and PATCH requests load and save the
  whole settings document; a script checks, asks a human and then deletes.
- **crash and restart**: `current_scan_id` is lost, rows stay `running`.
- **partial failure**: one detector, one region, the failure handler itself, one
  call of a bash script under `set -e`.
- **long histories**: counters kept by increments and resets over
  resolve, reappear, dismiss, reopen; one missed reset corrupts everything later.
- **a moving account**: listings are not instants; what one detector listed is
  remembered for the next, pages are asked for again, stacks vanish.
- **a shared cache**: rows stored by one scan serve another, expire, are deleted
  under it, and two scans insert the same.
- **boundaries**: inclusive thresholds, zero as a legal threshold, whole days, no
  runnable region, a pool at its limit, a region listed twice.

## Modules

| Module | Models | State ↔ code | Actions ↔ code |
|---|---|---|---|
| `FindingRules` | pure rules of history, classification, eligibility | – | `Reobserved`, `Resolved` are the branches of `reconcile()`; `ComputePersistence`, `ClassifyRisk`, `ScriptKindFor` the functions of those names |
| `Findings` | the tables over a sequence of scans | `findings`, `observations`, `scans`, `settings` are the tables; `now` the latest `started_at` | `RunScan` (one scan's transaction over any set of complete cells), `Dismiss`, `Reopen`, `PatchSettings` |
| `FindingLifecycle` | abstract: what a finding's life promises, without rows, log or clock | `status`, `streak` | `Scan`, `Dismiss`, `Reopen` |
| `FindingRace` | one row under interleaved transactions | `tx` is the ORM session of each process or request: what it read, what it will write; `log`, `absences` and `revived` are history | `ScanStart/Sees/Misses/Commit/Leaves`, `Dismiss`, `Reopen`, `PatchCommit` |
| `ScanRunner` | requests, workers, lock, table, crash | `row` (`scans.status`), `request` and `worker` (program positions in `start()` and `_execute()`), `lock`, `current`, `up` | one action per step between two interleaving points, failures as actions of their own |
| `ScanEngine` | one scan | `task` (futures of the pool with the cells reported so far), `row`, `applied` (cells reconciled by the commit) | `Identify`, `Discover`, `Select`, `StartRegion`, `Detect`, `Finish`, `Raise` |
| `AtomicScan` | abstract: a scan as one step | `status`, `outcome`, `applied` | `GiveUp`, `Finish` |
| `RegionDetection` | `_detect_region`, the four detectors, the ownership resolver, the memo and the provider's paginated, retried calls, over a changing account | `turn`/`at` the position in the loop and in a detector, `heard` its local listings, `call` the pagination under way, `memo`, `index`, `cells`; `state` is the account, `seen` its history | `Ask` (a remembered answer or a new call), `Reply`, `Throttled`, `Fail` per request to AWS, `Skip`, `CellCompletes`, `Finish`; `Change` for everybody else |
| `ScopedProvider` | `_memoize` under threads | `cache`, `holder` (the lock of each key), `calls` (position of each thread), `world` (version of the account) | `Lock`, `Recall`, `StartLoad`, `Load`, `Remember`, `LoadBreaks` |
| `PriceCalculator` | pure rules of pricing | – | `Calculate` is `calculate()`, `Loaded` what `_load` brings of a request, `KeyOf` the cache key; `Methodology` is the reference definition, from `docs/pricing.md` |
| `PriceLookups` | `PricingService.estimate` of several scans over one cache table | `row` (`pricing_cache`), `scan` (position in `estimate()`), `writer` (SQLite's write lock), `estimate` the result | `Ask`, `LookUp`, `Load`, `FindRow`, `Write`, `WriteRefused`, `BackendFails`, `Price`, `FallBack`; `Begin` and `Commit` of the scan around them |
| `DemoHistory` | the settings document and the seeded scans of demo mode | `document` (`app_settings`), `scans`, `process` (API and command line), `session` (what each command, seeder and PATCH has loaded and not saved); `told`, `disturbed`, `cut`, `crossed` are history | `StartApi`; `Runtime` and `Date`, the load and the save of `_runtime`; `Count`, `LoadToSeed`, `Anchor`, `RunStep`, `Mark` of the seeder; `Read`, `Patch`, `Refuse` of a PATCH; `RunScan`, `Reset`, `Crash` |
| `GuardedScripts` | a single or bulk bash script against a changing account | `live` the account, `at`/`step` the position in the script, `done` the counters `COMPLETED` and `SKIPPED`; `met`, `destroyed` are history | one action per AWS call or question, a failing twin of each, `Change` for everybody else |

How they compose: `ScanRunner` commits what `ScanEngine` decides (a final status or
an exception).  `ScanEngine` implements `AtomicScan`, whose `applied` is the
`complete` argument of `Findings!RunScan`.  The cells of one of `ScanEngine`'s tasks
are what `RegionDetection` produces: its `Detect(i, cell)` takes any cell, and
`RegionDetection` says what is true of a complete one.  That module takes the
threads of one region alone, since the keys of the memo hold the region;
`ScopedProvider` has the memo under threads that do share a key.
`PriceLookups` is the estimate of each candidate, `PriceCalculator` its arithmetic.
`FindingRace` splits the atomic steps of `Findings` into reads and writes, with the
same rules; `GuardedScripts` starts from the findings that `FindingRules` declares
eligible.  `DemoHistory` provides the settings and the past that the others start
from.

The `MC...` modules only name small constants.  Definitions marked `Mutant:` are
deliberately wrong variants of a neighbour, used to show that a property notices
such a bug; no specification uses them.

Abstractions that matter:

- `Findings`: a time unit is a fraction of a day (`TicksPerDay`), scans start at
  strictly increasing instants; the detector's report is arbitrary within its
  cells.
- `FindingRace`: SQLAlchemy's unit of work updates the columns whose value
  changed since the read; the row lock is held from the flush to the commit, so
  flush and commit are one step.  One row, READ COMMITTED.
- `ScanRunner`: a database commit is one step; the status `"completed"` stands for
  completed and partial, which the runner treats alike.  The identity refresh
  happens after the commit and can raise a `ProviderError` (caught inside) or
  something else (fault `"identity"`, state `"refresh_raised"`).
- `ScanEngine`: the calls inside a detector are one step with an arbitrary
  outcome; the two `ProviderError` kinds that matter (permission missing, region
  unavailable) are cell statuses.  Lists of regions keep the places of their
  entries when some are dropped.
- `RegionDetection`: a resource is its identity, its state and what is attached to
  it; ids are born once and die once; a listing shows each page as of its own
  request.  Prices, tags (but those of CloudFormation) and texts are left out.
- `PriceLookups`: a scan prices its candidates in one thread, because the cache's
  keys hold the region and a region is one thread.  (A region listed twice in the
  settings is two threads; that scan fails anyway, see divergence 4.)
- `PriceCalculator`: prices and quantities are integers, where the code has exact
  decimals.
- `DemoHistory`: a scan is its commit; dates are days.  A load and the save after it
  are two steps for every writer but the API's start, which only stores the
  defaults when there is no row.  `SettingsService` keeps no reference to the record
  it has loaded, and SQLAlchemy's session holds records weakly, so `save()` looks
  for the row again: it inserts one if a reset has taken it, and fails (`Crash`,
  `Refuse`) if its own load inserted one and another has come.
- `GuardedScripts`: a call may fail although the resource exists; `"call"` are
  the calls under `set -e` or tested by `if`, `"tags"` those inside `check_tags` of
  the bulk script, where `set -e` has no effect.  The two calls for an address's
  instance and interface are one.

## Runs

Distinct states and times are for the configurations here, with two workers.  A run
marked "violation" ends in a counterexample to what a document says.

| Run | Configuration | States | Shows |
|---|---|---|---|
| `findings` | `MCFindings.cfg` | 434,000 | `CountsMatchHistory`, `StreakUninterrupted`, `ResolvedByFirstAbsence`, `GuardedScriptJustified`; `Findings` implements `FindingLifecycle` |
| `scan_runner` | `MCScanRunner.cfg` | 536,000 (2½ min) | `SingleFlight`, `OneRunningRow`, `FinishedIsFinal`, `WaitedScanIsFinished`, and the liveness of `ScansEnd` and `RequestsAnswered`, with every fault: crashes, failing database, failing threads, resets, an exception of the identity refresh |
| `scan_engine` | `MCScanEngine.cfg` | 107,000 | `OnlySeenIsReconciled`, `StatusTellsCoverage`, `ScanEnds`; `ScanEngine` implements `AtomicScan` |
| `finding_race` | `MCFindingRace.cfg` | 668,000 | `RowTellsHistory`, `DismissalOutlivesScan` with one scanner and two patchers that may outlast whole scans |
| `scoped_provider` | `MCScopedProvider.cfg` | 20,000 | `OneAnswerPerKey`, `NoSecondLoad`, `CallsReturn` |
| `guarded_scripts` | `MCGuardedScripts.cfg` | 25,000 | `DestroyedWasFree`, `ReportsAreTrue`, `SnapshotPrecedesDeletion` |
| `pricing` | `MCPriceLookups.cfg` | 253,000 | `HitsSuffice`, `EstimateIsMethodology`, `KnownIsPriced` with two scans on PostgreSQL, failing API and cache, expiry, resets, and prices that change |
| `region_detection` | `MCRegionDetection.cfg` | 1,531,000 (2 min) | `CompleteMeansAllRead`, `CandidatesWereTrue`, `OwnershipHonest`, `MissingIsWarned`, and the liveness of `DetectionEnds` |
| `demo_history` | `MCDemoHistory.cfg` | 1,972,000 (1½ min) | `SeededInOrder`, `SettingsAsAcknowledged` through restarts that seed or do not, commands, crashes and two PATCH requests, every load and save apart |
| `scan_runner_crash` | `MCScanRunnerCrash.cfg` | violation | `ConflictMeansActive` fails after a crash |
| `guarded_scripts_tags` | `MCGuardedScriptsTags.cfg` | violation | `DestroyedWasFree` fails when a tag read fails in the bulk script |
| `pricing_cli` | `MCPriceLookupsCli.cfg` | violation | `ApiAnswerUsed` fails for a scan of the command line on SQLite |

Most runs also check the module's type invariant.

Why the bounds are enough.

- `findings`: two identities of different detectors in different cells exercise
  coverage of one cell and not the other; three instants with two ticks a day
  (not all of them a day apart) let a finding be seen, lost, found again and
  classified, with ages just below a day (half of one) and at it; one setting asks
  for a day and a single observation, the other for two observations of any age,
  so that each condition once decides alone.  Longer histories are
  covered by the proofs, which bound nothing.
- `scan_runner`: the conflict logic compares two scans; a third request arrives
  after the first two have finished or failed.  No symmetry, because liveness is
  checked.
- `scan_engine`: three regions for two threads, so that one waits; one region not
  enabled, one unknown to the account, lists empty, repeated and absent; two
  detectors, so that one can complete before the region turns out unavailable.
- `finding_race`: five instants allow resolve, reappear and resolve again around
  two patches that overlap each other and the scan.  A second scanner is a known
  divergence (7); `DismissalOutlivesScan` is proved for any number.
- `scoped_provider`: one thread loading, one waiting for it, one on another key;
  one change of the account distinguishes two loads.
- `guarded_scripts`: a volume and an address in every combination of use, ignore
  tag and stack tag; selections with a repetition, an ineligible finding and a
  finding of another account.  A target's processing touches no other target
  except through the counters, so two kinds and up to two targets suffice.
- `pricing`: requests that share a key and ones that nearly do (with and without
  an address, an excess or none), volumes below, at and above the included amounts
  and the tiers' ends, one region and one type the shipped table does not list;
  two scans, because a lost insert takes two; three instants with a lifetime of
  one, so that rows expire, and prices that differ at each.
- `region_detection`: two volumes on two pages, so that a page is throttled with
  another behind it and the account changes between them; one thing of every other
  kind; two attempts (the code has four), so that the last one and the one before
  both happen; three changes let a volume be attached, detached and deleted while
  it is looked at, two errors let one listing be denied and another fail.
- `demo_history`: three of the four seeding steps (first, inner and last); a
  second scan of each process is only reached through a reset, which empties the
  table; two requests and two thresholds, because a lost update takes two.  One
  command, because what matters is a writer beside the API's: the API starts with
  and without `CLOUDZOMBIE_DEMO_SEED` (`DemoSeed`), so each two of a command, a
  seeder and a request overlap.  After a writer has crossed another, or a seeding
  was disturbed, the bounds stop the requests and the scans until a reset.

Bounds by name: `Time` (`Findings`), `MaxClock` (`FindingRace`, `PriceLookups`,
`DemoHistory`), `MaxWorld` (`ScopedProvider`), `MaxErrors`, `MaxChanges`
(`RegionDetection`), `MaxScans` and the guards `InBounds` and `~crossed` of `Read`
(`DemoHistory`); everything else is finite by its nature.  Deadlock checking is
off where the system legitimately ends (all requests answered, the scan committed,
the detection returned, the script finished, the clock at its bound); it is on for
`scoped_provider`, `pricing` and `demo_history`, where somebody can always go on.

## Fairness

- `ScanRunner!FairSpec`: weak fairness of the step each request thread and each
  worker thread takes next: threads of a running process run, and the runner's
  lock is never held across a blocking call.  Nothing is assumed of crashes,
  restarts or resets, and every fault stays possible: `ScansEnd` says what remains
  then (a row stays `running` only if its process died or the failure could not be
  recorded either), `RequestsAnswered` excepts a process that is down.
- `ScanEngine!FairSpec`: weak fairness of the main thread and of the pool: botocore
  calls have timeouts, so a detector returns or raises.
- `RegionDetection!Spec`: weak fairness of the region's one thread, of which AWS's
  answers are a part: a request is answered, throttled or fails.  Nothing says that
  it is ever *not* throttled; `DetectionEnds` holds because attempts are counted.
- `ScopedProvider!FairProviderSpec`: weak fairness of a thread that can go on, and strong
  fairness of taking a key's lock: a `threading.Lock` that is free again and again
  is acquired eventually by each waiter.  Each waiter of a key needs at most one
  load before it, so bounded waiting in the code gives the same.
- `Findings`, `FindingRace`, `PriceLookups`, `DemoHistory` and `GuardedScripts` state
  no fairness: they are about what clients, users and other processes may do, and
  nothing obliges those.

## Proofs

TLAPS proves these for every value of the constants that satisfies the modules'
assumptions (which say what kind of things the constants are; four of them,
`ScriptsAssumption`, `RequestsAssumption`, `PricesAssumption` and
`DetectionAssumption`, are explained below).

| Module | Theorem | States |
|---|---|---|
| `FindingsProofs` | `TypeCorrect` | `TypeOK` |
| | `IInvHolds` | the inductive invariant |
| | `CountsAreHistory`, `StreaksAreUninterrupted`, `ResolutionIsFirstAbsence`, `GuardedScriptsAreJustified` | the four invariants of run `findings` |
| | `LifecycleImplemented` | `Findings` implements `FindingLifecycle` |
| `FindingRaceProofs` | `DismissalsOutliveScans` | `DismissalOutlivesScan`, for any number of scanners |
| | `RowIsHistory` | `RowTellsHistory`, for one scanner and any number of PATCH requests |
| `ScanRunnerProofs` | `TypeCorrect`, `OneScanInFlight`, `OneScanInTable`, `OutcomesAreFinal`, `WaitedScansAreFinished` | `TypeOK`, `SingleFlight`, `OneRunningRow`, `FinishedIsFinal`, `WaitedScanIsFinished`, under every fault |
| `ScanEngineProofs` | `TypeCorrect`, `SeenIsReconciled`, `StatusIsCoverage` | `TypeOK`, `OnlySeenIsReconciled`, `StatusTellsCoverage` |
| | `AtomicScanImplemented` | `ScanEngine` implements `AtomicScan` |
| `DetectionProofs` | `DetectionInvHolds` | the inductive invariant of `RegionDetection` |
| | `DetectionTyped`, `ReadsAll`, `CandidatesAreTrue`, `OwnersAreHonest`, `MissingIsSaid` | `TypeOK`, `CompleteMeansAllRead`, `CandidatesWereTrue`, `OwnershipHonest`, `MissingIsWarned`, for any account, changes, pages, throttles and failures |
| | `ProviderTypeCorrect`, `OneAnswer`, `LoadedOnce` | `ProviderTypeOK`, `OneAnswerPerKey`, `NoSecondLoad` of `ScopedProvider` |
| `PriceLookupsProofs` | `CalculatorIsMethodology` | `calculate()` is the methodology's sum, for any volumes, quantities, tiers and table |
| | `EveryHitSuffices`, `EstimatesAreMethodology`, `KnownArePriced` | `HitsSuffice`, `EstimateIsMethodology`, `KnownIsPriced`, for any accounts, prices, scans and faults |
| `DemoHistoryProofs` | `TypeCorrect`, `AcknowledgedIsStored`, `SeededHistoryInOrder` | `TypeOK`, `SettingsAsAcknowledged`, `SeededInOrder`, for any commands, requests and seeding plan |
| `GuardedScriptsProofs` | `TypeCorrect`, `ReportsTrue`, `SnapshotFirst` | `TypeOK`, `ReportsAreTrue`, `SnapshotPrecedesDeletion`, whatever fails |
| | `DestroyedMetItsGuards` | `DestroyedWasFree`, assuming that no failing tag read goes unnoticed (`"tags" \notin Faults`) |

**Findings.** The counters cannot be shown right from the row alone: the next
observation's `consecutive_observations + 1` is the size of the new streak only if
the observation is new, so nothing in the log may lie in the future.  The invariant
`IInv` adds to `TypeOK` and to the three properties on the log that every
observation and scan is dated at or before `now`, that only existing findings have
observations, that each log is finite (`LogInPast`), and that the stored persistence
and risk of a finding are those of its streak under the settings of the scan that
last observed it (`ClassifiedByLastScan`).
The step proof treats a scan by what happens to one row (seen or unseen, known or
new) and lifts it; patches and settings changes leave the log alone.
`GuardedScriptJustified` follows from the classification part, the definition of
eligibility, the first observation of the streak that `CountsMatchHistory` finds in
the log, and what an age in whole days is in ticks (`WholeDays`).

**FindingRace.** `DismissalOutlivesScan` needs only that an open transaction holds
what its reads decided (`PlainIsReobserved`): a scan that read an open or dismissed
row of an untagged resource leaves the status column unchanged and so does not
write it.  `RowTellsHistory` is not inductive, because a transaction commits
decisions about a row that has moved on.  `HInv` adds that the open scan's instant
is later than everything in the log, and that on the columns of the history what
it read is what the row still holds (`ScanAlone`), because a PATCH writes none of
them (`PatchesKeepHistory`).  The status may have changed meanwhile; that it decides
between continuing and starting a streak is why `ResolvedAfterAll` is needed (a row
that is resolved has an absence after every observation) and `Told`: as long as no
stale PATCH has `revived` a resolved row, status, `resolved_at` and
`streak_started_at` say whether the finding is gone, since the first absence, or of
which streak it is.  Both sides of the property are then the earliest element of a
set (`MinOfEarliest`).  With two scanners
`ScanAlone` fails, and so does the property (divergence 7).

**ScanRunner.** `SingleFlight` is not inductive by itself: a worker must belong to a
request that has left the lock (`WorkerHasRequest`), and a process that is down
must have neither (`DownIsIdle`), otherwise a crash or restart could resurrect a
second scan.  `OneRunningRow` needs the check of the table only, since `Create`
checks and inserts under one lock.  `OutcomesAreFinal` rests on the fact that a
worker before its commit or in the failure handler has an unfinished row
(`UnfinishedRow`), except the one whose identity refresh raised *after* the commit;
that exception is written into the property.  `WaitedScansAreFinished` needs the
opposite: a worker past its commit or its failure handler has a row that is final
or deleted (`EndedRow`), whichever way it got there, and no second `Create` can take
that row for a new scan.

**ScanEngine.** The parts of `IInv` say what a task has reported: its cells are those
of a prefix of the detectors, and a task that is done has all of them or ends in a
skipped one (`TasksReport`); there is a task for each runnable place of the selection
and no other (`TasksOfSelection`); nothing is applied or written before the commit
(`NothingBefore`), and what it wrote stays (`CommitIsLast`).  From these,
`Latest(r)` exists for each enabled region
(a non-empty finite set of places has a last one), a region is complete exactly if
every detector is in it (`CompleteRegion`), and failed only if none is.  That is
what `AtomicScan!Finish` demands of the commit; every other step maps to `GiveUp` or
to a stutter.

**RegionDetection.** No property speaks of the account as it is, for it may change
at any moment; they speak of `seen`, the states each thing has had since the scan
began.  `DetectionInv` says of everything the thread holds what it shows of `seen`:
of the pages read so far and of those still to be asked for (`CallTrue`), of the
remembered listings (`MemoTrue`), of the stack index (`IndexTrue`), of the
detector's local variables (`HeardTrue`) and of the cells (`CellsTrue`).  Its unit is
`Truthful(listing, items, flagged, history)`: each item mentions a thing in a state
of its history, no thing is mentioned twice, and a thing that was in one state all
the while is among them if the listing is about such things.  `seen` only grows, and
`Truthful` survives that (the `...Later` lemmas); hence a change of the account keeps all of it
(`ChangeKeeps`), and a listing that one detector read may serve a later one.
A page belongs to a thing for good, so that the answer to the next page neither
repeats nor passes over a thing (`CallTrue` compares the pages of what was read with
the next request); after a throttle the same page is asked for again.
`CellCompletes` turns what was heard into a cell (`CompleteCell`).  A tolerated failure
leaves its listing untold *and* warned of (`Excused` in `HeardTrue`), and the warning
is copied to every candidate.
Two lemmas stand in for induction over data: `SetToSeqLists` says what `SetToSeq`, by
which `RegionDetection` orders the stacks it asks for, yields of a finite set, and
`MaxExists` that a finite set of page numbers has a greatest one, by a
counterexample of least size (a theorem of `WellFoundedInduction` without operator parameters).
`DetectionAssumption` says that there are finitely many things, each of one kind,
that attachments join things of the right kinds and AWS keeps them legal, and that a
stack is not a page number (a request is one or the other); it says nothing of
how many pages, attempts, changes or failures there are.

**ScopedProvider.** (In `DetectionProofs` too, for a region's memo is such a
provider.)  `ProviderInv` says that a thread past the lock is the holder of its
key's lock (`Inside`), that a thread that loads found nothing remembered, and that
all answers given are the remembered one.  Together with the fact that a loaded
answer is never `Unset` (`LoadedIsSet`) this is inductive.

**PriceCalculator.** (In `PriceLookupsProofs`.)  The sums of the model are folds,
which take the elements of a set in the order `CHOOSE` has them, and the code and
the methodology sum over different sets: tiers there, single IOPS here.
`FoldExists` and `FoldSumsUp` say that the fold's recursion has a solution and that
it sums up in every order (`SumsUp`), by a smallest counterexample
(`LeastExists`, `SmallestSet`) where one would use an induction.  `OneTier` says that
each provisioned IOPS falls into exactly one tier of a list that begins at zero and
has neither gap nor overlap (`IsTiers`), `TierGrows` that one IOPS more is one more
in its tier and none in the others, and `TiersChargeEach` puts them together.
`CalculatorIsMethodology` adds the amounts that gp3 includes and the addresses.

**PriceLookups.** A row says only which prices it has, not for whom they were loaded
and when.  `IInv` says that each row holds what is loaded for *some* request of its
key at the time its payload tells (`LoadedUnder`), as does what a scan prices with,
and that a scan about to store carries what is loaded for its own request; two
requests of one key then load the same, of the same region (`SameKeySuffices`,
`KeyHasRegion`), and `calculate()` looks at nothing else (`OnlyNeedsMatter`).  So
Price never fails for want of a unit and answers with the sum at the list of that
time (`LoadedPrices`).  `SameKeySuffices` is about the key's hash,
which the model takes as injective on what is hashed.  `RequestsAssumption` says
what the detectors build (a volume's request has no address, and so on).
`PricesAssumption` says of what AWS publishes that each list is complete and its
tiers have no gap, which the code does not check, and of the shipped table what
`fallback_prices.json` shows: it lists us-east-1, every region has the price of an
address, and a region that lists gp3 lists its IOPS and throughput too.  TLC
evaluates both for the constants of the run.

**DemoHistory.** What was told must be what a *load* would give (`ToldLoaded`), not
what the row holds: before the first start and after a reset there is no row and a
load gives the defaults.  What a writer holds must be a document (`Held`), and it
may save only what it has read: if the document is not as it was when the writer
loaded it, the save crosses another's, so that each save either keeps what was told
(`StartKeeps`, `DateStores`, `AnchorKeeps`, `PatchKeeps`) or ends the claim.
`SeededInOrder` speaks of the table only; `InOrder` ties it
to the process that fills it.  A seeder about to run its step finds exactly the
marked scans of the steps before, one about to mark finds its own scan last
(`InProgress`), so marking never misses and never takes another's.  Every anchor
is past (`Placed`), so that what is scanned later is dated later (`Later`), and the
document has the anchor of the scans already while they are being made (`Dated`),
until a writer crosses another.
The steps that leave the table alone share one lemma (`Frame`).  The order of the
dates uses that `DaysBefore` decreases (`HistoryAssumption`).

**GuardedScripts.** That a completed target is one deletion more needs that what was
destroyed is gone and stays so (a repeated target then fails its first check), and
that only a script with a single target can abort after the account was verified
(`Counted`, `Snapshots`).  `DestroyedWasFree` follows from `Judged`: while the target
still exists, it has met what it meets now and every condition whose guard lies
behind the current step.  The exception is the bulk script's tag reads, which is
divergence 2.  `ScriptsAssumption` says what `SelectSeq` yields of a selection (a
non-empty sequence of resources): what a recursive function computes for every input
is beyond this prover, so it is an assumption, which TLC evaluates for the
selections of the run.

Only model-checked: everything about liveness (the prover has no rule for fairness
here).  The type invariants of `FindingRace` and `PriceLookups` hold under TLC in the
same configurations but are not part of the runs; the proofs establish the parts
of them they need (`Shape`).

## Known divergences

Where what the code does and what its documents say, or what one would expect,
differ.  The first three have a run that shows it.  Four conditions of properties stand
for others (`revived`, `crossed`, `cut` and `disturbed`): without `~revived` in
`RowTellsHistory`, or one of the rest in `SeededInOrder` or `SettingsAsAcknowledged`,
TLC finds the counterexample in the configuration of the run.

1. **A crash blocks all later scans** (`scan_runner_crash`).  `docs/api.md:68`: 409
   means "Another scan is active".  A process that dies in a scan leaves a
   `running` row; nothing at start-up ends it and `start()` refuses because of it.
   So does a thread that cannot be started (`LaunchFails`; `current_scan_id` stays
   set, too) and a failure that cannot be recorded.
2. **The bulk script's tag checks fail open** (`guarded_scripts_tags`).
   `docs/security-model.md:33` says that scripts verify ignore and CloudFormation
   tags.  `check_tags` runs inside `if ! reason="$(...)"`, where bash ignores
   `set -e`; a failing `describe` leaves an empty value that passes both tests.
3. **A command line scan on SQLite discards the prices the API answers**
   (`pricing_cli`).  `docs/pricing.md:7-10`: first the API, then the table.  Such a
   scan flushes its own row (`engine.py:188-189`) and so holds SQLite's write lock;
   the price cache's own session then cannot store (`cache.py:73`), the exception
   counts as a failure of the API backend and the fallback table is used.  A scan
   of the API has committed its row before and is not affected.

Scans and findings:

4. *A region listed twice in the settings fails the scan.*
   `docs/architecture.md:363`: failed only "if identity failed or no region ran".
   Only the request's list is deduplicated (`engine.py:219`); the second reconciliation
   violates `uq_finding_observation_scan`.  The configured list of the run
   `scan_engine` has a repetition: `ObservedTwice` leads to `Raise`.
5. *A scan whose every region is unavailable is `completed`*: `run_scan` asks whether
   any region was runnable, `docs/architecture.md:363` says failed when no region
   ran.  `AtomicScan` and `StatusTellsCoverage` are stated accordingly.
6. *A PATCH can undo a resolution, and with it the new streak.*
   `docs/observation-model.md:12,27,28`: an absent finding
   "becomes resolved", re-observing it "clears resolution, restarts the streak".  A
   PATCH that read `open` before the resolving scan committed writes `dismissed`
   after it (`finding_service.py:131`).  The next scan that sees the resource
   continues the row (`history.py:148-153`): `streak_started_at` stays before the
   absence, `resolved_at` stays set, and `compute_persistence` counts the days of
   the absence.  Only `consecutive_observations` starts anew.  `RowTellsHistory`
   excepts the status and these two dates from such a PATCH (`revived`) to the
   resolution and reappearance after it.
   The shortest such history: a PATCH reads `open`; the scan at 2 misses the
   resource and commits; the PATCH commits; the scan at 3 sees it.
7. *A command line scan beside an API scan loses an observation.*
   `docs/observation-model.md:13`: the "Lifetime number of scans".  Both read the
   same counter and the later commit writes it.  `RowTellsHistory` is checked and
   proved for one scanner.
8. *A dismissal is overwritten by a scan that sees the ignore tag.*
   `DismissalOutlivesScan` is stated for untagged resources; with a tag,
   `reconcile()` read `open`, writes `ignored`, and a dismissal committed in
   between is lost.
9. *Settings changes do not reclassify.*  `docs/architecture.md:92-94` defines
   `persistent` by the thresholds; the API shows the state computed at the last
   observation beside the new thresholds.  `GuardedScriptJustified` speaks of the
   settings of the last observing scan.
10. *An unexpected exception of the identity refresh rewrites a committed scan as
    failed* (`scan_runner.py:88`); it is the exception in `FinishedIsFinal`.

Detection:

11. *A volume born after the volumes were listed is missing*: the snapshot detector
    uses the volumes the first detector had listed (the memo).  A snapshot of a
    volume created since is reported with a missing source
    (`snapshot_missing_source.py:36-45`).  `CandidatesWereTrue` excepts that.
12. *A warning about stacks is lost* when the region becomes unavailable after the
    index failed to load: the early return (`engine.py:126`) passes the line that adds
    it.  `MissingIsWarned` is about the candidates' own warnings.
13. *A stack deleted between the listing of stacks and that of its resources* makes
    the whole index unavailable: all candidates of the region are then "not
    evaluated", which `OwnershipHonest` allows.
14. *An unexpected exception in `_load_index`* marks the index as loaded and
    unavailable without a warning (`resolver.py:25`); the detectors after the failing
    one report ownership as not evaluated for no stated reason.
15. *A stopped instance whose volumes may not be listed* is priced from no volumes:
    nothing, with confidence HIGH.  The candidate carries the warning that
    `MissingIsWarned` demands; the estimate does not know of it.

Demo mode and settings:

16. *An interrupted seeding is never completed.*
    `README.md:230`: "Demo mode seeds four scans".  `seed_if_empty` asks whether any
    scan exists, so after a crash between two scans a part of the history is all
    there will be (`cut` in `SeededInOrder`).
17. *Two seeders, or a scan of the command line during the seeding*, mix their scans
    (`disturbed` in `SeededInOrder`).
18. *Writers of the settings overwrite each other.*
    `docs/api.md:26`: PATCH updates settings.  A PATCH (`router.py:340-350`), a
    command that finds no anchor (`cli.py:36-40`) and a seeder
    (`demo_seeder.py:32-37`) each load the whole document and save the whole of it;
    what another commits in between is lost, acknowledged or not.  Two PATCHes lose
    an update; a command that starts, or `demo seed`, beside the API loses a PATCH,
    although it changes no setting.  `database.py` sets no isolation level: SQLite's
    driver opens no transaction for the load, PostgreSQL runs READ COMMITTED.
    `SettingsAsAcknowledged` holds until then (`crossed`).
19. *The anchor is overwritten in the same way.*
    `docs/architecture.md:160`: it is "set by the demo seeder".  A command that has
    loaded the document before the seeder's commit saves its own anchor over the
    seeder's; a PATCH that read before a reset and a new seeding saves the old one.
    `SeededInOrder` speaks of the document's anchor until then.
20. *A PATCH cannot set the regions back to automatic*: `exclude_none`
    (`router.py:341`) drops the null that would.

Scripts:

21. *"No action performed." after a snapshot*: `abort()` prints it also when the
    operator had a snapshot created and then mistyped the phrase
    (`templates.py:25,106`).  `ReportsAreTrue` claims only that nothing was deleted.
22. *A failing call ends the whole bulk script*: without a summary and without the
    remaining targets, while `docs/remediation.md` says that an invalid or changed
    resource is marked SKIPPED and processing continues.  In the model these are
    the `"exited"` endings, of which no property demands a summary.

## Not modelled

- Details of detection that no property is about: evidence, titles, tags and the
  ignore rule's comparison (its verdict is a field of a candidate in `Findings`),
  name tags, the mapping of AWS fields beyond identity, state and attachments.
- The AWS provider's operation guard and construction of clients: set-up without
  state.  Its parsing of price documents is the choice of units `Load` brings.
- The demo provider: answers from a file.
- Validators and rendering of scripts: regular expressions and text.  The remediation
  plan is rendered from one finding and changes nothing.
- Overview, history, narrative, listing: read-only aggregations.
- Two scanners that insert the same new finding, or that lock the rows of several
  findings in different orders: `FindingRace` follows one existing row.
- Migrations, configuration, container, CI, frontend rendering: no protocol of
  their own.  The frontend's polling of a scan ends when `ScansEnd` lets it.
- Validation of settings, one value at a time.

## Plan

Done, in the order of what matters most:

1. Core: `FindingRules`, `Findings` ⇒ `FindingLifecycle`, `ScanRunner`,
   `ScanEngine` ⇒ `AtomicScan`, `ScopedProvider`, `FindingRace`, `GuardedScripts`,
   with proofs.
2. The parts a scan is made of: `RegionDetection` (detectors, ownership,
   dependencies, pagination), `PriceCalculator` and `PriceLookups`, and around it
   `DemoHistory` (seeding and settings).

Left:

3. `FindingRace` with insertion by two scanners and two rows with their locks.
4. A settings change in the middle of a scan, in `Findings`.
5. `Overview`: its sums against the rows, as pure operators.
