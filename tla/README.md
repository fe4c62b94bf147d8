# Verification of the ingestion engine

TLA+ models of the ingestion engine of `data-ops-toolkit`
(`src/apps/ingestion`) and of the libraries it stands on (`src/libs`), TLC
configurations that check them on small instances, and TLAPS proofs for every
value of their constants.

## 1. The system

The engine runs *task runs*: a run takes one dataset partition through the
steps `start`, `extract`, `transform`, `write`, `publish` (`archive`). One
engine process owns the runs and dispatches every step to a Ray worker process.
They share only what is on disk: a queue and a cache (diskcache), a workspace
folder per run with its `manifest.json`, and a folder of signal files.

| Component (under `src/apps/ingestion/src/core` unless noted) | State | Operations | What makes it correct |
| :--- | :--- | :--- | :--- |
| `TaskManager`, `orchestrator/common/task/manager.py` | `active_tasks` | enqueue, dispatch, reap, conclude, apply | a run is in one place; it ends with a verdict |
| Outcomes, `task/outcome.py` | manifest, markers | success, progress, retry, blocked, failed (a rollback is never reached) | no step is skipped; retries are bounded |
| `TaskCache`, `task/cache.py` | entry per run keyed by status and step | get, transition_state | a reader finds the entry under the status it expects |
| `TaskQueue` and `libs/queue/priority/diskcache.py` | queue and processing namespaces | push, pop_by_key, pop, ack, nack, cleanup | a message is delivered at least once, never dropped |
| Executor, `task/executor.py`, `task/session.py` | worker process | execute_stage, process_stage_task | the retry is counted before its marker is removed; hooks run as written |
| Daemon runtime, `modes/daemon/*` | `stop_at_ts`, event, three threads | control loop, poll and trigger, recovery sweep | no wake-up is lost; a stop ends; a verdict is handled |
| Commands and signals, `modes/daemon/commands.py`, `common/signals.py` | files in one folder | process_commands, dispatch | a command runs at most once |
| Orchestrator and Janitor, `common/orchestrator.py`, `common/janitor.py` | folders and vaults | start_job, abort_job, quarantine, recover_task, purge | only what was to be removed is removed |
| Telemetry, `common/state/*` | records, stream file, staged batches | apply_update, refresh, flush | a report is true; an update is loaded once |
| Service health, `services/health/monitor.py`, `libs/resilience/circuit_breaker.py` | shared breaker state | monitor, record_failure, reset, probe | an outage opens the breaker, a recovery closes it |
| Host gate, `services/health/system.py`, `task/compute.py` | cached report, cooldown | is_disk_blocked, has_capacity | open only for a disk that has room |
| Timeout monitor, `task/timeout.py` | ref-counted cache | create_timeout_state, release | a budget comes from one query |
| Configuration, `contexts/builder/*` | merged dicts | build | the most specific layer wins, for every dataset |
| Extract, `stages/extract/*`, `services/database.py`, `services/file.py` | checkpoint, predicate, work units | plan, stream | every row once, no checkpoint ahead of the data |
| Transform, `stages/transform/*` | folders of sub-steps | execute | what is reported is what lies there |
| Write and publish, `stages/write/*`, `stages/publish/*` | vault, staging table, production | load, setup, promote | columns and rows land once; a promotion can be repeated |
| Metadata repository, `services/repo/metadata.py` | `META.*` tables | checkpoints, schema log, execution log | agrees with what happened |
| SQL compiler, `libs/database/sql` | none | select, count, insert, delete, update, exists | a statement touches the rows its predicates name |
| Pools, caches, registries, `libs/database/pool`, `libs/storage/cache`, `libs/metaclasses` | connections, entries, classes | lease, get/set/..., lookup | exclusive leases; interchangeable back ends; lookups find |
| Network doctor, `libs/network` | results | run, get_passed | healthy means that every required check passed |

How they interact. The poll thread calls `start_job`, which creates the
workspace and pushes a message. The engine thread loops over: commands, signal
files, `process_completed_steps` (one `_conclude_outcome` and
`_apply_outcome_resolution` per finished worker) and `dispatch` (a scan over a
snapshot of the queue). A worker loads the cache entry, rotates it to RUNNING,
runs one stage, writes its payload into the manifest and returns. The driver
derives the outcome from result and manifest, rotates the entry again, writes a
signal file and pushes the run back or concludes it.

What is hard here: two processes rotate the same cache entry; every hand-over
(pop, submit, ack, reap, re-enqueue) is several writes with a possible crash in
between; exceptions of the reconciliation are logged, and the run is dropped
without a verdict; retries, resumes and deaths nest; wall-clock comparisons
decide when a retry runs; the
circuit breaker is shared by all workers without a lock. The list with lines is
in `PROJECT.json` under `hazards`.

## 2. Modules

| Module | Models | Kind |
| :--- | :--- | :--- |
| `TaskLifecycle` | `common/task/{manager,outcome,cache,executor,session,queue}.py`, `contexts/task.py`, `common/{orchestrator,signals,janitor}.py`, `modes/daemon/{runtime,manager}.py` | component |
| `PipelineContract` | what the engine promises of a run | abstract specification of `TaskLifecycle` |
| `ServiceBreaker` | `services/health/monitor.py`, `libs/resilience/circuit_breaker.py` | component |
| `DiskcacheQueue` | `libs/queue/priority/diskcache.py` | component |
| `DaemonEngine` | `modes/daemon/*`, `common/{signals,orchestrator}.py`, `common/state/{hub,store,models}.py`, `eventbus.py`, `cli/utils.py` | composition of the daemon's threads, the command line and the workers |
| `StateSink` | `common/state/{sink,hub}.py`, bulk load | component |
| `LoadPath` | the four data stages of several runs over one ClickHouse sink, and the clean-up | composition of the stages |
| `TimeoutCache` | `task/timeout.py` | component |
| `ConnectionPool` | `libs/database/pool/*` | component |
| `HostGate` | `services/health/system.py`, `task/compute.py` | component |
| `ConfigTrees`, `ConfigResolution` | `contexts/builder/*`, `libs/utils/dict.py` | data type; algorithm against a reference definition |
| `ExtractPlan` | `stages/extract/*`, `contexts/task.py`, query and file splitting of the services | component |
| `FrameColumns`, `TableContract` | flattening, names and metadata columns of a frame; `write/execution/load.py`, schema log | algorithm; component |
| `SqlCompile` | `libs/database/sql/*` | algorithm against a reference semantics |
| `CacheBackends` | `libs/storage/cache/*` | three back ends against one interface |
| `StageHooks` | `stages/contracts/stage.py`, `extras/hooks/*` | component |
| `TransformSteps` | `stages/transform/*` | component |
| `RunFolders` | `models/task/{manifest,workspace}.py`, `common/janitor.py` | component |
| `RunReport` | `common/state/{source,models}.py`, `models/task/manifest.py`, `task/session.py` | component |
| `Registries` | `libs/metaclasses/*`, `services/factory.py` | component |
| `NetworkDoctor`, `NetworkChecks` | `libs/network/*` | component; the checks the facade registers |
| `CoreUnits` | pools, host gate, timeouts, registries, folders, transformation, caches, network doctor, reports, extract, target table and hooks side by side | instances of the parts that are proved about |
| `TaskLifecycleProofs`, `ServiceBreakerProofs`, `DiskcacheQueueProofs`, `DaemonEngineProofs`, `StateSinkProofs`, `LoadPathProofs` | the module each is named after | theorems |
| `UnitProofs`, `StorageProofs` | `CoreUnits`: pools, gate, timeouts, registries, network doctor, reports; folders, transformation, caches, extract, target table, hooks | theorems |
| `MCTaskLifecycle`, `MCLoadPath`, `MCConfig`, `MCUnits` | constants for TLC; `MCUnits` also holds the instances of the other parts that work on their own | instances |

### TaskLifecycle

State: `queued` and `processing` are the two namespaces of the queue; `meta[r]`
is the `TaskMetadata`, of which queue message, cache entry and worker hold a
serialisation; `keys[r]` are the `status::step` keys of its hot-cache entry;
`manifest`, `markers` and `folder` are the workspace; `signals` the signal
folder; `worker[r]` what the Ray task is doing (`"none"`: not in
`active_tasks`); `pc`, `snap`, `cur`, `dir` the position of the engine thread
in its loop, what is left of the snapshot it iterates over, the run it is
handling and the `OutcomeResolution` it applies.

One action per handler. `StartJob` is `start_job`, `ProcessSignal` the scanner
and its handlers, `Conclude` is `_conclude_outcome` with one operator per
outcome strategy, `Apply` and `ApplyFailed` are `_apply_outcome_resolution` and
its exception, `NotReady` and `Pop` are `_is_task_ready` and `pop_by_key`,
`dispatch_task` the cache rotation, submission and ack, `Resume` the RESUME
command, `Drain`, `DrainExit`, `Restart` and `Crash` the daemon's life. The
session of a worker is written step by step, because a worker may die between
any two of its writes: `WorkerStart` (the cache rotation), `CountRetry`,
`RemoveRetryMarker`, `BeginStage`, `SavePayload`, then `WorkerSucceeds` or
`WorkerErrors` (an exception may also come after the payload was saved), or
`WorkerHasNoConfig`.

`Conclude` has one operator for each way a reconciliation goes:
`SuccessOutcome`, `ProgressOutcome`, `FatalError`, `RetryOutcome` and
`BlockedOutcome` complete and rotate the entry; `ReconcileError`,
`RetryRefused` and `UnrecordedError` raise somewhere on the way, and
`_process_completed_steps` logs that and drops the run. Two of these need no
fault of the environment. `RollbackRequired` hands only its reason to
`Exception.__init__` (`exceptions.py:43-53`), so its pickle cannot be rebuilt
from what Ray carries: the driver sees a `TypeError` in place of a rollback
request, `RollbackOutcome` is never reached, every rollback stack stays empty,
and neither is in the module. And the errors that the outcomes for RETRY and
BLOCKED write are refused by `ErrorInfo` (`payload.py:18-28`), which requires
more fields, unless the stage recorded an error of its own before it raised.

`_handle_resume` looks at no status: `Resume` takes any run that nothing
handles, failed, dropped or successful. A RESUME for a run that is still live
would enqueue it a second time; that is in `DaemonEngine`, which counts messages.
A RESUME goes on at the step of the manifest: one that names a step fails, since
`Task` has no `update_manifest` (`runtime.py:239`).

Abstractions. Steps are numbers in execution order; disk space, Ray capacity
and the health of a service are free choices of each scan. The time of a retry
has three phases (`ahead`, `due`, `expired`), because `next_attempt_ts` is local
time and is compared with the epoch: the result depends on the UTC offset of
the host, a constant. A run has at most one message; several messages of a run
are in `DaemonEngine`. `recover_zombie_tasks` does nothing, because
`DiskCache.iterkeys` yields nothing (section 6).

### ServiceBreaker

One external service; the five cache keys of its breaker, the `.outage` file,
the `CircuitBreaker` object of each worker process, and the program point of
each worker and of the engine. Every read and write of the shared cache is an
action, since nothing locks the sequence. `Lazy` services are databases, whose
calls return generators: such a call and such a probe succeed without touching
the service. `Probed` says that a queued run is blocked by the service, which
is when the engine probes. Ages are reduced to what the code can tell apart:
whether a key is there, whether the five seconds of the debounce are over, and
whether a call has waited out the timeout of an open breaker (`waited`). The
last makes no difference in the code: `circuit_breaker.py:70` subtracts an epoch
from a monotonic clock, so that `Refuse` is the only way on, before the timeout
and after it (section 6).

### DiskcacheQueue

Messages, the two namespaces, and for every client its program point in pop,
ack, nack or cleanup, the ids it still has to visit (`todo`) and the message it
carries between the pop of one namespace and the write of the other (`hand`).
`pop_by_key` runs in a transaction and is one action. A key is unique per push,
so a message is its key, and the n-th delivery of `m` has the id `<<m, n>>`.
The order of the keys is left open: the comment in
`_get_first_queue_key` ("DiskCache's iterator returns keys in lexicographic
order") is not relied on, and the dispatcher sorts for itself. `cleanup`
collects the old keys of a namespace in one step; the code reads them one by
one, so the model deletes in every case where the code does.

### DaemonEngine

The engine thread (wait, commands, signals, submit), the poll thread (refresh,
start, evict), the command line and the workers, around the event flag, the
folder of command and signal files, the queue and the records. Listing, reading
and unlinking of command files are steps of their own, so that a file can be
replaced while it is being read. `EventBus.wait` returns for a notify or after
its timeout, and clears the flag in a step of its own: a notify that falls
between the two is erased. A poll may fail, and then keeps the records it had.
The command files are a set of records whose names order them by time; polls, operator
commands and restarts draw on budgets. What the task
manager does with a run is reduced to queued, running, returned, concluded;
`TaskLifecycle` has the rest.

### StateSink

Appenders open the stream and write to what they opened, wherever it has been
renamed to meanwhile; flushers check, rename, convert, load and archive. Opening
and writing may fail: `append` swallows that and the update is dropped. The
load may fail before or after it stored its rows, and the process may die
anywhere. A batch whose load failed stays where it is and is never loaded again.

### LoadPath

A row is owner, day, key and mark (`"live"` or `"deleted"`); a table counts the
copies of each row, since SQL inserts twice what it is given twice, and the
domain of `tables` is the catalog: a table that is not in it does not exist.
What a source may deliver for a day is the constant `Sources`. One action is one
statement another
process can see between. The configuration (mode, strategy, working table,
keys, soft delete, first load) is chosen by the first state from the scenarios
of `MCLoadPath`. The sink is ClickHouse, the only client whose bulk copy the
write stage can call.

### The parts of the run `units`

Each of these modules has its own `Init` and `Next`; the first state picks one
(`focus`), so that one run checks all of them. They share no state. Twelve of
them (`ConnectionPool`, `HostGate`, `TimeoutCache`, `Registries`, `RunFolders`,
`TransformSteps`, `CacheBackends`, `NetworkDoctor`, `RunReport`, `ExtractPlan`,
`TableContract`, `StageHooks`) are instances of `CoreUnits` with constants and
variables of their own, which is what the proofs need; `MCUnits` extends
`CoreUnits` and gives the other two, `ConfigResolution` and `SqlCompile`,
registers as variables.

- `TimeoutCache`: sections under the lock are actions, the query is between two.
  `StepOf` is the name a task's step is looked up by: a stage for a run that
  starts at its first step, a step id (`f'{stage}_{dataset_id}_data'`) for one
  that is recovered or starts at a later one, which no history has.
- `ConnectionPool`: both pools; `close_all` takes no lock, connection by connection.
- `HostGate`: a report with its time to live, the cooldown, the two gates;
  percentages at the edges of the thresholds; the gates are asked for every stage.
- `ConfigResolution`: trees of dicts, lists and scalars, a text is a constant or
  a reference; datasets are visited in any order over one copy of the defaults.
- `ExtractPlan`: a predicate is the set of days it admits; units arrive in any
  order. `META.CHECKPOINTS` is external: nothing in the repository writes it.
  The days of a catch-up share one clause when the source is a database, and
  each day adds its own conditions to it: `Left` is what is left of a later day,
  which the property states (`skipped`).
  The limit is part of the query that the shards wrap, so each shard draws its
  own rows before it looks at the hash: with several of them fewer rows than the
  limit may arrive, even none. Only a single shard fills the limit.
- `FrameColumns` and `TableContract`: names are sequences of words with their
  case, because collisions arise from how they are joined. How a frame is
  prepared is an algorithm and is in `FrameColumns`, recursively; the state
  machine gets its results as tables (`PreparedFrames`, `OwedColumns`), and what
  it relies on, that prepared columns have different names and none is missing,
  is `TableAssumption`, which TLC evaluates for every dataset and frame. The
  statements of the runs interleave. `replaced` (history) says that a create
  without DDL met a table that was there, whatever its columns.
- `SqlCompile`: conditions are tokens, evaluated with AND before OR. What the
  emptiness check answers is stated for queries that begin with WITH too, and a
  predicate the compiler does not know raises wherever it stands.
- `CacheBackends`: one abstract answer per operation, three stores. Where a store
  departs from the interface, the property states what it does instead, so that
  another departure would violate it. The methods that are several requests
  (a directory's `replace` and `delete`, `clear` of a namespace) are one action per request.
- `StageHooks`: the stack of open routines, which an exception leaves one by
  one; copying and deleting file by file. A file is a place, a name and a body:
  copying takes files of all sub-folders to `dst/<basename>`, where one of the
  same name is overwritten. A connection's copy by directory behaves so; local
  copytree and the removal of a whole directory are modelled file by file too.
  Files may arrive at any time: one that
  arrives between the copy and the delete is listed by the delete and lost, so
  `HooksAsWritten` speaks of the files that were there at first, and of hooks
  that copy before they delete and stop if the copy fails (`Careful`); of several
  files of one name it says that one is left. What a
  list of actions may come to (`Readings`) is a recursive function over lists and
  depths.
- `TransformSteps`: partitions one by one, deaths, inputs that are written again
  between two attempts, so that an attempt may come out empty where an earlier
  one has left files. That is more than the engine does at present, where no
  rollback gets through.
- `RunFolders`: workers read and replace a manifest while the janitor works
  folder by folder in another process.
- `RunReport`: a signal is handled after the manifest has moved on.
- `Registries`: imports by two threads, a module that cannot be imported.
- `NetworkDoctor`: any list of checks, registered one by one; all outcomes of
  all checks, with and without repair. `NetworkChecks` is the list the facade
  builds.

## 3. Runs

| Run | Instance | Shows |
| :--- | :--- | :--- |
| `lifecycle_one_run` | 1 run, 3 steps, all four exception kinds, retry limit 2, 1 block, 1 death, 2 resumes, 1 drain | types; a run is in one place; its cache entry is where the next reader looks; the retry budget, also if a worker dies between counting a retry and removing its marker; no step is skipped; a run is dropped only in the ways `DroppedOnlyAsKnown` lists; the engine implements `PipelineContract` |
| `lifecycle_liveness` | 2 runs, 3 steps, requested rollbacks, blocks, 1 resume, 1 drain | every admitted run ends, with a verdict or dropped as the property before says, and neither keeps the other from it |
| `breaker` | 2 workers and the engine, threshold 2, 2 failures, 1 death | the breaker never opens before the threshold; an open breaker fails fast until its timeout has been waited out; a service that is back for good gets its breaker closed for good |
| `queue_redelivery` | 1 message, 2 clients, 3 deliveries, 2 crashes | one copy; what is acknowledged never comes back; an expired delivery is given back or settled, if some client keeps calling `pop` |
| `daemon` | 1 run, forced stop, resume and recovery commands, 2 polls, 2 further events | an idle engine sleeps over no run that was announced; commands run at most once; a verdict reaches its record and the clean-up; a stop is noticed and ends |
| `telemetry_sink` | 3 updates, 2 appenders, 2 flushers (one thread is both), 2 faults, 1 death | a line is in one file unless its own append failed or died; nothing is loaded twice; what is archived is loaded; everything is loaded in the end, with the exceptions the property names |
| `load_path` | 2 runs, 2 days (deliveries {1}, {2} or {1, 2} for the first, {1, 2} for the second), 10 configurations, 1 fault, 1 new attempt | a vault holds what was reported; a confirmed day is whole; a promotion can be repeated; an undisturbed run is published |
| `units` | see `MCUnits` | one statement for each part: `BudgetOfOneQuery`, `PoolSound`, `GateTruthful`, `ConfigurationAsWritten`, `ExtractExact`, `ColumnsLand` (with the schema log), `RowsAsAsked`, `Interchangeable`, `HooksAsWritten`, `TransformReported`, `KeptUntilRemoved`, `ReportTruthful`, `LookupsFind`, `VerdictSound` |
| `doc_retry`, `doc_force_stop`, `doc_isolation`, `doc_vault` | the smallest that shows it | statements of the documentation that the code does not keep (section 6) |

Why the bounds are enough. One run is enough for everything that is about the
order of its own hand-overs, since runs share only the engine thread and the
snapshot; two runs (`lifecycle_liveness`) are the smallest instance in which a
snapshot is stale because of another run. Three steps give a first, a middle
and a last step. The retry limit of the code (3) is a constant, set so small
that it is hit, and the two resumes let a budget be reset with a marker left
over. In the breaker two workers are what a lost update needs. In the
queue messages do not interact; three deliveries let an id be settled after a
later one has been delivered. In the daemon two polls let a start and an
eviction meet, and two events let a command follow a restart or another
command. In the sink two flushes and three updates allow an append to straddle
a rename while the other flush is converting. In the load path two runs on the
same or on different days, one fault and one new attempt cover a promotion
interrupted and repeated while another one goes on. In `units` two actors
(three for the pool of two connections) interleave; the other bounds are one
above the first interesting case (two runs over four days, so that a catch-up
has a second and a third day; rows for units of at least two; two attempts of a
step).

Where an exception of a property is named in its comment ("unless ..."), the
code does otherwise there; section 6 lists these cases.

Deadlock is checked in the runs of the lifecycle, the breaker and the queue.
The daemon and the sink may come to rest, and the other models end when their
bounded inputs are used up.

### Fairness

- `TaskLifecycle`: the engine thread runs, a submitted worker ends (Ray runs
  what was submitted), time passes, an operator or a supervisor starts a
  stopped engine again. Strong fairness of `Pop`: disk pressure, saturation and
  outages come and go, and a message that is ready again and again is taken.
  The scan looks at every message of the queue, so this needs nothing of the
  other runs. Transient errors are left out of the liveness run: a retry may be
  refused for ever (`doc_retry`).
- `ServiceBreaker`: a call that has begun ends, the engine goes through its
  loop and probes while a run is blocked, expiries expire. Nothing is assumed
  of workers starting calls.
- `DiskcacheQueue`: an operation that has begun goes on. Nothing is assumed of
  clients starting one: that some client comes to the recovery in `pop` again and
  again is a premise inside `Redelivered`. The engine itself takes messages with
  `pop_by_key` and never calls `pop`, so there the premise fails and an expired
  delivery stays where it is (section 6).
- `DaemonEngine`: the engine thread is scheduled and the deadline of a drain
  passes. Nothing is assumed of workers, the poll job or the operator; that
  workers return is a premise inside `StopEnds`, where it is needed. For
  `ForceStopNoticed` the poll job runs too, so that its violation is not for
  want of wake-ups.
- `StateSink`: scheduler jobs run again and again and a thread does not stop
  half-way.
- `LoadPath`: a worker goes on with its stage, and a stopped run is either
  tried again or given up.

## 4. Proofs

All theorems hold for every value of the constants that satisfies the named
assumption of the module (`ConstantsAssumption`, `BreakerAssumption`,
`QueueAssumption`, `EngineAssumption`, `SinkAssumption`, `LoadAssumption`,
`UnitAssumption`): any number of runs, steps, workers, messages, clients, days,
rows, threads and faults. The assumptions say that limits are natural numbers,
that sets the code counts are finite, that sentinels are no members of the sets
they stand beside, and what shape a plan, a key or a list of classes has; TLC
evaluates each of them in a run.

| Theorem | States | Inductive invariant, and why it is needed |
| :--- | :--- | :--- |
| `TypeCorrect` | `Spec => []TypeOK` | `TypeOK` itself |
| `EveryRunInOnePlace` | `Spec => []OnePlace` | `PlaceInv`: with `SnapshotQueued`, because the dispatch scan pops what its snapshot names |
| `CacheAlwaysFollows` | `Spec => []CacheFollowsTask` | `CacheInv`: needs `OnePlace`, which excludes that worker and driver rotate the same entry at once |
| `RetriesBounded` | `Spec => []RetryBudget` | `RetryOf`: where a marker stands that a session may still count, the count is below the limit, however earlier sessions died; the worker between the count and the removal is the exception that makes it inductive |
| `StepsInOrder` | `Spec => []StepOrder` | `OrderInv`: also the directive under way leads only to steps whose predecessors are done (`SignalInv` under it: a `done` file stands for a run that has ended) |
| `EngineImplementsContract` | `Spec => ImplementsContract` | `OrderInv`; each action maps to one step of `PipelineContract` or to a stutter |
| `DropsAreKnown` | `Spec => DroppedOnlyAsKnown` | `OrderInv`: a run whose step succeeded and which is not complete has a next step, so that the `ValueError` of the outcome for progress cannot occur; the other ways to be dropped are read off the actions |
| `BreakerTypeCorrect` | `Spec => []TypeOK` | `TypeOK` |
| `NeverOpensEarly` | `Spec => []OpensOnlyAfterThreshold` | `OpenInv`: the shared count plus the number of failed calls not yet written never exceeds the failed calls, and neither does what a process has read |
| `AlwaysFailsFast` | `Spec => FailFast` | `TypeOK`, then step by step |
| `QueueTypeCorrect` | `Spec => []TypeOK` | `QueueInv` |
| `StoredOnce` | `Spec => []OneCopy` | `QueueInv`: with `Numbered`, the number of an id in processing is the number of deliveries, so that a delivery gets a fresh id within the bound |
| `GoneStaysGone` | `Spec => AckFinal` | `QueueInv` |
| `WakeupsAreNotLost` | `Spec => []NoLostWakeup` | `WakeupPending`: at every program point, what an idle engine has not submitted has the flag up or a submission ahead, whatever the clear erased; an engine with active tasks may sleep over it until the next event, and is excepted |
| `CommandsAreNotRepeated` | `Spec => []CommandsRunOnce` | `CommandInv`: files and batch carry different commands, what was read is still to be unlinked, and none of them was handled or lost |
| `EveryLineInOneFile` | `Spec => []InOneFile` | `SinkInv`: the partition of the lines with the program points (`OneHome`), the batch each flusher owns (`Batches`) |
| `ArchivedWasLoaded` | `Spec => []ArchivedLoadedOnce` | `SinkInv`, with what a converted batch holds (`Rows`) |
| `VaultHoldsReport` | `Spec => []VaultExact` | `VaultInv`: the vault while a stage writes it, before the report exists |
| `PromotionCanBeRepeated` | `Spec => []PromotionRepeatable` | `StageInv`: who owns which staging table at each point of write and publish |
| `ConfirmedDaysAreWhole` | `Spec => []ConfirmedDayWhole` | `DayInv`: a day is whole or some run that has not confirmed stands between the delete and the end of its insert |
| `LeasesAreExclusive` | `UnitsSpec => []PoolSound` | `PoolInv`: idle and leased connections are apart (`Apart`), as many as the limit allows (`Bounded`), and before a reset a positive size means that one is idle or in use (`Counted`) |
| `GateIsTruthful` | `UnitsSpec => []GateTruthful` | `GateInv`: the ages of report and cooldown against the readings they stand for |
| `BudgetsAreOfOneQuery` | `UnitsSpec => []BudgetOfOneQuery` | `CacheInv` of `UnitProofs`: the reference count covers the tasks at work; an entry is stored whole; what a task was given is resolved from it |
| `LookupsAlwaysFind` | `UnitsSpec => []LookupsFind` | `RegistryInv`: what was imported is registered, the rest of a walk is what is not; once loaded, everything is found or somebody loads |
| `KeptUntilAsked` | `UnitsSpec => []KeptUntilRemoved` | `FolderInv`: a folder that is missing is empty and nothing lies below one of ACTIVE (`Sound`); a run nobody asked to remove has its configuration in ACTIVE or in FAILED (`Safe`) |
| `ReportsWhatItHas` | `UnitsSpec => []TransformReported` | `TransformInv`: what lies in the folder after each partition of an attempt comes from the sources as they are; the nested folder has no file |
| `VerdictsFollowChecks` | `UnitsSpec => []VerdictSound` | `NetworkInv`: the registered list has each check once, after those it depends on (`Placed`); what had its turn has a result or was skipped, and whatever was skipped goes back to a required check that fell (`Turns`) |
| `ReportsAreTruthful` | `UnitsSpec => []ReportTruthful` | `ReportInv`: a step has a payload only after every step before it (`InOrder`, `Reached`); what was told last is how the manifest stands, unless a later decision took a failure back (`Told`) |
| `ExtractsAreExact` | `UnitsSpec => []ExtractExact` | `ExtractInv`: what is written and what is with the workers together are the rows the day owes (`InWindow`); the days of a catch-up follow the checkpoint (`Schedule`); all rows up to both checkpoints are there (`Caught`) |
| `ColumnsAlwaysLand` | `UnitsSpec => []ColumnsLand` | `TableInv`: each run works on its own frame (`Matched`), the columns it settled on stay in the table (`Filled`), and the log of schema changes is true and complete (`Truthful`, `Whole`) |
| `HooksRunAsWritten` | `UnitsSpec => []HooksAsWritten` | `HookInv`: what was executed of each open list, with any course of what is left of it, is a course of the whole list (`Stacked`); every delete still to come has its files kept elsewhere, or a copy before it that must succeed (`Guarded`) |
| `CachesStandIn` | `UnitsSpec => []Interchangeable` | `CacheKept`: a method between two requests works on names of its own handle, and on which store |

How the longer ones go. `StoredOnce` is argued message by message: four lemmas
say what picking up, putting down, removing and leaving alone do to the copies of
a message, and every action is one of them. `EngineImplementsContract` takes the
actions of the engine thread, of the workers and of the environment in three
lemmas: an action that leaves verdicts and payloads alone is a stutter, and the
others are a step of the contract for the run they touch. `EveryLineInOneFile` follows
a line through the rename of its file: an appender that opened the stream before
the rename writes into the staged batch. `ConfirmedDaysAreWhole` needs, for a
soft delete, that what a day's deliveries hold is comparable (`Comparable`), which
is a premise of the property itself: without it the property is false
(section 6). `CachesStandIn` reduces each action to one predicate
(`Allowed`) on the store before and after. `HooksRunAsWritten` first has to know
that the recursive function `Readings` satisfies its own equation
(`HookReading`). The induction theorems of the library take an operator and
cannot be used here, so `SetInduction` says the same of a set of numbers, from the
least number outside it; `Orbit` gives the sequence of values that a function
makes of a first one; `LevelExists` reads the readings of one depth off the orbit
of a table that is right for one more action each time; and six levels, one on
top of the other, make `Readings`, because routines open no deeper. After that no
induction is needed: a step only moves an action from what is left to what was
executed.

Only model-checked:

- Liveness (`AllRunsEnd`, `Recovers`, `Redelivered`, `VerdictHandled`,
  `StopEnds`, `EventuallyLoaded`, `UndisturbedRunPublishes`): the prover does not
  handle fairness.
- `ConfigurationAsWritten` and `RowsAsAsked`: what an algorithm returns for
  every tree or condition, in modules with recursive operators over them. Of
  `ColumnsLand`, what is proved is the part of the statements; that a frame is
  prepared well (`FrameColumns`) is `TableAssumption`, evaluated by TLC for the
  frames of the run.

## 5. Not modelled

Every part is listed with its status under `components` in `PROJECT.json`.

- Code that cannot run as it is: the memory, redis and SQL queues (abstract
  methods are missing), the regression extras (they use attributes the contexts
  no longer have), the alert digest (`AttributeError` at the first record),
  `Doctor.run_all` (`TypeError`), promotion to a file sink (`TypeError`).
- Code that nothing calls: `TimeoutBudget`, `cleanup_stale_cache` and
  `release_job_cache` of the timeout monitor, `StateStore.upsert` and `add`, the
  log-structured queue; and modules that are commented out (`registry.py`,
  `cache/factory.py`, `libs/file/file.py`, `file/skills/cas.py`).
- Trigger mode: it returns SUCCESS at once, before anything was recorded.
- Wire protocols of databases, object stores and HTTP services, file formats,
  encryption, logging, printing and argument parsing: I/O and layout without
  shared state.
- An extract of zero rows and API sources in `ExtractPlan`; the PEX subprocess
  and heartbeats of the executor.

## 6. Where code and documentation disagree

Shown by a run, quoted in `findings`:

- `doc_retry`: a run in RETRY whose `next_attempt_ts` passes while it is queued
  is never dispatched again (`manager.py:329` has the comparison reversed).
- `doc_force_stop`: a forced stop is not read while a task runs that does not
  return.
- `doc_isolation`: runs of a dataset share the configured working table.
- `doc_vault`: the clean-up of a run removes the vaults of its date.

Met while modelling, and kept as the code has them.

Engine and daemon:

- A requested rollback never happens: `RollbackRequired` cannot be rebuilt in
  the driver (`exceptions.py:43-53`), the `TypeError` is logged
  (`manager.py:471`) and the run is dropped. So is a run whose transient or
  blocked error no stage has recorded: `ErrorInfo` (`payload.py:18-28`) refuses
  the error that `outcome.py:195-201` and `233-248` write.
- RESUME takes a run in any state (`runtime.py:208-244`), also a successful one,
  and fails if it names a step.
- The zombie sweep finds nothing: `DiskCache.iterkeys` swallows its own
  `TypeError` and yields nothing. A run with `--from` a later step is dropped
  without verdict.
- `EventBus.wait` clears the flag after its timeout too (`eventbus.py:16-18`): an
  engine with active tasks may sleep over a run that was announced between, until
  the next result or event.
- Nothing calls `TaskQueue.pop`, which holds the recovery of expired deliveries:
  a message popped by a process that died stays in the processing namespace.
- The reversed comparison makes a host east of UTC dispatch a run in RETRY
  before its `next_attempt_ts`. The kill at midnight tests for 23:59:59
  (`task_lifecycle.md:96`). BLOCKED runs are never moved to `HOLD/`.
- The workspace of a failed run stays in `ACTIVE`: `orchestrator.py:130` tests a
  variable that only the success branch assigns (`task_lifecycle.md:74`).
- Command files named `RESUME_...` and `ADD_...` are deleted unheeded
  (`README.md:145`, `160` of the application). A `STOP.cmd` read while it is
  still empty turns a forced stop into a drain.
- Rows the sink has loaded carry no `RUN_ID`, so a poll sees the run as PENDING
  and starts it again, and the duplicate check of the admission looks up a key
  of another shape.
- `sink.py:44-47` says that no update is lost. An append that fails is dropped
  with a log line (`sink.py:89-95`), and the batches whose load failed are never
  loaded again.
- A FAILED that a late signal reported while the driver retries blocks all
  later updates but the final one.

Health, timeouts, pools, caches:

- Two failures in parallel may leave the breaker closed although the count has
  reached the threshold; the probe of a database succeeds without asking it,
  because a generator is judged unevaluated; an open breaker never admits a trial
  call, however long its timeout is over (`circuit_breaker.py:70` subtracts an
  epoch from a monotonic clock), where `circuit_breaker.py:20`, `28` and the test
  `test_circuit_breaker.py:76-96` expect one: only a probe of the engine or the
  expiry of its entries closes it;
  `.outage` may stand beside a CLOSED state (`monitor.py:84`).
- The p95 query filters the job column by job and by stage and finds nothing, so
  defaults apply; a run that is recovered or starts at a later step is looked up
  by its step id, which no history and no table of defaults has, and gets 1800
  seconds (`timeout.py:379-400`); the docstring of the query promises a clean-up nothing calls.
- A reset of the queue pool can strand a thread that waits with the lock in its
  hands; memory costs are compared with bytes of the cluster.
- The three caches differ. A directory lists nothing (`test_diskcache.py:58-72`
  says it does, of a class with other methods), so that clearing a namespace
  clears nothing; it counts all namespaces, and its `replace` stores without the
  time to live (`diskcache.py:171`). A dict takes expired entries for live ones in
  `add`, `replace` and `delete`. Redis drops the prefix in `get`, calls every
  `add` and `replace` done, and its `clear` deletes another key for one that
  repeats its namespace (`redis.py:217-221`).
- A second thread that looks up a class while the first imports is told it is
  missing; the service factory's docstring says singleton, each call makes a
  new instance.

Configuration, hooks, folders:

- Steps of `defaults.yaml` leak between the datasets of a job; an inline
  connection is overwritten by an inherited `service_ref`;
  `configuration_guide.md` says `${VAR}` is resolved on the worker, the builder
  resolves it on the driver.
- `{step.x}` in hooks renders the previous step; the condition of a hook is
  parsed under one name and read under another.
- A copy by a hook flattens sub-folders: of files of one name the last one is
  left, and a delete after it removes the others (`hooks.py:29`, `173-174`). A
  pattern is rewritten from `/*` to `/**/`, so that `inbox/*.csv` is looked up as
  `inbox/**/.csv` and finds nothing (`libs/file/clients/base.py`).
- `clean --dry-run` deletes; folders in FAILED are neither purged nor recovered
  in place (a recovery nests them); a vault folder may be taken for a workspace.

Stages and services:

- Predicates accumulate over the days of a catch-up (`database.py:241-247`), so
  the second and later days of a database read what the first day's clause still
  admits, often nothing, and the checkpoint moves past rows never written; a snapshot with a user's clause compiles
  `(...) AND (None)`; the limit is drawn per shard; the checkpoint lags a day in
  a catch-up; nothing writes `META.CHECKPOINTS`, and its reader and the extract
  stage use different keys; `primary_keys` never reaches the hash, which is
  taken over `*`.
- Transform: the example job (`job.yaml:112`) lets sub-steps read each other,
  the code raises for such a source; custom sub-steps lose their sources; the
  folder of sub-steps looks like a partition; `setup` and `teardown` of the SQL
  transformer are never called; an attempt with an empty input is saved as
  bypassed and leaves the files of an earlier attempt in its folder, unreported,
  and the flag for an empty input is never taken back.
- Write and publish: upserts never verify; a catch-up over several days never
  publishes (rows of one day against the total); DIRECT followed by publish
  would drop production; a promotion repeated after a death between drop and
  save cannot confirm; two first loads replace each other's table; soft delete
  marks rows of another run; two interleaved promotions of a day whose
  deliveries hold different records ({1, 2} and {1, 3}) can both confirm a day
  that holds a record twice, when rows are marked instead of deleted; a user's DDL is executed twice; a schema change
  whose recording failed is never recorded; ClickHouse types are all String.
- SQL: queries that begin with WITH count as empty and are refused as a filter,
  where `database.py:133` and `313` speak of CTEs that are handled; a delete
  with a list of predicates lacks WHERE, an unqualified table is looked for in
  `default`.
- Network: an optional check that failed makes the host unhealthy, where
  `pipeline.py:133` and `138` count only required ones; one check is registered
  twice.

## 7. Plan

The parts of the system that can run are modelled, and every safety property
that is within the prover's reach as the models stand is proved. What is left:

1. Action properties of `LoadPath` and `DaemonEngine`: what a promotion, or a
   command, may never undo.
2. Rollbacks, once `RollbackRequired` survives the way to the driver: the
   outcome, its stack of return steps and the repetition limit belong into
   `TaskLifecycle` and `RunReport` then, and so does a RESUME that names a step.
3. The algorithms that are defined by recursion: `FrameColumns`,
   `ConfigResolution` and `SqlCompile`. `SetInduction` and `Orbit` of
   `StorageProofs` show a way: with recursive functions in place of recursive
   operators, their equations can be proved, and what they return with them.
