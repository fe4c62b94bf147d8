----------------------------- MODULE CoreUnits ------------------------------
(***************************************************************************)
(* Twelve parts of the system that work on their own and share no state:   *)
(* the connection pools, the disk gate, the cache of stage timeouts, the   *)
(* registries, the folders of the runs, the transform step, the caches,    *)
(* the network doctor, the reports of a run, the extract step, the target  *)
(* table of a dataset and the hooks of a step.  The first state picks one  *)
(* of them (focus); the variables of the others stay 0.                    *)
(***************************************************************************)
EXTENDS Integers, Sequences, FiniteSets

VARIABLE focus

CONSTANTS Threads, MaxSize, MaxCloses
VARIABLES kind, idle, size, lock, place, conn, seen, alive, closing, closes
CP == INSTANCE ConnectionPool

CONSTANTS DiskReadings, MemReadings, Cooldown, Cluster, Costs
VARIABLES disk, mem, broken, report, ttl, cool, answer, granted, lowAge, pressAge
HG == INSTANCE HostGate

CONSTANTS Tasks, Stages, StepOf, MaxExpiries
VARIABLES entry, count, pc, got, queries, expiries
TC == INSTANCE TimeoutCache

CONSTANTS Importers, Provides, ImportOrder, Broken, Keys, MaxLookups
VARIABLES items, loaded, modules, thread, lookups, raced
RG == INSTANCE Registries WITH Threads <- Importers, Order <- ImportOrder

CONSTANTS Runs, Dates, MaxStarts, MaxCalls
VARIABLES date, seed, folder, vault, queued, worker, janitor, lockFile, starts, calls, made, asked
FO == INSTANCE RunFolders WITH lock <- lockFile

CONSTANTS Plans, PartitionDates, Versions, Nested, MaxAttempts
VARIABLES plan, emptyResult, data, pos, todo, files, metrics, payload, attempts
TS == INSTANCE TransformSteps WITH Dates <- PartitionDates

CONSTANTS Handles, UserKeys, Values
VARIABLES back, open, store, busy, last
CA == INSTANCE CacheBackends

CONSTANT Definitions
VARIABLES autoFix, given, checks, turn, results, skipped, fixed, verdict
ND == INSTANCE NetworkDoctor WITH pos <- turn

CONSTANTS Pipelines, RowCounts, MaxExecutions, MaxPolls
VARIABLES steps, manifest, phase, signals, record, reported, executions, polls
RP == INSTANCE RunReport WITH Rows <- RowCounts, report <- reported

CONSTANTS LastDay, DayOf, Hash, ColumnCount, MaxCells, MinRows, Settings, MaxRuns
VARIABLES setting, recorded, recordedType, runs, partitions, length, since, until, clause, streaming,
          units, split, extracted, firstDay, done, jumped
EP == INSTANCE ExtractPlan WITH Columns <- ColumnCount, plan <- partitions, start <- since,
                                end <- until, where <- clause, rows <- extracted,
                                first <- firstDay, skipped <- jumped

CONSTANTS TargetConfigs, SourceFrames, ExistingColumns, MaxReloads, PreparedFrames, MetaNames,
          OwedColumns
VARIABLES dataset, frame, table, spot, prepared, looked, lacking, landed, reloads, schemaLog,
          atFirst, replaced
TB == INSTANCE TableContract WITH Datasets <- TargetConfigs, Frames <- SourceFrames,
                                  Existing <- ExistingColumns, MaxTries <- MaxReloads,
                                  Prepare <- PreparedFrames, Meta <- MetaNames,
                                  Owed <- OwedColumns, place <- spot, seen <- looked,
                                  todo <- lacking, loaded <- landed, tries <- reloads,
                                  log <- schemaLog, start <- atFirst

CONSTANTS HookActions, HookConfigs, Routines, HookPlaces, HookFiles, LateFiles
VARIABLES hooks, hookPhase, stack, moving, raised, hookState, stored, appended, hookTries,
          hookLog
HK == INSTANCE StageHooks WITH Actions <- HookActions, Hooks <- HookConfigs,
                               Places <- HookPlaces, Sources <- HookFiles, Late <- LateFiles,
                               phase <- hookPhase, state <- hookState, files <- stored,
                               saved <- appended, attempts <- hookTries, outcome <- hookLog

ASSUME UnitAssumption ==
    /\ CP!PoolAssumption /\ HG!GateAssumption /\ TC!MonitorAssumption
    /\ RG!RegistryAssumption /\ FO!FolderAssumption
    /\ TS!PlanAssumption /\ CA!CacheAssumption
    /\ ND!DoctorAssumption /\ RP!ReportAssumption /\ EP!ExtractAssumption
    /\ TB!TableAssumption /\ HK!HookAssumption

poolVars == <<kind, idle, size, lock, place, conn, seen, alive, closing, closes>>
gateVars == <<disk, mem, broken, report, ttl, cool, answer, granted, lowAge, pressAge>>
timeoutVars == <<entry, count, pc, got, queries, expiries>>
registryVars == <<items, loaded, modules, thread, lookups, raced>>
folderVars == <<date, seed, folder, vault, queued, worker, janitor, lockFile, starts, calls,
                made, asked>>
transformVars == <<plan, emptyResult, data, pos, todo, files, metrics, payload, attempts>>
cacheVars == <<back, open, store, busy, last>>
networkVars == <<autoFix, given, checks, turn, results, skipped, fixed, verdict>>
reportVars == <<steps, manifest, phase, signals, record, reported, executions, polls>>
extractVars == <<setting, recorded, recordedType, runs, partitions, length, since, until, clause, streaming,
                 units, split, extracted, firstDay, done, jumped>>
tableVars == <<dataset, frame, table, spot, prepared, looked, lacking, landed, reloads,
               schemaLog, atFirst, replaced>>
hookVars == <<hooks, hookPhase, stack, moving, raised, hookState, stored, appended, hookTries,
              hookLog>>
coreVars == <<focus, poolVars, gateVars, timeoutVars, registryVars, folderVars, transformVars, cacheVars,
              networkVars, reportVars, extractVars, tableVars, hookVars>>

-----------------------------------------------------------------------------
NoPool ==
    /\ kind = 0 /\ idle = 0 /\ size = 0 /\ lock = 0 /\ place = 0 /\ conn = 0 /\ seen = 0
    /\ alive = 0 /\ closing = 0 /\ closes = 0
NoGate ==
    /\ disk = 0 /\ mem = 0 /\ broken = 0 /\ report = 0 /\ ttl = 0 /\ cool = 0 /\ answer = 0
    /\ granted = 0 /\ lowAge = 0 /\ pressAge = 0
NoTimeouts == entry = 0 /\ count = 0 /\ pc = 0 /\ got = 0 /\ queries = 0 /\ expiries = 0
NoRegistry == items = 0 /\ loaded = 0 /\ modules = 0 /\ thread = 0 /\ lookups = 0 /\ raced = 0
NoFolders ==
    /\ date = 0 /\ seed = 0 /\ folder = 0 /\ vault = 0 /\ queued = 0 /\ worker = 0
    /\ janitor = 0 /\ lockFile = 0 /\ starts = 0 /\ calls = 0 /\ made = 0 /\ asked = 0

NoTransform ==
    /\ plan = 0 /\ emptyResult = 0 /\ data = 0 /\ pos = 0 /\ todo = 0 /\ files = 0 /\ metrics = 0 /\ payload = 0
    /\ attempts = 0
NoCache == back = 0 /\ open = 0 /\ store = 0 /\ busy = 0 /\ last = 0
NoNetwork ==
    /\ autoFix = 0 /\ given = 0 /\ checks = 0 /\ turn = 0 /\ results = 0 /\ skipped = 0
    /\ fixed = 0 /\ verdict = 0
NoReports ==
    /\ steps = 0 /\ manifest = 0 /\ phase = 0 /\ signals = 0 /\ record = 0 /\ reported = 0
    /\ executions = 0 /\ polls = 0
NoExtract ==
    /\ setting = 0 /\ recorded = 0 /\ recordedType = 0 /\ runs = 0 /\ partitions = 0 /\ length = 0 /\ since = 0
    /\ until = 0 /\ clause = 0 /\ streaming = 0 /\ units = 0 /\ split = 0 /\ extracted = 0
    /\ firstDay = 0 /\ done = 0 /\ jumped = 0
NoTable ==
    /\ dataset = 0 /\ frame = 0 /\ table = 0 /\ spot = 0 /\ prepared = 0 /\ looked = 0
    /\ lacking = 0 /\ landed = 0 /\ reloads = 0 /\ schemaLog = 0 /\ atFirst = 0 /\ replaced = 0
NoHooks ==
    /\ hooks = 0 /\ hookPhase = 0 /\ stack = 0 /\ moving = 0 /\ raised = 0 /\ hookState = 0
    /\ stored = 0 /\ appended = 0 /\ hookTries = 0 /\ hookLog = 0

UnitsInit ==
    /\ focus \in {"pool", "gate", "timeouts", "registry", "folders", "transform", "cache",
                 "network", "report", "extract", "table", "hooks"}
    /\ IF focus = "pool" THEN CP!Init ELSE NoPool
    /\ IF focus = "gate" THEN HG!Init ELSE NoGate
    /\ IF focus = "timeouts" THEN TC!Init ELSE NoTimeouts
    /\ IF focus = "registry" THEN RG!Init ELSE NoRegistry
    /\ IF focus = "folders" THEN FO!Init ELSE NoFolders
    /\ IF focus = "transform" THEN TS!Init ELSE NoTransform
    /\ IF focus = "cache" THEN CA!Init ELSE NoCache
    /\ IF focus = "network" THEN ND!Init ELSE NoNetwork
    /\ IF focus = "report" THEN RP!Init ELSE NoReports
    /\ IF focus = "extract" THEN EP!Init ELSE NoExtract
    /\ IF focus = "table" THEN TB!Init ELSE NoTable
    /\ IF focus = "hooks" THEN HK!Init ELSE NoHooks

UnitsNext ==
    \/ /\ focus = "pool" /\ CP!Next
       /\ UNCHANGED <<focus, gateVars, timeoutVars, registryVars, folderVars, transformVars,
                      cacheVars, networkVars, reportVars, extractVars, tableVars, hookVars>>
    \/ /\ focus = "gate" /\ HG!Next
       /\ UNCHANGED <<focus, poolVars, timeoutVars, registryVars, folderVars, transformVars,
                      cacheVars, networkVars, reportVars, extractVars, tableVars, hookVars>>
    \/ /\ focus = "timeouts" /\ TC!Next
       /\ UNCHANGED <<focus, poolVars, gateVars, registryVars, folderVars, transformVars,
                      cacheVars, networkVars, reportVars, extractVars, tableVars, hookVars>>
    \/ /\ focus = "registry" /\ RG!Next
       /\ UNCHANGED <<focus, poolVars, gateVars, timeoutVars, folderVars, transformVars,
                      cacheVars, networkVars, reportVars, extractVars, tableVars, hookVars>>
    \/ /\ focus = "folders" /\ FO!Next
       /\ UNCHANGED <<focus, poolVars, gateVars, timeoutVars, registryVars, transformVars,
                      cacheVars, networkVars, reportVars, extractVars, tableVars, hookVars>>
    \/ /\ focus = "transform" /\ TS!Next
       /\ UNCHANGED <<focus, poolVars, gateVars, timeoutVars, registryVars, folderVars,
                      cacheVars, networkVars, reportVars, extractVars, tableVars, hookVars>>
    \/ /\ focus = "cache" /\ CA!Next
       /\ UNCHANGED <<focus, poolVars, gateVars, timeoutVars, registryVars, folderVars,
                      transformVars, networkVars, reportVars, extractVars, tableVars,
                      hookVars>>
    \/ /\ focus = "network" /\ ND!Next
       /\ UNCHANGED <<focus, poolVars, gateVars, timeoutVars, registryVars, folderVars,
                      transformVars, cacheVars, reportVars, extractVars, tableVars, hookVars>>
    \/ /\ focus = "report" /\ RP!Next
       /\ UNCHANGED <<focus, poolVars, gateVars, timeoutVars, registryVars, folderVars,
                      transformVars, cacheVars, networkVars, extractVars, tableVars,
                      hookVars>>
    \/ /\ focus = "extract" /\ EP!Next
       /\ UNCHANGED <<focus, poolVars, gateVars, timeoutVars, registryVars, folderVars,
                      transformVars, cacheVars, networkVars, reportVars, tableVars, hookVars>>
    \/ /\ focus = "table" /\ TB!Next
       /\ UNCHANGED <<focus, poolVars, gateVars, timeoutVars, registryVars, folderVars,
                      transformVars, cacheVars, networkVars, reportVars, extractVars,
                      hookVars>>
    \/ /\ focus = "hooks" /\ HK!Next
       /\ UNCHANGED <<focus, poolVars, gateVars, timeoutVars, registryVars, folderVars,
                      transformVars, cacheVars, networkVars, reportVars, extractVars,
                      tableVars>>

UnitsSpec == UnitsInit /\ [][UnitsNext]_coreVars

-----------------------------------------------------------------------------
(* What the parts promise; the modules say it in full. *)

\* A connection is leased to one thread at a time and open while it is used,
\* and no thread waits for a connection that nobody can return (lease, close_all).
PoolSound == focus = "pool" => CP!PoolSound

\* The disk gate opens only for a disk that was low within the life of a
\* report, and after the cooldown of the last pressure that either gate has
\* seen (is_disk_blocked, has_capacity).
GateTruthful == focus = "gate" => HG!GateTruthful

\* A running task's budget comes from one batched query, which is not dropped
\* while the task is counted, and its timeout from that query exactly if the
\* step it begins at is named after a stage (TimeoutMonitor).
BudgetOfOneQuery == focus = "timeouts" => TC!BudgetOfOneQuery

\* A lookup finds every class a working module registers (Registry).
LookupsFind == focus = "registry" => RG!LookupsFind

\* Data of a run is there until somebody asks for its removal (Janitor).
KeptUntilRemoved == focus = "folders" => FO!KeptUntilRemoved

\* A transform reports what lies in its folder (TransformStage).
TransformReported == focus = "transform" => TS!TransformReported

\* A cache answers like a dictionary of its own, but for departures that are
\* known of each back end (BaseCache).
Interchangeable == focus = "cache" => CA!Interchangeable

\* The verdict follows from the checks that ran (NetworkPipeline).
VerdictSound == focus = "network" => ND!VerdictSound

\* The report of a run agrees with its manifest (StateSource, TaskRecord).
ReportTruthful == focus = "report" => RP!ReportTruthful

\* A run extracts the rows of its window, each once, and a recorded
\* checkpoint never runs ahead of the data (ExtractStage).
ExtractExact == focus = "extract" => EP!WindowExact /\ EP!CheckpointBehindData
\* Every column of a loaded frame is in the target, under a name of its own,
\* and the columns that were added are on record (WriteStage, reconcile_schema).
ColumnsLand == focus = "table" => TB!ColumnsLand /\ TB!ChangesRecorded
\* Hooks run as their settings say, and lose no file but to another of its name
\* (HookRunner).
HooksAsWritten == focus = "hooks" => HK!HooksAsWritten
=============================================================================
