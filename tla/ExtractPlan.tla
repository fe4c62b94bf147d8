---------------------------- MODULE ExtractPlan ----------------------------
(***************************************************************************)
(* What an extract step reads: the days to catch up on since the last      *)
(* checkpoint, the predicate of each day, the work units the rows are      *)
(* split into, and the global limit the driver enforces while it streams   *)
(* the units, in whatever order workers deliver them.                      *)
(*                                                                         *)
(* A predicate is the set of days it admits; every day of a file source is *)
(* one file.  META.CHECKPOINTS is written outside the repository, from     *)
(* what a run reports: here it follows every run that ends.                *)
(***************************************************************************)
EXTENDS Integers, Sequences, FiniteSets, FiniteSetsExt

CONSTANTS
    LastDay,      \* days are 1 .. LastDay
    DayOf,        \* [rows of the source -> their day]
    Hash,         \* [rows -> hash of the row]
    Columns,      \* columns selected
    MaxCells,     \* MAX_CELLS_PER_WORKER
    MinRows,      \* MIN_ROWS_PER_WORKER, and rows a file worker should have
    Settings,     \* [source, mode, key, limit, workers, kept] of a step; key says
                  \* which update_key: a file time, the partition date, any other
                  \* column ("range"), or none
    MaxRuns       \* runs of the dataset

VARIABLES
    setting,      \* the configuration of the step
    recorded,     \* checkpoint_end_value of the last record, 0 if none
    recordedType, \* its checkpoint_type, UPDATE_KEY if there is none
    runs,         \* runs started
    plan,         \* target partitions of the run that are left
    length,       \* target partitions the run had
    start, end,   \* the checkpoint in memory
    where,        \* sql_context.main.where: days it admits
    streaming,    \* the driver is in the loop over the batches
    units,        \* work units not yet delivered
    split,        \* work units of the current partition
    rows,         \* rows written for the current partition
    first,        \* history: day of the first run that reported, 0 if none
    done,         \* history: rows written by any partition so far
    skipped       \* history: later days of a database run, narrowed away

epVars == <<setting, recorded, recordedType, runs, plan, length, start, end, where, streaming,
            units, split, rows, first, done, skipped>>

Days == 1 .. LastDay
Rows == DOMAIN DayOf
RowsOf(days) == {r \in Rows : DayOf[r] \in days}
Unlimited == 0

ExtractAssumption ==
    /\ LastDay \in Nat
    /\ IsFiniteSet(Rows) /\ DayOf \in [Rows -> Days] /\ Hash \in [Rows -> Nat]
    /\ Columns \in Nat /\ MaxCells \in Nat \ {0} /\ MinRows \in Nat \ {0}
    /\ \A s \in Settings :
         s \in [source : {"database", "file"}, mode : {"delta", "cdc", "snapshot", "full_refresh"},
                key : {"range", "partition_date", "mtime", "none"},
                limit : Nat, workers : Nat, kept : SUBSET Days]

-----------------------------------------------------------------------------
(* Which rows *)

\* _resolve_target_partitions
TargetPartitions(date, since) ==
    IF setting.mode # "delta" \/ since = 0 \/ since >= date
    THEN <<date>>
    ELSE [i \in 1 .. date - since |-> since + i]

\* Defect: the lower bound of a range excludes the day of the checkpoint.
FilterExclusive(since, until, day) ==
    CASE setting.key = "none" -> Days
      [] setting.key # "none" /\ recordedType = "LSN_OFFSET" ->
            {d \in Days : (since = 0 \/ d > since) /\ (until = 0 \/ d <= until)}
      [] setting.key = "partition_date" /\ recordedType = "UPDATE_KEY" -> {day}
      [] setting.key = "mtime" /\ recordedType = "UPDATE_KEY" ->
            {d \in Days : since = 0 \/ d >= since}
      [] OTHER -> {d \in Days : (since = 0 \/ d > since) /\ d < day + 1}

\* build_incremental_filter: the type of the checkpoint comes first, then the
\* name of the update key.  An offset is read from after the checkpoint on; a
\* range reads the day of the checkpoint again; a file time is compared with
\* the midnight that day began with.  (The type in memory is the recorded one:
\* only CDC changes it, after its only partition.)
IncrementalFilter(since, until, day) ==
    CASE setting.key = "none" -> Days
      [] setting.key # "none" /\ recordedType = "LSN_OFFSET" ->
            {d \in Days : (since = 0 \/ d > since) /\ (until = 0 \/ d <= until)}
      [] setting.key = "partition_date" /\ recordedType = "UPDATE_KEY" -> {day}
      [] setting.key = "mtime" /\ recordedType = "UPDATE_KEY" ->
            {d \in Days : since = 0 \/ d >= since}
      [] OTHER -> {d \in Days : (since = 0 \/ d >= since) /\ d < day + 1}

\* Snapshots and full refreshes have no predicate.
Predicate(day) ==
    IF setting.mode \in {"snapshot", "full_refresh"} THEN Days
    ELSE IncrementalFilter(start, end, day)

-----------------------------------------------------------------------------
(* Who reads them *)

\* Defect: a source smaller than one budget gets no worker.
NoLeastWorker(total) == (total * Columns) \div MaxCells

\* parallelize: the cell budget, then the floor of rows per worker.
NumWorkers(total) ==
    LET wanted == IF setting.workers > 0 THEN setting.workers
                  ELSE (total * Columns) \div MaxCells
        floored == IF wanted > 0 /\ total \div wanted < MinRows
                   THEN total \div MinRows ELSE wanted
    IN Max({1, floored})

\* _partition_load: shard i of n reads the rows whose hash is i modulo n.
\* The limit is part of the query the shards wrap, so each of them draws its
\* own limit of rows before it looks at the hash.
Draws(window) ==
    IF setting.limit = Unlimited \/ Cardinality(window) <= setting.limit
    THEN {window} ELSE kSubset(setting.limit, window)

Counted(window) ==
    IF setting.limit = Unlimited THEN Cardinality(window)
    ELSE Min({setting.limit, Cardinality(window)})

Shards(window, n) ==
    {{{r \in draw[i] : Hash[r] % n = i} : i \in 0 .. n - 1} :
        draw \in [0 .. n - 1 -> Draws(window)]}

Load(files) == Cardinality(RowsOf(files))

\* min(buckets, key=load): the first of the least loaded.
Lightest(buckets) ==
    CHOOSE i \in DOMAIN buckets :
        \A j \in DOMAIN buckets :
            \/ Load(buckets[i]) < Load(buckets[j])
            \/ Load(buckets[i]) = Load(buckets[j]) /\ i <= j

Larger(f, g) == Load({f}) > Load({g}) \/ (Load({f}) = Load({g}) /\ f < g)

\* _balance_workload: the largest file first, to the worker that is the
\* lightest with the larger files.
BalanceWorkload(files, n) ==
    {a \in [files -> 1 .. n] : \A f \in files :
        a[f] = Lightest([i \in 1 .. n |-> {g \in files : Larger(g, f) /\ a[g] = i}])}

FileWorkers(files) ==
    Min({Max({1, IF setting.workers > 0 THEN setting.workers ELSE Load(files) \div MinRows}),
         Cardinality(files)})

-----------------------------------------------------------------------------
\* get_latest_checkpoint: the record of the last run that wrote one.
GetLatestCheckpoint == recorded

StartRun(date) ==
    /\ runs < MaxRuns /\ plan = <<>> /\ ~streaming
    /\ runs' = runs + 1
    /\ start' = GetLatestCheckpoint /\ end' = 0
    /\ plan' = TargetPartitions(date, GetLatestCheckpoint)
    /\ length' = Len(plan')
    /\ where' = setting.kept
    /\ rows' = {} /\ split' = {}
    /\ UNCHANGED <<setting, recorded, recordedType, streaming, units, first, done, skipped>>

\* One partition of a database: the predicate is added to the where clause of
\* the step, which the partitions of a run share; without a predicate the
\* clause compiles to "(...) AND (None)" and the statement fails.
PlanDatabase ==
    /\ setting.source = "database"
    /\ where' = where \cap Predicate(Head(plan))
    /\ LET n == NumWorkers(Counted(RowsOf(where')))
       IN \E shards \in Shards(RowsOf(where'), n) :
            units' = shards \ {{}} /\ split' = shards

\* One partition of a file source: each selects its own files.
PlanFiles ==
    /\ setting.source = "file"
    /\ LET files == {d \in Predicate(Head(plan)) : RowsOf({d}) # {}}
           n == FileWorkers(files)
       IN /\ files # {}
          /\ \E a \in BalanceWorkload(files, n) :
               split' = {RowsOf({f \in files : a[f] = i}) : i \in 1 .. n}
          /\ units' = {RowsOf(setting.kept) \cap b : b \in split'} \ {{}}
    /\ UNCHANGED where

Runnable == setting.source = "database" /\ setting.mode # "delta" /\ setting.mode # "cdc"
               => setting.kept = Days

PlanPartition ==
    /\ plan # <<>> /\ ~streaming
    /\ Runnable
    /\ PlanDatabase \/ PlanFiles
    /\ streaming' = TRUE /\ rows' = {}
    /\ UNCHANGED <<setting, recorded, recordedType, runs, plan, length, start, end, first, done, skipped>>

\* No file for the day (TryAgainLater) or a statement that cannot run: the
\* step fails, nothing is reported.
PlanFails ==
    /\ plan # <<>> /\ ~streaming
    /\ ~Runnable \/ (setting.source = "file" /\ RowsOf(Predicate(Head(plan))) = {})
    /\ plan' = <<>>
    /\ UNCHANGED <<setting, recorded, recordedType, runs, length, start, end, where, streaming, units, split,
                   rows, first, done, skipped>>

-----------------------------------------------------------------------------
\* Defect: the batch that crosses the limit is passed on whole.
SliceNothing(batch, room) == {batch}

\* df.slice(0, allowed_rows): any allowed_rows of the batch.
Slice(batch, room) == kSubset(room, batch)

\* One round of the loop over the batches.
TakeBatch ==
    /\ streaming /\ units # {}
    /\ setting.limit # Unlimited => Cardinality(rows) < setting.limit
    /\ \E u \in units :
         IF setting.limit # Unlimited /\ Cardinality(rows) + Cardinality(u) > setting.limit
         THEN /\ \E s \in Slice(u, setting.limit - Cardinality(rows)) : rows' = rows \cup s
              /\ units' = {}
         ELSE rows' = rows \cup u /\ units' = units \ {u}
    /\ UNCHANGED <<setting, recorded, recordedType, runs, plan, length, start, end, where, streaming, split,
                   first, done, skipped>>

\* Generators exhausted, or the driver stopped asking.
Drained ==
    /\ streaming
    /\ units = {} \/ (setting.limit # Unlimited /\ Cardinality(rows) >= setting.limit)

\* The report of a partition, and the checkpoint the next one starts from;
\* the maximum of the chunks never reaches it (its key has another name).
ReportedEnd == IF end # 0 THEN end ELSE Head(plan)

\* update_checkpoint
UpdatedType == IF setting.mode = "cdc" THEN "LSN_OFFSET" ELSE "UPDATE_KEY"

\* A later day of a database run whose days have an upper bound: the clause
\* still holds the bounds of the days before.
Narrowed ==
    /\ setting.source = "database" /\ Len(plan) < length
    /\ setting.key \in {"range", "partition_date"}

EndPartition ==
    /\ Drained
    /\ streaming' = FALSE /\ units' = {}
    /\ plan' = Tail(plan)
    /\ done' = done \cup rows
    /\ start' = Head(plan) /\ end' = Head(plan)
    /\ recorded' = IF Len(plan) = 1 THEN ReportedEnd ELSE recorded
    /\ recordedType' = IF Len(plan) = 1 THEN UpdatedType ELSE recordedType
    /\ first' = IF first = 0 /\ Len(plan) = 1 THEN Head(plan) ELSE first
    /\ skipped' = IF Narrowed THEN skipped \cup {Head(plan)} ELSE skipped
    /\ UNCHANGED <<setting, runs, length, where, split, rows>>

Init ==
    /\ setting \in Settings
    /\ recorded = 0 /\ recordedType = "UPDATE_KEY" /\ runs = 0 /\ plan = <<>> /\ length = 0 /\ start = 0 /\ end = 0
    /\ where = {} /\ streaming = FALSE /\ units = {} /\ split = {} /\ rows = {} /\ first = 0
    /\ done = {} /\ skipped = {}

Next ==
    \/ \E date \in Days : StartRun(date)
    \/ PlanPartition \/ PlanFails \/ TakeBatch \/ EndPartition

-----------------------------------------------------------------------------
\* The days a partition owes to its reader: everything in a snapshot or
\* without an update key, in an increment what lies between the last
\* checkpoint and the partition.
Owed(day) ==
    setting.kept \cap
    CASE setting.mode \in {"snapshot", "full_refresh"} \/ setting.key = "none" -> Days
      [] setting.mode = "cdc" /\ recorded # 0 /\ setting.key # "none" -> {d \in Days : d > start}
      [] OTHER ->
            {d \in Days :
                /\ setting.key \in {"mtime", "range"} => d >= start
                /\ setting.key = "range" => d <= day
                /\ setting.key = "partition_date" => d = day}

\* What the days of a database run that went before have left of the clause:
\* of a range the last day of the first window, once; of a date nothing.
Left ==
    IF ~Narrowed THEN Days
    ELSE IF setting.key = "range" /\ Len(plan) = length - 1 THEN {start} ELSE {}

\* When a partition has been streamed, exactly the rows it owes have been
\* written, whatever the order of the units; with a limit never more than
\* that many, and that many if one worker reads them.  Units do not overlap.
\* The later days of a database run get only what the clause of the first day
\* has left: of a range its last day once more, and nothing after that.
WindowExact ==
    Drained =>
        LET owed == RowsOf(Owed(Head(plan)) \cap Left) IN
        /\ rows \subseteq owed
        /\ setting.limit = Unlimited => rows = owed
        /\ setting.limit # Unlimited =>
             /\ Cardinality(rows) <= setting.limit
             /\ \A u \in split : split = {u} /\ u # {} =>
                   Cardinality(rows) = Min({setting.limit, Cardinality(owed)})
        /\ \A u, v \in split : u # v => u \cap v = {}

\* Without a limit a checkpoint is never ahead of the data, but for the later
\* days of a database run whose days are bounded: every other row up to the
\* recorded day has been written by some run, from the first day that was ever
\* loaded if the first run loads one day.  (The run steps over those days;
\* only the last of them are in the next window again.)
CheckpointBehindData ==
    setting.limit = Unlimited /\ setting.mode \in {"delta", "cdc"} =>
        \A r \in RowsOf(setting.kept) :
            /\ DayOf[r] <= recorded /\ DayOf[r] \notin skipped
            /\ setting.key = "partition_date" => DayOf[r] >= first
            => r \in done
=============================================================================
