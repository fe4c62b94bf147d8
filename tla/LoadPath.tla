------------------------------ MODULE LoadPath ------------------------------
(***************************************************************************)
(* The road of one dataset's rows from the source to the production table: *)
(* the extract, transform, write and publish stages of several runs of the *)
(* same dataset, each run executed by its own worker process, over one     *)
(* ClickHouse sink (the only client whose bulk copy the write stage can    *)
(* call).                                                                  *)
(*                                                                         *)
(* One action is one statement that another process can see between: a     *)
(* directory reset, one partition written to the vault, one SQL statement, *)
(* one save of the manifest.  None of the SQL statements runs inside a     *)
(* transaction.  A stage attempt that raises, or whose worker dies, leaves *)
(* current_step_id alone: the run, if it is tried again, starts that stage *)
(* from its first line.                                                    *)
(*                                                                         *)
(* A row is <<owner, day, key, live>>: the run that extracted it (or Old,  *)
(* for what production held before), the value of update_key, the primary  *)
(* key, and "live" while _is_deleted is NULL.  A table is a bag of rows.    *)
(* Column schemas are the subject of module TableContract.  A transform    *)
(* that lets no row of a partition through leaves no file for it.          *)
(***************************************************************************)
EXTENDS Naturals, Sequences, FiniteSets, Bags

CONSTANTS
    Runs,          \* runs of the dataset
    Days,          \* values of partition_date / update_key
    Old,           \* owner of the rows production held before
    Scenarios,     \* <<configuration, partitions each run resolves>>
    MaxRows,       \* greatest key of a record
    Sources,       \* [Days -> sets of keys the source may hold for the day]
    MaxFaults,     \* worker deaths and failing statements
    MaxTries,      \* times a stopped run is started again
    NoPayload      \* a step that has saved no payload

Modes == {"full_refresh", "snapshot", "delta_update"}

Strategies == {"clone", "staging", "direct"}

Config == [mode: Modes, strategy: Strategies,
           named: BOOLEAN,    \* the write step names a working_table
           keyed: BOOLEAN,    \* the dataset names primary_keys
           soft: BOOLEAN,     \* soft_delete_missing (the default)
           fresh: BOOLEAN]    \* the production table does not exist yet

ASSUME LoadAssumption ==
    /\ IsFiniteSet(Runs) /\ IsFiniteSet(Days) /\ Old \notin Runs
    /\ Scenarios \subseteq Config \X [Runs -> (SUBSET Days) \ {{}}]
    /\ Sources \in [Days -> SUBSET ((SUBSET (1..MaxRows)) \ {{}})]
    /\ MaxRows \in Nat \ {0} /\ MaxFaults \in Nat /\ MaxTries \in Nat
    /\ \A rows \in SUBSET (Runs \X Days \X (1..MaxRows) \X {"live"}) : rows # NoPayload

VARIABLES
    cfg,        \* the dataset's configuration
    days,       \* [Runs -> partitions the run has to process]
    step,       \* [Runs -> current_step_id, or how the run ended]
    pc,         \* [Runs -> the next statement of the stage]
    loc,        \* [Runs -> local variables of the stage attempt]
    vault,      \* [Runs -> [vault stage -> rows in its Parquet files]]
    reported,   \* [Runs -> [vault stage -> rows of its payload]]
    staged,     \* [Runs -> payload of the write step]
    tables,     \* [table that exists -> bag of rows]
    born,       \* staging names generated so far (their timestamp)
    faults,     \* faults that happened
    tries,      \* [Runs -> times it was started again]
    open        \* history: [Runs -> days it changed and has not confirmed]

run == <<step, pc, loc, vault, reported, staged, tries, open>>
vars == <<cfg, days, run, tables, born, faults>>

-----------------------------------------------------------------------------
(* Tables and rows. *)

Target == 0
Working == 1
Generated(n) == 1 + n

catalog == DOMAIN tables

\* The function f, with v for x.
Put(f, x, v) == [y \in DOMAIN f \cup {x} |-> IF y = x THEN v ELSE f[y]]

VaultStages == {"extract", "transform"}
Steps == VaultStages \cup {"write", "publish"}

OwnerOf(row) == row[1]
DayOf(row) == row[2]
KeyOf(row) == row[3]
Live(row) == row[4] = "live"

OnDay(bag, d) == {row \in BagToSet(bag) : DayOf(row) = d}

\* The copies of rows in a table, told apart, and SELECT count(*) of them.
Copies(bag, rows) == UNION {{x} \X (1 .. bag[x]) : x \in BagToSet(bag) \cap rows}

CountOf(bag, rows) == Cardinality(Copies(bag, rows))
CountAll(bag) == CountOf(bag, BagToSet(bag))

Without(bag, rows) == [row \in BagToSet(bag) \ rows |-> bag[row]]

\* Rows whose key the source lacks are marked, the others stay.
MarkMissing(bag, d, keys) ==
    LET lost == {row \in OnDay(bag, d) : Live(row) /\ KeyOf(row) \notin keys}
        marked == [row \in {<<OwnerOf(x), d, KeyOf(x), "deleted">> : x \in lost} |->
                      bag[<<OwnerOf(row), d, KeyOf(row), "live">>]]
    IN Without(bag, lost) (+) marked

-----------------------------------------------------------------------------
(* Configuration. *)

\* A dataset that writes straight into production has no publish step.
Pipeline == IF cfg.strategy = "direct"
            THEN <<"extract", "transform", "write">>
            ELSE <<"extract", "transform", "write", "publish">>

NextStep(s) ==
    LET i == CHOOSE i \in DOMAIN Pipeline : Pipeline[i] = s
    IN IF i < Len(Pipeline) THEN Pipeline[i + 1] ELSE "done"

Policies == [full_refresh |-> <<"truncate", "insert">>,
             snapshot     |-> <<"delete", "insert">>,
             delta_update |-> <<"update", "insert">>]

\* soft_delete_missing is on unless the dataset turns it off.
MergeOps == Policies[cfg.mode] \o (IF cfg.soft THEN <<"soft_delete">> ELSE <<>>)

-----------------------------------------------------------------------------
NoLocals == [todo |-> {}, day |-> 0, op |-> 0, table |-> Target, rows |-> {},
             parts |-> <<>>]

PreLoaded == {<<Old, d, 1, "live">> : d \in Days}

Init ==
    /\ \E scenario \in Scenarios : cfg = scenario[1] /\ days = scenario[2]
    /\ step = [r \in Runs |-> "extract"]
    /\ pc = [r \in Runs |-> "idle"]
    /\ loc = [r \in Runs |-> NoLocals]
    /\ vault = [r \in Runs |-> [s \in VaultStages |-> {}]]
    /\ reported = [r \in Runs |-> [s \in VaultStages |-> NoPayload]]
    /\ staged = [r \in Runs |-> NoPayload]
    /\ tables = [t \in IF cfg.fresh THEN {} ELSE {Target} |-> SetToBag(PreLoaded)]
    /\ born = 0
    /\ faults = 0
    /\ tries = [r \in Runs |-> 0]
    /\ open = [r \in Runs |-> {}]

-----------------------------------------------------------------------------
(* What every stage shares. *)

At(r, s, place) == step[r] = s /\ pc[r] = place

Goto(r, place) == pc' = [pc EXCEPT ![r] = place]

\* The stage raises: save_stage_outcome records the error and the run stops.
Raise(r) ==
    /\ Goto(r, "stopped")
    /\ UNCHANGED <<step, loc, vault, reported, staged, tries, open>>

\* The stage returns _next_step: only now does current_step_id move.
Advance(r) ==
    /\ step' = [step EXCEPT ![r] = NextStep(step[r])]
    /\ Goto(r, "idle")
    /\ loc' = [loc EXCEPT ![r] = NoLocals]

Fault == faults < MaxFaults /\ faults' = faults + 1

DbUnchanged == UNCHANGED <<tables, born>>

Drop(t) == tables' = [x \in catalog \ {t} |-> tables[x]]

-----------------------------------------------------------------------------
(* Extract and transform: the vault. *)

\* Defect: the data directory is not wiped before the attempt writes to it.
KeepDataDir(r, s) == vault' = vault

\* workspace.reset_data_dir
ResetDataDir(r, s) == vault' = [vault EXCEPT ![r][s] = {}]

\* The extract stage resolves its partitions; the transform stage finds the
\* partition directories of its input.
PartitionsToProcess(r, s) ==
    IF s = "extract" THEN days[r] ELSE {DayOf(x) : x \in vault[r].extract}

VaultBegin(r, s) ==
    /\ At(r, s, "idle")
    /\ ResetDataDir(r, s)
    /\ loc' = [loc EXCEPT ![r] = [NoLocals EXCEPT !.todo = PartitionsToProcess(r, s)]]
    /\ Goto(r, "partition")
    /\ UNCHANGED <<cfg, days, step, reported, staged, tries, open, faults>>
    /\ DbUnchanged

\* One partition: files part_0 .. part_(n-1) of what the source holds now, or
\* the rows the transformation lets through (it may filter them all).
ExtractedRows(r, d) == {{<<r, d, k, "live">> : k \in keys} : keys \in Sources[d]}
TransformedRows(r, d) == {{x \in vault[r].extract : DayOf(x) = d}, {}}

VaultPartition(r, s) ==
    /\ At(r, s, "partition")
    /\ \E d \in loc[r].todo :
       \E out \in IF s = "extract" THEN ExtractedRows(r, d) ELSE TransformedRows(r, d) :
          LET files == vault[r][s] \cup out IN
          /\ vault' = [vault EXCEPT ![r][s] = files]
          \* extract adds up what it yields, transform reads the directory back
          /\ loc' = [loc EXCEPT ![r].todo = @ \ {d},
                                ![r].rows = @ \cup (IF s = "extract" THEN out
                                              ELSE {x \in files : DayOf(x) = d})]
    /\ UNCHANGED <<cfg, days, step, pc, reported, staged, tries, open, faults>>
    /\ DbUnchanged

VaultSave(r, s) ==
    /\ At(r, s, "partition")
    /\ loc[r].todo = {}
    /\ reported' = [reported EXCEPT ![r][s] = loc[r].rows]
    /\ Advance(r)
    /\ UNCHANGED <<cfg, days, vault, staged, tries, open, faults>>
    /\ DbUnchanged

-----------------------------------------------------------------------------
(* Write: reconcile_schema, then DataWriter.write for every partition.      *)

Incoming(r, d) == {x \in vault[r].transform : DayOf(x) = d}

\* Rendered from the upstream payload: all the partitions together.
ExpectedCount(r) == Cardinality(reported[r].transform)

WriteBegin(r) ==
    /\ At(r, "write", "idle")
    /\ loc' = [loc EXCEPT ![r] =
                 [NoLocals EXCEPT !.todo = {DayOf(x) : x \in vault[r].transform}]]
    /\ Goto(r, IF vault[r].transform = {} THEN "stopped"
               ELSE IF Target \in catalog THEN "load" ELSE "create")
    /\ UNCHANGED <<cfg, days, step, vault, reported, staged, tries, open, faults>>
    /\ DbUnchanged

\* setup_resource: CREATE OR REPLACE TABLE, some time after the check.
SetupResource(r) ==
    /\ At(r, "write", "create")
    /\ tables' = Put(tables, Target, EmptyBag)
    /\ Goto(r, "load")
    /\ UNCHANGED <<cfg, days, step, loc, vault, reported, staged, tries, open,
                   faults, born>>

\* The table the rows go to; a name is generated per call of write.
Destination ==
    IF cfg.strategy = "direct" THEN Target
    ELSE IF cfg.named THEN Working ELSE Generated(born + 1)

\* Defect: the clone carries the rows of production along.
ClonedWithRows == tables[Target]

\* clone() takes over the structure only (like_table).
Cloned == EmptyBag

\* The files of the partition are gone when they are to be read.
PartitionGone(r) ==
    /\ At(r, "write", "load")
    /\ \E d \in loc[r].todo : Incoming(r, d) = {}
    /\ Raise(r)
    /\ UNCHANGED <<cfg, days, faults>>
    /\ DbUnchanged

\* CLONE creates or replaces the destination, empty; STAGING expects it.
Prepare(r) ==
    /\ At(r, "write", "load")
    /\ \E d \in loc[r].todo :
         /\ Incoming(r, d) # {}
         /\ loc' = [loc EXCEPT ![r].day = d, ![r].table = Destination]
    /\ born' = IF Destination > Working THEN born + 1 ELSE born
    /\ tables' = IF cfg.strategy = "clone" /\ Target \in catalog
                 THEN Put(tables, Destination, Cloned) ELSE tables
    /\ Goto(r, IF cfg.strategy = "clone" /\ Target \notin catalog
               THEN "stopped" ELSE "copy")
    /\ UNCHANGED <<cfg, days, step, vault, reported, staged, tries, open, faults>>

\* Where stage() goes when it raises: only CLONE cleans up.
StagingFailed(r) == Goto(r, IF cfg.strategy = "clone" THEN "cleanup" ELSE "stopped")

\* The insert of the client fails for a table that does not exist.
TableExists(t) == t \in catalog

CopyFromFile(r) ==
    /\ At(r, "write", "copy")
    /\ IF TableExists(loc[r].table)
       THEN /\ tables' = [tables EXCEPT ![loc[r].table] =
                             @ (+) SetToBag(Incoming(r, loc[r].day))]
            /\ Goto(r, "count")
       ELSE StagingFailed(r) /\ UNCHANGED tables
    /\ open' = IF loc[r].table = Target
               THEN [open EXCEPT ![r] = @ \cup {loc[r].day}] ELSE open
    /\ UNCHANGED <<cfg, days, step, loc, vault, reported, staged, tries, faults, born>>

\* stage() verifies the count of the WHOLE table against the run's total.
StagedCountMatches(r) == CountAll(tables[loc[r].table]) = ExpectedCount(r)

VerifyStaged(r) ==
    /\ At(r, "write", "count")
    /\ IF loc[r].table \in catalog /\ StagedCountMatches(r)
       THEN LET d == loc[r].day IN
            /\ loc' = [loc EXCEPT ![r].todo = @ \ {d},
                                  ![r].parts = Put(@, d, CountAll(tables[loc[r].table]))]
            /\ Goto(r, "load")
            /\ open' = IF loc[r].table = Target
                       THEN [open EXCEPT ![r] = @ \ {d}] ELSE open
       ELSE StagingFailed(r) /\ UNCHANGED <<loc, open>>
    /\ UNCHANGED <<cfg, days, step, vault, reported, staged, tries, faults>>
    /\ DbUnchanged

DropStaging(r) ==
    /\ At(r, "write", "cleanup")
    /\ Drop(loc[r].table)
    /\ Raise(r)
    /\ UNCHANGED <<cfg, days, faults, born>>

WriteSave(r) ==
    /\ At(r, "write", "load")
    /\ loc[r].todo = {}
    /\ staged' = [staged EXCEPT ![r] = [table |-> loc[r].table, parts |-> loc[r].parts]]
    /\ Advance(r)
    /\ UNCHANGED <<cfg, days, vault, reported, tries, open, faults>>
    /\ DbUnchanged

-----------------------------------------------------------------------------
(* Publish: sink.promote for every partition of the write payload.          *)

\* get_publish_policy: an upsert without primary_keys is refused.
PublishBegin(r) ==
    /\ At(r, "publish", "idle")
    /\ IF cfg.mode = "delta_update" /\ ~cfg.keyed
       THEN Goto(r, "stopped") /\ UNCHANGED loc
       ELSE /\ Goto(r, "promote")
            /\ loc' = [loc EXCEPT ![r] =
                         [NoLocals EXCEPT !.todo = DOMAIN staged[r].parts,
                                          !.table = staged[r].table]]
    /\ UNCHANGED <<cfg, days, step, vault, reported, staged, tries, open, faults>>
    /\ DbUnchanged

\* _validate_schema_compatibility: both tables have to be there.
ValidateSchema(r) ==
    /\ At(r, "publish", "promote")
    /\ \E d \in loc[r].todo : loc' = [loc EXCEPT ![r].day = d, ![r].op = 1]
    /\ Goto(r, IF {Target, loc[r].table} \subseteq catalog THEN "merge" ELSE "stopped")
    /\ UNCHANGED <<cfg, days, step, vault, reported, staged, tries, open, faults>>
    /\ DbUnchanged

\* Defect: the delete of a promotion forgets its partition predicate.
MergedDeletingAll(op, d, source) ==
    LET old == tables[Target] IN
    CASE op \in {"truncate", "delete"} -> EmptyBag
      [] op = "insert" -> old (+) tables[source]
      [] op = "soft_delete" -> old

\* What one merge statement makes of production.
Merged(op, d, source) ==
    LET old == tables[Target] IN
    CASE op = "truncate" -> EmptyBag
      [] op = "delete" -> Without(old, OnDay(old, d))
      [] op = "insert" -> old (+) tables[source]
      [] op = "soft_delete" ->
           MarkMissing(old, d, {KeyOf(x) : x \in BagToSet(tables[source])})

\* The statements that fail before they change anything: the update template
\* of this dialect lacks an argument, soft_delete wants primary keys, and the
\* tables may be gone.
CanRun(r, op) ==
    /\ op # "update"
    /\ op = "soft_delete" => cfg.keyed
    /\ Target \in catalog
    /\ op \in {"insert", "soft_delete"} => loc[r].table \in catalog

Scope(d) == IF cfg.mode = "full_refresh" THEN Days ELSE {d}

ApplyMergeOperation(r) ==
    /\ At(r, "publish", "merge")
    /\ LET op == MergeOps[loc[r].op] IN
       IF CanRun(r, op)
       THEN /\ tables' = [tables EXCEPT ![Target] =
                             Merged(op, loc[r].day, loc[r].table)]
            /\ open' = [open EXCEPT ![r] = @ \cup Scope(loc[r].day)]
            /\ loc' = [loc EXCEPT ![r].op = @ + 1]
            /\ Goto(r, IF loc[r].op < Len(MergeOps) THEN "merge" ELSE "verify")
            /\ UNCHANGED <<step, vault, reported, staged, tries>>
       ELSE Raise(r) /\ UNCHANGED tables
    /\ UNCHANGED <<cfg, days, faults, born>>

\* Defect: the promotion is believed without counting.
BelievedPromoted(r) == TRUE

\* _verify_promotion
PromotedCountMatches(r) ==
    LET d == loc[r].day
        bag == tables[Target]
        seen == IF cfg.mode = "full_refresh" THEN BagToSet(bag)
                ELSE {x \in OnDay(bag, d) : Live(x)}
    IN Target \in catalog /\ CountOf(bag, seen) = staged[r].parts[d]

\* Defect: the staging table is dropped whether or not the promotion held.
AlwaysDropped(r) == "drop"

\* promote() drops its source in a finally, but only when it succeeded.
AfterFailedVerify(r) == "stopped"

VerifyPromotion(r) ==
    /\ At(r, "publish", "verify")
    /\ IF PromotedCountMatches(r)
       THEN /\ open' = [open EXCEPT ![r] = @ \ Scope(loc[r].day)]
            /\ Goto(r, "drop")
       ELSE Goto(r, AfterFailedVerify(r)) /\ UNCHANGED open
    /\ UNCHANGED <<cfg, days, step, loc, vault, reported, staged, tries, faults>>
    /\ DbUnchanged

DropSource(r) ==
    /\ At(r, "publish", "drop")
    /\ Drop(loc[r].table)
    /\ loc' = [loc EXCEPT ![r].todo = @ \ {loc[r].day}]
    /\ Goto(r, "promote")
    /\ UNCHANGED <<cfg, days, step, vault, reported, staged, tries, open, faults,
                   born>>

PublishSave(r) ==
    /\ At(r, "publish", "promote")
    /\ loc[r].todo = {}
    /\ Advance(r)
    /\ UNCHANGED <<cfg, days, vault, reported, staged, tries, open, faults>>
    /\ DbUnchanged

-----------------------------------------------------------------------------
(* The end of a run. *)

\* The date in the path of the run's vault: the last one it catches up on.
PartitionDate(r) == CHOOSE d \in days[r] : \A e \in days[r] : e <= d

SharesDate(r) == {q \in Runs : PartitionDate(q) = PartitionDate(r)}

\* workspace.delete removes the PARENT of data/job/dataset/date/run.
CleanupTask(r) ==
    /\ step[r] = "done"
    /\ step' = [step EXCEPT ![r] = "cleaned"]
    /\ vault' = [q \in Runs |-> IF q \in SharesDate(r)
                               THEN [s \in VaultStages |-> {}] ELSE vault[q]]
    /\ UNCHANGED <<cfg, days, pc, loc, reported, staged, tries, open, faults>>
    /\ DbUnchanged

-----------------------------------------------------------------------------
(* Faults and the retry of a stage. *)

\* The worker dies, or a statement raises before it has an effect.
Crash(r) ==
    /\ Fault
    /\ pc[r] \notin {"idle", "stopped"}
    /\ Raise(r)
    /\ UNCHANGED <<cfg, days>>
    /\ DbUnchanged

\* The bulk copy raises: stage() cleans up after itself.
CopyFails(r) ==
    /\ Fault
    /\ At(r, "write", "copy")
    /\ StagingFailed(r)
    /\ UNCHANGED <<cfg, days, step, loc, vault, reported, staged, tries, open>>
    /\ DbUnchanged

\* A retry, a recovery or a resume starts the current step again.
Restart(r) ==
    /\ pc[r] = "stopped"
    /\ step[r] \in Steps
    /\ tries[r] < MaxTries
    /\ tries' = [tries EXCEPT ![r] = @ + 1]
    /\ Goto(r, "idle")
    /\ UNCHANGED <<cfg, days, step, loc, vault, reported, staged, open, faults>>
    /\ DbUnchanged

GiveUp(r) ==
    /\ pc[r] = "stopped"
    /\ step[r] \in Steps
    /\ step' = [step EXCEPT ![r] = "failed"]
    /\ UNCHANGED <<cfg, days, pc, loc, vault, reported, staged, tries, open, faults>>
    /\ DbUnchanged

-----------------------------------------------------------------------------
Extract(r) ==
    VaultBegin(r, "extract") \/ VaultPartition(r, "extract") \/ VaultSave(r, "extract")

Transform(r) ==
    VaultBegin(r, "transform") \/ VaultPartition(r, "transform") \/ VaultSave(r, "transform")

Write(r) ==
    \/ WriteBegin(r) \/ SetupResource(r) \/ PartitionGone(r) \/ Prepare(r)
    \/ CopyFromFile(r)
    \/ VerifyStaged(r) \/ DropStaging(r) \/ WriteSave(r)

Publish(r) ==
    \/ PublishBegin(r) \/ ValidateSchema(r) \/ ApplyMergeOperation(r)
    \/ VerifyPromotion(r) \/ DropSource(r) \/ PublishSave(r)

Work(r) == Extract(r) \/ Transform(r) \/ Write(r) \/ Publish(r)

Next ==
    \E r \in Runs : \/ Work(r) \/ CleanupTask(r)
                   \/ Crash(r) \/ CopyFails(r) \/ Restart(r) \/ GiveUp(r)

\* A worker keeps executing its stage, and the lifecycle decides about every
\* stopped run; no fault has to happen.
Spec == Init /\ [][Next]_vars
        /\ \A r \in Runs : WF_vars(Work(r)) /\ WF_vars(Restart(r) \/ GiveUp(r))

-----------------------------------------------------------------------------
(* Correctness. *)

\* A vault stage that has reported its rows left exactly those rows in its
\* directory, whatever earlier attempts of it left behind; only the cleanup
\* of a run of the same date takes them away, all at once.
CleanedUp(r) == \E q \in SharesDate(r) : step[q] = "cleaned"

VaultExact ==
    \A r \in Runs, s \in VaultStages :
        reported[r][s] # NoPayload /\ ~CleanedUp(r) => vault[r][s] = reported[r][s]

\* No two runs meet in a staging table (names generated in different seconds)
\* and production exists already.
Isolated == ~cfg.named /\ ~cfg.fresh /\ cfg.strategy = "clone"

\* What a finished load of day d looks like: the records of one run, or those
\* that were there before.
Records(rows) == {<<OwnerOf(x), DayOf(x), KeyOf(x)>> : x \in rows}

Complete(d) ==
    LET present == Records(OnDay(tables[Target], d)) IN
    \/ present = {<<Old, d, 1>>}
    \/ \E r \in Runs : /\ d \in days[r] /\ reported[r].transform # NoPayload
                       /\ present # {}
                       /\ present = Records({x \in reported[r].transform : DayOf(x) = d})

\* Of any two snapshots of day d that were taken, what production held before
\* included, one has all the keys of the other: the source gained records or
\* lost some, but did not exchange them.
SnapshotsOf(d) ==
    {{1}} \cup {{KeyOf(x) : x \in {y \in reported[r].transform : DayOf(y) = d}} :
                  r \in {q \in Runs : reported[q].transform # NoPayload}}

Comparable(d) == \A k, l \in SnapshotsOf(d) : k \subseteq l \/ l \subseteq k

\* A day whose every change has been confirmed by the run that made it is
\* whole: the statements of promote are no transaction, but its verification
\* never passes for a day that lost records or holds one twice, however the
\* promotions of several runs interleave, fail and are repeated.  With
\* soft_delete_missing the mark of one promotion can hit the rows of another
\* one: then the records are whole, though some may be marked, as long as the
\* snapshots are comparable; otherwise the marks can make the counts agree.
ConfirmedDayWhole ==
    Isolated /\ cfg.mode = "snapshot" =>
        \A d \in Days :
            (\A r \in Runs : d \notin open[r]) /\ (cfg.soft => Comparable(d)) =>
                LET rows == OnDay(tables[Target], d) IN
                /\ Complete(d)
                /\ \A x \in rows : tables[Target][x] = 1
                /\ Cardinality(Records(rows)) = Cardinality(rows)
                /\ cfg.soft \/ \A x \in rows : Live(x)

\* A run that changed production and has not confirmed the change, because
\* its promotion is under way, failed or died with its worker, still has every
\* staged row: the promotion can be repeated.
PromotionRepeatable ==
    Isolated => \A r \in Runs :
        open[r] # {} =>
            /\ staged[r].table \in catalog
            /\ tables[staged[r].table] = SetToBag(reported[r].transform)

\* Without faults, a run that shares neither its staging table nor its day
\* with another one, and whose transformation leaves rows, is published.
Undisturbed(r) ==
    /\ Isolated /\ (cfg.keyed \/ ~cfg.soft) /\ cfg.mode = "snapshot"
    /\ Cardinality(days[r]) = 1
    /\ \A q \in Runs \ {r} : days[q] \cap days[r] = {}

UndisturbedRunPublishes ==
    \A r \in Runs :
        Undisturbed(r) /\ [](faults = 0) /\ [](reported[r].transform # {}) =>
            <>(step[r] \in {"done", "cleaned"})

\* job.yaml calls the working table an "isolated workspace": what a run is
\* about to insert into production is what it staged.
WorkingTableIsolated ==
    \A r \in Runs : At(r, "publish", "merge") /\ loc[r].table \in catalog =>
        BagToSet(tables[loc[r].table]) \subseteq reported[r].transform

\* README.md:10 promises a vault per run that "ensures every run is immutable":
\* what a step reported is there as long as the run is under way.
VaultImmutable ==
    \A r \in Runs, s \in VaultStages :
        step[r] \in Steps /\ pc[r] = "idle" /\ reported[r][s] # NoPayload =>
            vault[r][s] = reported[r][s]
=============================================================================
