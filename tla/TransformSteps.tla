--------------------------- MODULE TransformSteps ---------------------------
(***************************************************************************)
(* One transform step of a run: its sub-steps are executed in order, each  *)
(* for one partition after the other, the last one into the folder of the  *)
(* step and the others into a folder inside of it.  The worker may die     *)
(* between two partitions, and what the inputs hold may be another when    *)
(* the step is tried again, if they were written again meanwhile.          *)
(*                                                                         *)
(* A row is the input it comes from and its version; the query of a        *)
(* sub-step keeps some of the rows of its sources and names all of these.  *)
(***************************************************************************)
EXTENDS Naturals, Sequences, FiniteSets

CONSTANTS
    Plans,        \* [inputs: names, steps: sub-steps as written]
    Dates,        \* sequence of partition dates
    Versions,     \* versions of a row a partition may hold
    Nested,       \* the folder of a transform's own sub-steps, which looks like a partition
    MaxAttempts   \* bound: executions of the step

DateSet == {Dates[i] : i \in DOMAIN Dates}

\* A plan has a sub-step, and a date is not the name of a folder of sub-steps.
PlanAssumption ==
    /\ \A p \in Plans :
         /\ p.steps \in Seq([id : STRING, type : {"sql", "custom"}, sources : SUBSET STRING])
         /\ p.steps # <<>>
    /\ Dates \in Seq(STRING) /\ Nested \notin DateSet

VARIABLES
    plan,
    emptyResult,  \* is_empty_result_set of the manifest
    data,         \* [input -> [date -> rows]]: the folders that are there
    pos,          \* the sub-step that is next, 0 when the step does not run
    todo,         \* the partitions the sub-step has before it
    files,        \* [sub-step -> [date -> rows]]: what the sub-steps have written
    metrics,      \* partition_metrics: [date -> rows]
    payload,      \* the partitions that were reported, or NoPayload
    attempts

tsVars == <<plan, emptyResult, data, pos, todo, files, metrics, payload, attempts>>

NoPayload == [saved |-> FALSE, folder |-> FALSE, partitions |-> <<>>]

\* parse_transform_config: the sources of a custom step are not taken over.
Parse(step) == [step EXCEPT !.sources = IF step.type = "sql" THEN @ ELSE {}]

Steps == [i \in DOMAIN plan.steps |-> Parse(plan.steps[i])]

\* What the inputs may hold; if they are outputs of a transform there is one
\* more folder, without files of its own.
Folder == UNION {[S -> {{v} : v \in Versions}] : S \in SUBSET DateSet}

With(f, d, rows) == [x \in DOMAIN f \cup {d} |-> IF x = d THEN rows ELSE f[x]]

Outputs == Folder \cup {With(f, Nested, {}) : f \in Folder}

-----------------------------------------------------------------------------
\* The folders of all inputs.
DiscoverPartitionDates == UNION {DOMAIN data[i] : i \in plan.inputs}

\* They are taken in order; the name of the nested one comes last.
First(d) ==
    LET sorted == Append(Dates, Nested) IN
    \A e \in todo : \E i, j \in DOMAIN sorted : i <= j /\ sorted[i] = d /\ sorted[j] = e

\* Defect: the folder keeps what an earlier attempt has left.
KeepDataDir == files

\* reset_data_dir empties the folder, and with it the one inside of it.
ResetDataDir == [i \in DOMAIN plan.steps |-> <<>>]

PreFlight ==
    /\ pos = 0 /\ ~payload.saved /\ ~emptyResult /\ attempts < MaxAttempts
    /\ attempts' = attempts + 1
    /\ pos' = 1 /\ todo' = DiscoverPartitionDates
    /\ files' = ResetDataDir /\ metrics' = <<>>
    /\ UNCHANGED <<plan, emptyResult, data, payload>>

\* is_empty_result_set: the step is bypassed.  Its folder is left alone, with
\* what an attempt before the flag was set has written, and not reported.
HandleEmptyManifest ==
    /\ pos = 0 /\ ~payload.saved /\ emptyResult
    /\ payload' = [saved |-> TRUE, folder |-> FALSE, partitions |-> <<>>]
    /\ UNCHANGED <<plan, emptyResult, data, pos, todo, files, metrics, attempts>>

\* An attempt that ends without an outcome leaves its files.
Stop ==
    /\ pos' = 0 /\ todo' = {} /\ metrics' = <<>>
    /\ UNCHANGED <<plan, emptyResult, data, files, payload, attempts>>

\* A source that is no input is refused, also when it is the output of an
\* earlier sub-step.
ResolveSources(step) == step.sources \subseteq plan.inputs

Running == pos \in DOMAIN plan.steps
Current == Steps[pos]

Refused == Running /\ ~ResolveSources(Current) /\ Stop

\* A source without the partition is left out; a sub-step none of whose
\* sources has it is passed over.
PartitionSources(d) == {i \in Current.sources : d \in DOMAIN data[i]}

\* The query runs into an error if a source it names is left out, or has no
\* files where the partition should be.
Answers(d) == \A i \in Current.sources : d \in DOMAIN data[i] /\ data[i][d] # {}

Rows(d) == UNION {{<<i, r>> : r \in data[i][d]} : i \in PartitionSources(d)}

AtPartition(d) == Running /\ ResolveSources(Current) /\ d \in todo /\ First(d)
AtEnd == Running /\ ResolveSources(Current) /\ todo = {}

PassOver(d) ==
    /\ AtPartition(d)
    /\ PartitionSources(d) = {}
    /\ todo' = todo \ {d}
    /\ UNCHANGED <<plan, emptyResult, data, pos, files, metrics, payload, attempts>>

QueryFails(d) ==
    /\ AtPartition(d)
    /\ PartitionSources(d) # {} /\ ~Answers(d)
    /\ Stop

IsFinalStep == pos = Len(plan.steps)

\* Whether a query without rows leaves a file is up to DuckDB; the metric of
\* the partition is kept if there is one.
ProcessPartition(d) ==
    /\ AtPartition(d)
    /\ PartitionSources(d) # {} /\ Answers(d)
    /\ todo' = todo \ {d}
    /\ \E kept \in SUBSET Rows(d), written \in BOOLEAN :
         /\ kept # {} => written
         /\ files' = IF written THEN [files EXCEPT ![pos] = With(@, d, kept)] ELSE files
         /\ metrics' = IF written /\ IsFinalStep THEN With(metrics, d, kept) ELSE metrics
    /\ UNCHANGED <<plan, emptyResult, data, pos, payload, attempts>>

NextSubStep ==
    /\ AtEnd /\ ~IsFinalStep
    /\ pos' = pos + 1 /\ todo' = DiscoverPartitionDates
    /\ UNCHANGED <<plan, emptyResult, data, files, metrics, payload, attempts>>

SaveOutcome ==
    /\ AtEnd /\ IsFinalStep
    /\ payload' = [saved |-> TRUE, folder |-> TRUE, partitions |-> metrics]
    /\ pos' = 0 /\ todo' = {} /\ metrics' = <<>>
    /\ UNCHANGED <<plan, emptyResult, data, files, attempts>>

\* The worker dies, or the step before this one is run again.
Crash == Running /\ Stop

\* An input is written again between two attempts: what rollbacks are for
\* (none gets through at present, see TaskLifecycle), or an operator's repair.
\* An extract that finds no rows then sets the flag, which no step resets
\* (validate_row_count).
InputsChange ==
    /\ pos = 0 /\ ~payload.saved /\ attempts \in 1 .. MaxAttempts - 1
    /\ \E i \in plan.inputs, f \in Outputs :
         /\ data' = [data EXCEPT ![i] = f]
         /\ emptyResult' \in {emptyResult, emptyResult \/ f = <<>>}
    /\ UNCHANGED <<plan, pos, todo, files, metrics, payload, attempts>>

Init ==
    /\ plan \in Plans
    /\ emptyResult \in BOOLEAN
    /\ data \in [plan.inputs -> IF emptyResult THEN {<<>>} ELSE Outputs]
    /\ pos = 0 /\ todo = {} /\ metrics = <<>> /\ payload = NoPayload /\ attempts = 0
    /\ files = [i \in DOMAIN plan.steps |-> <<>>]

Next ==
    \/ PreFlight \/ HandleEmptyManifest \/ Refused \/ NextSubStep \/ SaveOutcome
    \/ \E d \in todo : PassOver(d) \/ QueryFails(d) \/ ProcessPartition(d)
    \/ Crash \/ InputsChange

-----------------------------------------------------------------------------
\* What a transform reports is what lies in its folder, with nothing of an
\* earlier attempt: partition by partition, rows its inputs hold now.  No
\* step gets that far whose sub-steps read from each other, or read a partition
\* of the folder of another transform; and one whose last sub-step is custom
\* code reports nothing (TransformStage._execute).  A step that is bypassed,
\* also after attempts that have left partitions, names no folder.
TransformReported ==
    payload.saved =>
      IF emptyResult THEN payload.partitions = <<>> /\ ~payload.folder
      ELSE /\ payload.folder /\ payload.partitions = files[Len(plan.steps)]
           /\ \A i \in DOMAIN files : \A d \in DOMAIN files[i] :
                /\ \A s \in Steps[i].sources : d \in DOMAIN data[s]
                /\ files[i][d] \subseteq UNION {{<<s, r>> : r \in data[s][d]} : s \in Steps[i].sources}
           /\ \A i \in DOMAIN plan.steps : plan.steps[i].type = "sql" =>
                \A s \in plan.steps[i].sources : s \in plan.inputs /\ Nested \notin DOMAIN data[s]
           /\ plan.steps[Len(plan.steps)].type = "custom" => payload.partitions = <<>>
=============================================================================
