--------------------------- MODULE TableContract ---------------------------
(***************************************************************************)
(* Which column of the target table a column of the source ends up in: the *)
(* target table is created or extended statement by statement for the      *)
(* frame that is to be loaded, while other runs of the same dataset may be *)
(* doing the same.  How a frame gets its columns is in FrameColumns.       *)
(***************************************************************************)
EXTENDS Naturals, Sequences

CONSTANTS
    Runs,        \* runs of the dataset
    Frames,      \* frames the source may deliver
    Datasets,    \* configurations: [evolve, ddl, ...]
    Existing,    \* column sets the target may have beforehand, {} for no table
    MaxTries,    \* times a run that failed is started again
    Prepare,     \* [Datasets -> [Frames -> columns as they are to be loaded]]
    Meta,        \* [Datasets -> names of the metadata columns]
    Owed         \* [Datasets -> [Frames -> source columns that have to land]]

VARIABLES
    dataset,     \* the configuration
    frame,       \* [Runs -> what the run extracted]
    table,       \* columns of the target, {} while it does not exist
    place,       \* [Runs -> next statement]
    prepared,    \* [Runs -> the frame as it is to be loaded]
    seen,        \* [Runs -> columns of the target when the run looked]
    todo,        \* [Runs -> columns it still has to add]
    loaded,      \* [Runs -> columns of the frame it loaded]
    tries,       \* [Runs -> times started again]
    log,         \* META.SCHEMA_EVOLUTION_LOG: [run, action, cols]
    start,       \* history: columns of the target at first
    replaced     \* history: a create replaced a table

tbVars == <<dataset, frame, table, place, prepared, seen, todo, loaded, tries, log, start, replaced>>

NamesOf(f) == {f[i].name : i \in DOMAIN f}
MetaColumns == Meta[dataset]

\* A prepared frame has no name twice, every source column that is owed and
\* every metadata column, whatever names meet when they are formatted.
TableAssumption ==
    /\ MaxTries \in Nat
    /\ Datasets = DOMAIN Prepare /\ Datasets = DOMAIN Owed /\ Datasets = DOMAIN Meta
    /\ \A d \in Datasets : d.evolve \in BOOLEAN
    /\ \A d \in Datasets, f \in Frames :
          /\ \A i, j \in DOMAIN Prepare[d][f] :
                Prepare[d][f][i].name = Prepare[d][f][j].name => i = j
          /\ \A id \in Owed[d][f] : \E i \in DOMAIN Prepare[d][f] : Prepare[d][f][i].id = id
          /\ Meta[d] \subseteq NamesOf(Prepare[d][f])

-----------------------------------------------------------------------------
(* reconcile_schema *)

Goto(r, p) == place' = [place EXCEPT ![r] = p]

\* The frame is prepared, then the target is looked for.
Exists(r) ==
    /\ place[r] = "exists"
    /\ prepared' = [prepared EXCEPT ![r] = Prepare[dataset][frame[r]]]
    /\ Goto(r, IF table = {} THEN "create" ELSE "schema")
    /\ UNCHANGED <<dataset, frame, table, seen, todo, loaded, tries, log, start, replaced>>

\* record_schema_change comes after the change; if the metadata database
\* refuses it the change stays and the step fails.
Record(r, action, cols, next) ==
    \/ log' = log \cup {[run |-> r, action |-> action, cols |-> cols]} /\ Goto(r, next)
    \/ UNCHANGED log /\ Goto(r, "failed")

\* Without a DDL: create or replace.  A DDL of the user (create table) is
\* sent twice, so the second one fails.
Create(r) ==
    /\ place[r] = "create"
    /\ IF dataset.ddl = {}
       THEN /\ table' = NamesOf(prepared[r])
            /\ Record(r, "CREATE_TABLE", table', "schema")
       ELSE /\ table' = (IF table = {} THEN dataset.ddl ELSE table)
            /\ Goto(r, "failed") /\ UNCHANGED log
    /\ replaced' = (replaced \/ (dataset.ddl = {} /\ table # {}))
    /\ UNCHANGED <<dataset, frame, prepared, seen, todo, loaded, tries, start>>

\* Defect: the gate for new columns applies to metadata columns as well.
GateAll(cols) == IF dataset.evolve THEN cols ELSE {}

\* Metadata columns are always added, columns of the source if it is allowed.
Admitted(cols) ==
    {c \in cols : c \in MetaColumns \/ dataset.evolve}

\* MissingColumns if the target has a column the frame lacks.
GetSchema(r) ==
    /\ place[r] = "schema"
    /\ seen' = [seen EXCEPT ![r] = table]
    /\ LET incoming == NamesOf(prepared[r]) IN
       IF table \subseteq incoming
       THEN todo' = [todo EXCEPT ![r] = Admitted(incoming \ table)] /\ Goto(r, "alter")
       ELSE Goto(r, "failed") /\ UNCHANGED todo
    /\ UNCHANGED <<dataset, frame, prepared, table, loaded, tries, log, start, replaced>>

\* Metadata columns come first, then those of the source, each in the order
\* of the frame.
At(r, c) == CHOOSE i \in DOMAIN prepared[r] : prepared[r][i].name = c
NextColumn(r, c) ==
    \A d \in todo[r] \ {c} : IF (c \in MetaColumns) = (d \in MetaColumns)
                             THEN At(r, c) < At(r, d) ELSE c \in MetaColumns

\* Defect: the change is recorded before it is made.
AddColumnRecordedFirst(r) ==
    /\ place[r] = "alter"
    /\ \E c \in todo[r] : NextColumn(r, c) /\
         /\ log' = log \cup {[run |-> r, action |-> "ADD_COLUMN", cols |-> {c}]}
         /\ IF c \in table THEN Goto(r, "failed") /\ UNCHANGED <<table, todo>>
            ELSE /\ table' = table \cup {c}
                 /\ todo' = [todo EXCEPT ![r] = @ \ {c}]
                 /\ UNCHANGED place
    /\ UNCHANGED <<dataset, frame, prepared, seen, loaded, tries, start, replaced>>

\* alter table add column: fails if another run was faster.
AddColumn(r) ==
    /\ place[r] = "alter"
    /\ \E c \in todo[r] : NextColumn(r, c) /\
         IF c \in table THEN Goto(r, "failed") /\ UNCHANGED <<table, todo, log>>
         ELSE /\ table' = table \cup {c}
              /\ todo' = [todo EXCEPT ![r] = @ \ {c}]
              /\ Record(r, "ADD_COLUMN", {c}, "alter")
    /\ UNCHANGED <<dataset, frame, prepared, seen, loaded, tries, start, replaced>>

\* What remains after the gate is selected, written and copied into a table
\* like the target; a column that is not there fails the copy.
FinalColumns(r) ==
    LET incoming == NamesOf(prepared[r]) IN seen[r] \cup Admitted(incoming \ seen[r])

Load(r) ==
    /\ place[r] = "alter" /\ todo[r] = {}
    /\ IF FinalColumns(r) \subseteq table
       THEN /\ loaded' = [loaded EXCEPT ![r] =
                 {prepared[r][i] : i \in {j \in DOMAIN prepared[r] :
                                            prepared[r][j].name \in FinalColumns(r)}}]
            /\ Goto(r, "done")
       ELSE Goto(r, "failed") /\ UNCHANGED loaded
    /\ UNCHANGED <<dataset, frame, prepared, table, seen, todo, tries, log, start, replaced>>

\* The step is tried again from its first line.
Retry(r) ==
    /\ place[r] = "failed" /\ tries[r] < MaxTries
    /\ tries' = [tries EXCEPT ![r] = @ + 1]
    /\ Goto(r, "exists")
    /\ UNCHANGED <<dataset, frame, prepared, table, seen, todo, loaded, log, start, replaced>>

Init ==
    /\ dataset \in Datasets /\ table \in Existing
    /\ frame \in [Runs -> Frames]
    /\ place = [r \in Runs |-> "exists"]
    /\ seen = [r \in Runs |-> {}] /\ todo = [r \in Runs |-> {}]
    /\ prepared = [r \in Runs |-> <<>>] /\ loaded = [r \in Runs |-> {}]
    /\ tries = [r \in Runs |-> 0]
    /\ log = {} /\ start = table /\ replaced = FALSE

Next == \E r \in Runs :
    Exists(r) \/ Create(r) \/ GetSchema(r) \/ AddColumn(r) \/ Load(r) \/ Retry(r)

-----------------------------------------------------------------------------
\* After a load every column of the source has a column of the target of its
\* own; it is left out only if new columns are not wanted and the target did
\* not have it.  Every column the target had is filled, every metadata column
\* asked for is there, and what was loaded is still in the table, whatever
\* another run added meanwhile -- unless that run created the table anew.
ColumnsLand ==
    \A r \in Runs : place[r] = "done" =>
        LET names == {col.name : col \in loaded[r]} IN
        /\ \A a, b \in loaded[r] : a.name = b.name => a = b
        /\ \A id \in Owed[dataset][frame[r]] :
             \/ \E col \in loaded[r] : col.id = id
             \/ ~dataset.evolve /\ \E i \in DOMAIN prepared[r] :
                  prepared[r][i].id = id /\ prepared[r][i].name \notin seen[r]
        /\ seen[r] \subseteq names
        /\ MetaColumns \subseteq names
        /\ ~replaced => names \subseteq table

\* META.SCHEMA_EVOLUTION_LOG is true: it names no column that was not added
\* and credits no column to two runs that raced for it; and it is complete as
\* long as no step has failed.  (A change whose recording failed is never
\* made up for: the next attempt finds the column there.)
ChangesRecorded ==
    LET recorded == UNION {e.cols : e \in log} IN
    /\ ~replaced => recorded \subseteq table
    /\ ~replaced => \A e, f \in log :
          e.action = "ADD_COLUMN" /\ e # f => e.cols \cap f.cols = {}
    /\ (\A r \in Runs : tries[r] = 0 /\ place[r] # "failed") => table \subseteq start \cup recorded
=============================================================================
