------------------------------ MODULE MCUnits -------------------------------
(***************************************************************************)
(* The parts of the system that work on their own, one at a time: those of *)
(* CoreUnits, and those the first state gives the registers s1, s2, ... as *)
(* their variables; registers that are not used stay 0.  The parts share   *)
(* no state, so that checking them side by side is checking each of them.  *)
(***************************************************************************)
EXTENDS CoreUnits, MCConfig, NetworkChecks

VARIABLES s1, s2, s3, s4, s5, s6, s7

registers == <<s1, s2, s3, s4, s5, s6, s7>>
vars == <<coreVars, registers>>

-----------------------------------------------------------------------------
(* Instances: small, but with the cases that matter. *)

\* Task 1 is submitted, task 2 is recovered at a step of its plan.
TaskSteps == <<"a", "a_2">>

\* Resources in tenths; the class "cpu" asks for more than the cluster has.
GateCluster == [CPU |-> 40, IO |-> 40, memory |-> 40]
GateCosts == [io |-> [CPU |-> 2, IO |-> 10, memory |-> 10],
              cpu |-> [CPU |-> 41, IO |-> 2, memory |-> 20]]

\* Every kind of source, mode and checkpoint; limits and workers that split
\* the rows, and rows the transformation of the filter drops.
StepSetting(source, mode, key, limit, workers, kept) ==
    [source |-> source, mode |-> mode, key |-> key, limit |-> limit,
     workers |-> workers, kept |-> kept]
ExtractSettings ==
    {StepSetting("database", "delta", k, 0, 0, 1 .. 4) : k \in {"range", "partition_date", "mtime", "none"}}
    \cup {StepSetting("database", "cdc", k, 0, 0, 1 .. 4) : k \in {"range", "partition_date"}}
    \cup {StepSetting("database", "delta", "range", 0, w, 1 .. 2) : w \in {0, 3}}
    \cup {StepSetting("database", "snapshot", "none", l, w, 1 .. 4) : l \in {0, 2}, w \in 0 .. 2}
    \cup {StepSetting("database", "full_refresh", "none", 0, 0, {2, 3})}
    \cup {StepSetting("file", "delta", k, 0, 2, {1, 3}) : k \in {"partition_date", "mtime"}}
    \cup {StepSetting("file", "full_refresh", "none", l, w, 1 .. 4) : l \in {0, 2}, w \in {0, 2}}

\* Column names are sequences of words with their case; these meet after
\* formatting ("orderDate", "order_date", "order_date_1", a field of "order").
FC == INSTANCE FrameColumns
Lower(w) == <<w, "l">>
Capital(w) == <<w, "C">>
Upper(w) == <<w, "U">>
Underscore == <<"_", "s">>
OrderDate == <<Lower("order"), Underscore, Lower("date")>>
Order == <<Lower("order")>>
RunId == <<Underscore, Lower("run")>>
Column(n) == [name |-> n, id |-> <<n>>, fields |-> <<>>]
Field(p, n) == [name |-> n, id |-> <<p, n>>, fields |-> <<>>]
TableFrames ==
    {<<Column(<<Lower("order"), Capital("date")>>), Column(OrderDate),
       Column(OrderDate \o <<Underscore, <<"1", "d">>>>),
       Column(<<Lower("partition"), Underscore, Lower("date")>>)>>,
     <<Column(OrderDate),
       [Column(Order) EXCEPT !.fields = <<Field(Order, <<Capital("id")>>), Field(Order, <<Lower("date")>>)>>]>>,
     <<Column(Order), Column(RunId)>>}
Format(type, style, flatten, meta, soft, evolve, ddl) ==
    [type |-> type, style |-> style, flatten |-> flatten, meta |-> meta, soft |-> soft,
     evolve |-> evolve, ddl |-> ddl]
TableDatasets ==
    {Format("upper", "snake", 0, [run_id |-> RunId], TRUE, evolve, {}) : evolve \in BOOLEAN}
    \cup {Format("none", "camel", 0, [run_id |-> <<Lower("batch")>>, deleted |-> <<>>], FALSE, TRUE, {}),
          Format("title", "kebab", -1, <<>>, FALSE, TRUE, {}),
          Format("none", "none", 1, <<>>, FALSE, TRUE, {}),
          Format("caps", "camel", 0, <<>>, FALSE, TRUE, {}),
          Format("lower", "none", 0, <<>>, TRUE, TRUE, {Order})}
TablePrepared == [d \in TableDatasets |-> [f \in TableFrames |-> FC!Prepared(d, f)]]
TableMeta == [d \in TableDatasets |-> FC!MetaColumns(d)]
TableOwed == [d \in TableDatasets |-> [f \in TableFrames |-> FC!Owed(d, f)]]
TableColumns == {{}, {<<Upper("order")>>}, {Order}, {RunId}}

\* Predicates over two columns, and contexts with raw queries and CTEs.
Pred(type, terms) == [kind |-> type, terms |-> terms]
IsOne(c) == [col |-> c, vals |-> {1}]
Either == Pred("raw", <<IsOne("a"), IsOne("b")>>)
Both == Pred("dict", <<IsOne("a"), IsOne("b")>>)
AnyA == Pred("in", <<[col |-> "a", vals |-> {0, 1}]>>)
NotB == Pred("binary", <<[col |-> "b", vals |-> {0}]>>)
Nothing == Pred("nothing", <<>>)
Unknown == Pred("other", <<>>)
SqlPredicates ==
    {<<>>} \cup {<<p>> : p \in {Either, Both, NotB, Nothing, Unknown}}
           \cup {<<p, q>> : p \in {Either, AnyA}, q \in {Either, NotB, Nothing}}
Block(name, from, sql, where) == [name |-> name, from |-> from, sql |-> sql, where |-> where]
Context(sql, ctes, main) == [sql |-> sql, ctes |-> ctes, main |-> main]
From(t) == [kind |-> "table", table |-> t, query |-> <<>>]
Raw == [with |-> <<>>, from |-> From("t"),
        where |-> <<[t |-> "atom", col |-> "b", vals |-> {0}]>>]
RawWith == [with |-> <<[name |-> "w", query |-> Raw]>>, from |-> From("w"), where |-> <<>>]
SqlContexts ==
    {Context(<<Raw>>, <<>>, <<>>), Context(<<RawWith>>, <<>>, <<>>), Context(<<>>, <<>>, <<>>)}
    \cup {Context(<<>>, <<>>, <<b>>) :
            b \in {Block("", "t", <<>>, <<Either, NotB>>), Block("", "x", <<Raw>>, <<Either>>),
                   Block("", "", <<RawWith>>, <<Either>>), Block("", "", <<Raw>>, <<>>),
                   Block("", "", <<>>, <<Either>>), Block("", "t", <<>>, <<Unknown>>)}}
    \cup {Context(<<>>, <<Block("c", "t", <<>>, <<Either, AnyA>>), Block("t", "c", <<>>, <<NotB>>)>>, <<>>),
          Context(<<>>, <<Block("c", "t", <<>>, <<Either>>)>>, <<Block("", "c", <<>>, <<Both>>)>>),
          Context(<<>>, <<Block("", "t", <<>>, <<Either>>)>>, <<Block("", "c", <<>>, <<Both>>)>>),
          Context(<<>>, <<Block("c", "t", <<>>, <<Either, Unknown>>)>>, <<>>)}
SqlTables == {<<"t">>, <<"s", "t">>, <<"d", "s", "t">>, <<"x", "d", "s", "t">>}

\* A routine that moves files, one that calls itself and one that is nested.
Action(name, type, on) ==
    [name |-> name, type |-> type, on |-> on, from |-> "inbox", to |-> "vault", path |-> ""]
Routine(name, on, path) == [Action(name, "routine", on) EXCEPT !.path = path]
HookRoutines ==
    [move |-> <<Action("cp", "copy", "warn"), Action("rm", "delete", "warn")>>,
     loop |-> <<Action("again", "call", "abort"), Routine("self", "abort", "loop")>>,
     wrap |-> <<Action("ping", "call", "skip"), Routine("inner", "warn", "move"),
                Action("pong", "call", "abort")>>]
HookLists ==
    {[pre |-> <<Routine("m", on, "move"), Action("note", "call", "warn")>>,
      post |-> <<Action("tell", "call", "abort")>>] : on \in {"abort", "warn"}}
    \cup {[pre |-> <<Action("cp", "copy", on), Action("rm", "delete", "abort"), Action("note", "call", "skip")>>,
           post |-> <<>>] : on \in {"abort", "skip"}}
    \cup {[pre |-> <<Routine("l", on, "loop"), Routine("w", "skip", "wrap")>>,
           post |-> <<Routine("x", "warn", "nowhere")>>] : on \in {"abort", "warn"}}
HookSteps ==
    LET elements(list) == {list[i] : i \in DOMAIN list} IN
    UNION {elements(h.pre) \cup elements(h.post) : h \in HookLists}
    \cup UNION {elements(HookRoutines[p]) : p \in DOMAIN HookRoutines}
File(in, name, body) == [in |-> in, name |-> name, body |-> body]
HookSources == [inbox |-> {File("", "f", 1), File("sub", "f", 2), File("", "g", 3)}, vault |-> {}]
HookLate == {File("sub", "h", 4)}

\* One sub-step on one or two inputs, two sub-steps, one that reads another, and a custom one.
SubStep(id, type, sources) == [id |-> id, type |-> type, sources |-> sources]
Transform(inputs, subSteps) == [inputs |-> inputs, steps |-> subSteps]
TransformPlans ==
    {Transform({"a"}, <<SubStep("x", "sql", {"a"})>>),
     Transform({"a", "b"}, <<SubStep("x", "sql", {"a", "b"})>>),
     Transform({"a"}, <<SubStep("x", "sql", {"a"}), SubStep("y", "sql", {"a"})>>),
     Transform({"a"}, <<SubStep("x", "sql", {"a"}), SubStep("y", "sql", {"x"})>>),
     Transform({"a"}, <<SubStep("x", "sql", {"a"}), SubStep("y", "custom", {"a"})>>)}

\* Two partitions, and keys that begin like the namespace of a handle.
TransformDates == <<"d", "e">>
CacheKeys == {<<"k">>, <<"a", "k">>, <<"a", "a", "k">>}

\* The whole pipeline, a run that starts at the write, and one that ends there.
Extract == [id |-> "e", stage |-> "extract"]
Write == [id |-> "w", stage |-> "write"]
Publish == [id |-> "p", stage |-> "publish"]
ReportPipelines ==
    {<<Extract, [id |-> "t", stage |-> "transform"], Write, Publish>>, <<Write, Publish>>, <<Extract, Write>>}

\* Two modules register one key, another cannot be imported.
ModuleOrder == <<"db", "ext", "file">>
ModuleKeys == [file |-> <<"g", "f">>, db |-> <<"d", "f">>, ext |-> <<"e">>]

\* Rows of three days, with hashes that split them.
RowDays == <<1, 1, 2, 3, 3, 4>>
RowHashes == <<5, 3, 1, 6, 4, 2>>

-----------------------------------------------------------------------------
CR == INSTANCE ConfigResolution WITH
    Files <- MCFiles, Services <- MCServices, Environ <- MCEnviron, files <- s1,
    defaults <- s2, contexts <- s3, refused <- s4

SQ == INSTANCE SqlCompile WITH
    Contexts <- SqlContexts, Predicates <- SqlPredicates, Tables <- SqlTables,
    Home <- "default", ctx <- s1, preds <- s2, name <- s3, op <- s4, failed <- s5,
    result <- s6, looked <- s7

-----------------------------------------------------------------------------
Idle4 == s5 = 0 /\ s6 = 0 /\ s7 = 0
Idle0 == s1 = 0 /\ s2 = 0 /\ s3 = 0 /\ s4 = 0 /\ Idle4

After4 == <<s5, s6, s7>>

Init ==
    \/ UnitsInit /\ Idle0
    \/ /\ NoPool /\ NoGate /\ NoTimeouts /\ NoRegistry /\ NoFolders
       /\ NoTransform /\ NoCache /\ NoNetwork /\ NoReports /\ NoExtract /\ NoTable /\ NoHooks
       /\ \/ focus = "config" /\ CR!Init /\ Idle4
          \/ focus = "sql" /\ SQ!Init

Next ==
    \/ UnitsNext /\ UNCHANGED registers
    \/ focus = "config" /\ CR!Next /\ UNCHANGED <<coreVars, After4>>
    \/ focus = "sql" /\ SQ!Next /\ UNCHANGED coreVars

Spec == Init /\ [][Next]_vars

-----------------------------------------------------------------------------
(* What the parts promise; the modules say it in full. *)

\* A task context has the parameters, connections and overrides that were
\* written for its dataset, whatever was built before it (TaskContextBuilder).
ConfigurationAsWritten ==
    focus = "config" => CR!ParametersAsWritten /\ CR!ConnectionsAndOverrides

\* A compiled statement reads or changes the rows its predicates ask for
\* (SQLCompiler).
RowsAsAsked == focus = "sql" => SQ!RowsAsAsked
=============================================================================
