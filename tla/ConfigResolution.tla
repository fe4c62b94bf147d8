-------------------------- MODULE ConfigResolution --------------------------
(***************************************************************************)
(* TaskContextBuilder: from defaults.yaml, the job and the dataset to the  *)
(* steps, connections and overrides of a task context.  build() visits the *)
(* datasets of a job in the order of a set, that is in any order, and one  *)
(* copy of the defaults serves all of them.                                *)
(***************************************************************************)
EXTENDS Naturals, Sequences, FiniteSets, ConfigTrees

CONSTANTS
    Files,      \* configurations: [defaults, job, datasets, settings]
    Services,   \* services.yaml: [name -> dict]
    Environ     \* os.environ: [name -> text]

VARIABLES
    files,      \* the configuration that is built from
    defaults,   \* the defaults dict of this build, shared by its datasets
    contexts,   \* [dataset -> task context], for the datasets built so far
    refused     \* the dataset whose parameters a parser refused, if any

crVars == <<files, defaults, contexts, refused>>

-----------------------------------------------------------------------------
(* libs/utils/dict.py *)

\* Defect: dict.update instead of a deep merge.
UpdateDict(base, updates) == Dict(updates.kids @@ base.kids)

RECURSIVE DeepMerge(_, _)
\* deep_merge: dicts are merged, anything else is replaced, lists too.
DeepMerge(base, updates) ==
    Dict([k \in DOMAIN base.kids \cup DOMAIN updates.kids |->
            IF ~Has(updates, k) THEN base.kids[k]
            ELSE IF Has(base, k) /\ base.kids[k].type = "dict"
                                 /\ updates.kids[k].type = "dict"
                 THEN DeepMerge(base.kids[k], updates.kids[k])
                 ELSE updates.kids[k]])

RECURSIVE FlattenDict(_)
\* flatten_dict: the scalars of a tree by their path; lists are not entered.
FlattenDict(node) ==
    IF node.type = "dict"
    THEN LET below == [k \in DOMAIN node.kids |-> FlattenDict(node.kids[k])]
             paths == UNION {{<<k>> \o p : p \in DOMAIN below[k]} : k \in DOMAIN below}
         IN [p \in paths |-> below[Head(p)][Tail(p)]]
    ELSE IF node.type = "list" THEN <<>> ELSE (<<>> :> node.val)

-----------------------------------------------------------------------------
(* Templates *)

\* os.getenv
GetEnv(v) == Lit(IF v.name \in DOMAIN Environ THEN Environ[v.name] ELSE v.default)

\* render_string: a known key is substituted, an unknown one is preserved;
\* then variables of the environment, also those just substituted.
RenderString(v, scope) ==
    LET named == IF v.kind = "ref" /\ v.key \in DOMAIN scope THEN scope[v.key] ELSE v
    IN IF named.kind = "env" THEN GetEnv(named) ELSE named

RECURSIVE Render(_, _)
\* TemplateEngine.render, by way of resolve_strings.
Render(node, scope) ==
    IF node.type = "scalar" THEN Scalar(RenderString(node.val, scope))
    ELSE [node EXCEPT !.kids = [k \in DOMAIN node.kids |-> Render(node.kids[k], scope)]]

\* build_template_scope: what "{...}" may name while a context is built.
TemplateScope(ds, merged, job) ==
    FlattenDict(Dict([dataset |-> Without(merged, {"steps", "calls"}),
                      job |-> Without(job, {"calls"}),
                      dataset_id |-> Scalar(Lit(ds))]))

-----------------------------------------------------------------------------
(* Service references *)

\* An unknown service leaves its name behind (set_nested_key keeps the value).
Service(ref) ==
    IF ref.val.kind = "lit" /\ ref.val.text \in DOMAIN Services
    THEN Services[ref.val.text] ELSE ref

RECURSIVE ResolveServiceRefs(_)
\* Every service_ref becomes the connection of its dict, replacing a
\* connection that is spelled out next to it.
ResolveServiceRefs(node) ==
    IF node.type = "scalar" THEN node
    ELSE LET inner == [node EXCEPT !.kids =
                         [k \in DOMAIN node.kids |-> ResolveServiceRefs(node.kids[k])]]
         IN IF node.type = "dict" /\ Has(node, "service_ref")
                                  /\ node.kids["service_ref"].type = "scalar"
            THEN Put(Without(inner, {"service_ref"}), "connection",
                     Service(node.kids["service_ref"]))
            ELSE inner

-----------------------------------------------------------------------------
(* _resolve_merged_config *)

\* The defaults of the stage a step calls lie under its own parameters.
ExpandCall(step, calls) ==
    LET call == step.kids["call"].val.text IN
    IF Has(calls, call)
    THEN Put(step, "with", DeepMerge(calls.kids[call], Get(step, "with", EmptyDict)))
    ELSE step

ResolveMergedConfig(dflt, job, dataset) ==
    LET merged == DeepMerge(DeepMerge(dflt, job), dataset)
        calls == Get(merged, "calls", EmptyDict)
        steps == Get(merged, "steps", List(<<>>)).kids
    IN Put(Without(merged, {"calls"}), "steps",
           List([i \in DOMAIN steps |-> ExpandCall(steps[i], calls)]))

-----------------------------------------------------------------------------
(* Overrides from the command line *)

\* parse_cli_overrides: a later setting of the same scope and key wins.
ParseCliOverrides(settings) ==
    [scope \in {settings[i].scope : i \in DOMAIN settings} \cup {"_global"} |->
       LET mine == {i \in DOMAIN settings : settings[i].scope = scope}
           last(key) == CHOOSE i \in mine : settings[i].key = key
                          /\ \A j \in mine : settings[j].key = key => j <= i
       IN [key \in {settings[i].key : i \in mine} |-> settings[last(key)].value]]

\* Defect: global overrides in front of those of the dataset.
GlobalFirst(ds, parsed) ==
    parsed["_global"] @@ (IF ds \in DOMAIN parsed THEN parsed[ds] ELSE <<>>)

\* The ChainMap of _build_dataset_context.
ActiveOverrides(ds, parsed) ==
    (IF ds \in DOMAIN parsed THEN parsed[ds] ELSE <<>>) @@ parsed["_global"]

-----------------------------------------------------------------------------
\* The stage of step i and the number of steps of that stage up to it; the
\* id of a step is its own or is generated from these two.
StageCount(steps, i) ==
    Cardinality({j \in 1 .. i : steps[j].kids["call"] = steps[i].kids["call"]})

StepId(steps, i, ds) ==
    IF Has(steps[i], "id") THEN <<"own", steps[i].kids["id"].val>>
    ELSE IF StageCount(steps, i) = 1
         THEN <<"first", steps[i].kids["call"].val.text, ds>>
         ELSE <<"nth", steps[i].kids["call"].val.text, StageCount(steps, i)>>

\* parse_stage_config: what the parser of a stage insists on.  Parameters may
\* be given as empty (None in the code) where only their presence is tested.
Parsers ==
    [extract |-> [filled |-> {"object"}, present |-> {}, side |-> "source", mode |-> TRUE],
     write |-> [filled |-> {"target"}, present |-> {"object", "expected_count"},
                side |-> "target", mode |-> FALSE],
     publish |-> [filled |-> {"target", "staging_location"}, present |-> {"expected_count"},
                  side |-> "target", mode |-> TRUE]]

Empty(node) == node.type = "scalar" /\ node.val = Lit("")

Accepted(step, final) ==
    step.kids["call"].val.text \in DOMAIN Parsers =>
        LET p == Parsers[step.kids["call"].val.text]
            with == Get(step, "with", EmptyDict)
        IN /\ \A k \in p.filled \cup p.present : Has(with, k)
           /\ \A k \in p.filled : ~Empty(with.kids[k])
           /\ Has(final, p.side) /\ Has(final.kids[p.side], "connection")
           /\ p.mode => Has(final, "mode") /\ ~Empty(final.kids["mode"])

\* _build_dataset_context: strings, services, strings again, and each step
\* once more on its own.
BuildDatasetContext(ds, merged) ==
    LET scope == TemplateScope(ds, merged, files.job)
        final == Render(ResolveServiceRefs(Render(merged, scope)), scope)
        steps == [i \in DOMAIN final.kids["steps"].kids |->
                    Render(final.kids["steps"].kids[i], scope)]
    IN [steps |-> steps,
        ids |-> [i \in DOMAIN steps |-> StepId(steps, i, ds)],
        accepted |-> \A i \in DOMAIN steps : Accepted(steps[i], final),
        source |-> Get(final, "source", EmptyDict),
        overrides |-> ActiveOverrides(ds, ParseCliOverrides(files.settings)),
        scope |-> scope]

\* A refused dataset ends the build, and nothing is returned.
Conclude(ds, context) ==
    IF context.accepted
    THEN contexts' = contexts @@ (ds :> context) /\ UNCHANGED refused
    ELSE refused' = {ds} /\ UNCHANGED contexts

\* Defect: the steps of the job are expanded in place as well, and kept.
BuildKeepingSteps(ds) ==
    /\ refused = {} /\ ds \in DOMAIN files.datasets \ DOMAIN contexts
    /\ LET merged == ResolveMergedConfig(defaults, files.job, files.datasets[ds]) IN
       /\ Conclude(ds, BuildDatasetContext(ds, merged))
       /\ files' = IF Has(files.datasets[ds], "steps") \/ ~Has(files.job, "steps") THEN files
                   ELSE [files EXCEPT !.job = Put(files.job, "steps", merged.kids["steps"])]
    /\ UNCHANGED defaults

\* One round of the loop of build().  Steps are expanded in place: those of
\* the job and the dataset are copies made for this round, those of the
\* defaults stay as they are left for the rounds that follow.
Build(ds) ==
    /\ refused = {} /\ ds \in DOMAIN files.datasets \ DOMAIN contexts
    /\ LET merged == ResolveMergedConfig(defaults, files.job, files.datasets[ds]) IN
       /\ Conclude(ds, BuildDatasetContext(ds, merged))
       /\ defaults' = IF Has(files.datasets[ds], "steps") \/ Has(files.job, "steps")
                         \/ ~Has(defaults, "steps")
                      THEN defaults ELSE Put(defaults, "steps", merged.kids["steps"])
    /\ UNCHANGED files

Init ==
    /\ files \in Files
    /\ defaults = files.defaults
    /\ contexts = <<>>
    /\ refused = {}

Next == \E ds \in DOMAIN files.datasets : Build(ds)

-----------------------------------------------------------------------------
(* What a reader of the files expects *)

\* The layers that speak about the parameters of step i, the later the more
\* specific.
Layers(ds, steps, i) ==
    LET calls(tree) == Get(Get(tree, "calls", EmptyDict), steps[i].kids["call"].val.text, EmptyDict)
    IN <<FlattenDict(calls(files.defaults)), FlattenDict(calls(files.job)),
         FlattenDict(calls(files.datasets[ds])),
         FlattenDict(Get(steps[i], "with", EmptyDict))>>

Overlap(p, q) == \A n \in 1 .. (IF Len(p) < Len(q) THEN Len(p) ELSE Len(q)) : p[n] = q[n]

\* What a layer says holds unless a more specific one speaks about the same
\* path, about a part of it or about something it is part of.
Effective(layers) ==
    UNION {{<<p, layers[i][p]>> :
              p \in {q \in DOMAIN layers[i] :
                       \A j \in i + 1 .. Len(layers) :
                         \A r \in DOMAIN layers[j] : ~Overlap(q, r)}} : i \in DOMAIN layers}

\* A template followed to its end, as far as its keys are known.
RECURSIVE Followed(_, _, _)
Followed(v, scope, n) ==
    IF n = 0 THEN v ELSE Followed(RenderString(v, scope), scope, n - 1)

StepsOf(ds) ==
    Get(files.datasets[ds], "steps", Get(files.job, "steps",
        Get(files.defaults, "steps", List(<<>>)))).kids

\* The files give every step of the dataset what its stage insists on.
Sufficient(ds) ==
    \A i \in DOMAIN StepsOf(ds) :
        LET call == StepsOf(ds)[i].kids["call"].val.text
            said == Effective(Layers(ds, StepsOf(ds), i))
            top == Effective(<<FlattenDict(files.defaults), FlattenDict(files.job),
                               FlattenDict(files.datasets[ds])>>)
            p == Parsers[call]
        IN call \in DOMAIN Parsers =>
             /\ \A k \in p.filled : \E e \in said : Head(e[1]) = k /\ e[2] # Lit("")
             /\ \A k \in p.present : \E e \in said : Head(e[1]) = k
             /\ \E e \in top : Head(e[1]) = p.side /\ e[1][2] \in {"service_ref", "connection"}
             /\ p.mode => \E e \in top : e[1] = <<"mode">> /\ e[2] # Lit("")

\* Every parameter of every step of a dataset is what the most specific of
\* defaults, job, dataset and step says about it, with its templates followed
\* to the end and templates of later stages left alone -- whichever datasets
\* were built before (if the defaults bring no steps of their own); ids that
\* are generated are distinct, and a dataset is refused exactly if the files
\* withhold something one of its stages needs.
ParametersAsWritten ==
    /\ \A ds \in refused : ~Sufficient(ds)
    /\ \A ds \in DOMAIN contexts : Sufficient(ds)
    /\ \A ds \in DOMAIN contexts :
        LET steps == StepsOf(ds)
            built == contexts[ds]
        IN /\ ~Has(files.defaults, "steps") => \A i \in DOMAIN steps :
                LET got == FlattenDict(built.steps[i].kids["with"]) IN
                {<<p, got[p]>> : p \in DOMAIN got} =
                    {<<e[1], Followed(e[2], built.scope, 5)>> : e \in Effective(Layers(ds, steps, i))}
           /\ \A i, j \in DOMAIN steps : i # j /\ ~Has(steps[i], "id") /\ ~Has(steps[j], "id")
                => built.ids[i] # built.ids[j]

\* A connection is the service the most specific layer refers to, with the
\* templates of the service resolved, and an override for the dataset beats
\* one for all datasets, in whichever order they are given.
ConnectionsAndOverrides ==
    \A ds \in DOMAIN contexts :
        LET built == contexts[ds]
            ref == <<"source", "service_ref">>
            named == {e[2] : e \in {x \in Effective(<<FlattenDict(files.defaults),
                        FlattenDict(files.job), FlattenDict(files.datasets[ds])>>) : x[1] = ref}}
            given(scope, key) == {i \in DOMAIN files.settings :
                        files.settings[i].scope = scope /\ files.settings[i].key = key}
            wins(key, i) == i \in given(ds, key) \/ (given(ds, key) = {} /\ i \in given("_global", key))
        IN /\ \A v \in named : LET name == Followed(v, built.scope, 5) IN
                name.text \in DOMAIN Services =>
                  LET got == FlattenDict(built.source.kids["connection"])
                      want == FlattenDict(Services[name.text])
                  IN /\ DOMAIN got = DOMAIN want
                     /\ \A p \in DOMAIN want : got[p] = Followed(want[p], built.scope, 1)
           /\ \A key \in DOMAIN built.overrides : \E i \in DOMAIN files.settings :
                /\ wins(key, i) /\ files.settings[i].key = key
                /\ \A j \in DOMAIN files.settings : wins(key, j) => j <= i
                /\ built.overrides[key] = files.settings[i].value
           /\ \A i \in DOMAIN files.settings :
                files.settings[i].scope \in {ds, "_global"} =>
                    files.settings[i].key \in DOMAIN built.overrides
=============================================================================
