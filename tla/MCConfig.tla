------------------------------ MODULE MCConfig ------------------------------
(* Configurations for ConfigResolution: layers that complete, contradict     *)
(* and hide one another, chains of templates, and steps at every level.      *)
EXTENDS ConfigTrees

Text(x) == Scalar(Lit(x))
Key(x, y) == Scalar(Ref(<<x, y>>))

Step(call, with) == Dict([call |-> Text(call), with |-> with])
MCSteps ==
    List(<<Step("extract", Dict([workers |-> Text("1"), opt |-> Dict([a |-> Key("dataset", "table")])])),
           Dict([call |-> Text("extract")]),
           Step("write", Dict([object |-> Key("upstream", "folder"), expected_count |-> Text("")]))>>)

Defaults ==
    Dict([calls |-> Dict(
        [extract |-> Dict([workers |-> Text("10"), object |-> Text("f"), opt |-> Dict([a |-> Text("a"), b |-> Text("b")])]),
         write |-> Dict([target |-> Key("dataset", "table")])]),
      mode |-> Text("")])

CallsOf(options) == Dict([extract |-> Dict([opt |-> options])])
NoTree == EmptyDict
AsTree(key, node) == Dict(key :> node)
Plus(s, t) == Dict(s.kids @@ t.kids)

Jobs ==
    {Plus(Plus(Dict([source |-> Dict([service_ref |-> ref]), prefix |-> Scalar(Env("PREFIX", "p")),
                     target |-> Dict([service_ref |-> Text("clickhouse")]), mode |-> Text("snapshot")]),
               calls), steps) :
        ref \in {Text("clickhouse"), Key("dataset", "table")},
        calls \in {NoTree, AsTree("calls", CallsOf(Text("off")))},
        steps \in {NoTree, AsTree("steps", MCSteps)}}

Datasets ==
    {Plus(Plus(Dict([table |-> table]), calls), more) :
        table \in {Text("T"), Key("job", "prefix"), Scalar(Ref(<<"dataset_id">>))},
        calls \in {NoTree, AsTree("calls", CallsOf(Dict([a |-> Text("x"), c |-> Key("job", "prefix")])))},
        more \in {NoTree, AsTree("mode", Text("")), AsTree("steps", MCSteps),
                  AsTree("source", Dict([service_ref |-> Text("files")])),
                  AsTree("source", Dict([service_ref |-> Text("unknown"), connection |-> Text("own")]))}}

Setting(scope, key, value) == [scope |-> scope, key |-> key, value |-> value]
SettingLists ==
    {<<>>,
     <<Setting("orders", "mode", "a"), Setting("_global", "mode", "b"), Setting("_global", "mode", "c")>>,
     <<Setting("_global", "mode", "d"), Setting("orders", "mode", "e"), Setting("orders", "mode", "f"),
       Setting("users", "limit", "g")>>}

\* The first dataset varies freely, its neighbour contradicts it.
MCFiles ==
    {[defaults |-> Plus(Defaults, dflt), job |-> job, settings |-> settings,
      datasets |-> [orders |-> ds,
                    users |-> Dict([table |-> Text("U"), calls |-> CallsOf(Dict([b |-> Text("y")]))])]] :
        dflt \in {NoTree, AsTree("steps", MCSteps)},
        job \in Jobs, ds \in Datasets, settings \in SettingLists}

MCServices ==
    [clickhouse |-> Dict([host |-> Text("h"), password |-> Scalar(Env("SECRET", ""))]),
     files |-> Dict([path |-> Key("job", "prefix")])]
MCEnviron == [SECRET |-> "s3cr3t"]
=============================================================================
