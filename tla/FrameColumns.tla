---------------------------- MODULE FrameColumns ----------------------------
(***************************************************************************)
(* The columns a frame of the source has when it is loaded: structs are    *)
(* flattened, names brought into the configured case, metadata columns     *)
(* injected.  Pure functions of the dataset d and the frame f; what they   *)
(* promise is the assumption on Prepare in TableContract.                  *)
(*                                                                         *)
(* A name is a sequence of tokens <<syllable, kind>>: "l" lower case, "C"  *)
(* capitalised, "U" upper case, "d" digits, "s" a separator.  A column of  *)
(* a frame is [name, id, fields]: its name, the source column the data     *)
(* came from, and the fields of a struct.  A dataset is configured by      *)
(* [type, style, flatten, meta, soft, evolve, ddl].                        *)
(***************************************************************************)
EXTENDS Integers, Sequences, FiniteSets

LOCAL INSTANCE SequencesExt

Sep(c) == <<c, "s">>
NamesOf(f) == {f[i].name : i \in DOMAIN f}
Internal(name) == Len(name) >= 2 /\ name[1] = Sep("_") /\ name[2] = Sep("_")
System(name) == name[1] = Sep("_")

PartitionDate == <<<<"partition", "l">>, Sep("_"), <<"date", "l">>>>
DeletedColumn == <<Sep("_"), <<"is", "l">>, Sep("_"), <<"deleted", "l">>>>
PartitionColumn == <<Sep("_"), Sep("_"), <<"partition", "l">>>>

-----------------------------------------------------------------------------
(* flatten_df *)

\* with_columns: a column of the same name is replaced where it is.
WithColumn(f, col) ==
    IF col.name \in NamesOf(f)
    THEN [i \in DOMAIN f |-> IF f[i].name = col.name THEN col ELSE f[i]]
    ELSE Append(f, col)

Structs(f) == SelectSeq(f, LAMBDA col : col.fields # <<>>)

\* One level: the fields become parent_child columns, the parent is dropped.
Unnest(f) ==
    LET expand(g, s) ==
          LET children == [i \in DOMAIN s.fields |->
                             [s.fields[i] EXCEPT !.name = s.name \o <<Sep("_")>> \o @]]
          IN SelectSeq(FoldLeft(WithColumn, g, children), LAMBDA col : col.name # s.name)
    IN FoldLeft(expand, f, Structs(f))

\* Zero means all levels, -1 none.
RECURSIVE FlattenDf(_, _)
FlattenDf(f, depth) ==
    IF depth = -1 \/ Structs(f) = <<>> THEN f
    ELSE IF depth = 1 THEN Unnest(f)
    ELSE FlattenDf(Unnest(f), IF depth = 0 THEN 0 ELSE depth - 1)

-----------------------------------------------------------------------------
(* format_column_name *)

\* Where a camel case name is broken.
Break(left, right) ==
    \/ right[2] = "C"
    \/ right[2] = "U" /\ left[2] \in {"l", "C", "d"}

Words(name) ==
    LET step(acc, tok) ==
          IF tok[2] = "s" THEN Append(acc, <<>>)
          ELSE IF Last(acc) # <<>> /\ Break(Last(Last(acc)), tok) THEN Append(acc, <<tok>>)
          ELSE [acc EXCEPT ![Len(acc)] = Append(@, tok)]
    IN SelectSeq(FoldLeft(step, <<<<>>>>, name), LAMBDA w : w # <<>>)

Recase(toks, case) ==
    [i \in DOMAIN toks |-> IF toks[i][2] \in {"s", "d"} THEN toks[i] ELSE <<toks[i][1], case>>]

\* str.capitalize, and str.title (a capital after everything but a letter).
Capitalize(toks) ==
    [i \in DOMAIN toks |-> IF i = 1 THEN Recase(toks, "C")[i] ELSE Recase(toks, "l")[i]]
Title(toks) ==
    [i \in DOMAIN toks |-> IF i = 1 \/ toks[i - 1][2] \in {"s", "d"}
                           THEN Recase(toks, "C")[i] ELSE Recase(toks, "l")[i]]

Joined(words, sep) ==
    FoldLeft(LAMBDA acc, w : acc \o <<Sep(sep)>> \o w, Head(words), Tail(words))

FormatColumnName(name, type, style) ==
    LET words == IF Words(name) = <<>> THEN <<name>> ELSE Words(name)
        styled == CASE style = "snake" -> Joined(words, "_")
                    [] style = "kebab" -> Joined(words, "-")
                    [] style = "camel" -> Recase(Head(words), "l")
                         \o FlattenSeq([i \in 1 .. Len(words) - 1 |-> Capitalize(words[i + 1])])
                    [] OTHER -> name
    IN CASE type = "lower" -> Recase(styled, "l")
         [] type = "upper" -> Recase(styled, "U")
         [] type = "caps" -> Capitalize(styled)
         [] type = "title" -> Title(styled)
         [] OTHER -> styled

-----------------------------------------------------------------------------
(* The frame that is loaded *)

\* The first of base, base_1, base_2 ... that is free.
UniqueName(base, taken) ==
    LET nth(k) == IF k = 0 THEN base ELSE base \o <<Sep("_"), <<ToString(k), "d">>>>
        k == CHOOSE k \in 0 .. Cardinality(taken) :
               nth(k) \notin taken /\ \A j \in 0 .. k - 1 : nth(j) \in taken
    IN nth(k)

\* _apply_casing: columns in their order, those with an underscore excepted.
ApplyCasing(d, f) ==
    LET rename(g, col) ==
          IF System(col.name) THEN Append(g, col)
          ELSE Append(g, [col EXCEPT !.name =
                 UniqueName(FormatColumnName(@, d.type, d.style),
                            {n \in NamesOf(g) : ~System(n)})])
    IN IF d.type = "none" /\ d.style = "none" THEN f
       ELSE FoldLeft(rename, <<>>, f)

\* _prepare_partitions
PreparePartitions(f) ==
    [i \in DOMAIN f |-> IF f[i].name = PartitionDate
                        THEN [f[i] EXCEPT !.name = PartitionColumn] ELSE f[i]]

\* _resolve_meta_columns: soft delete switches its column on, by its own name.
MetaColumns(d) ==
    LET enabled == {k \in DOMAIN d.meta : d.meta[k] # <<>>}
    IN IF d.soft
       THEN {d.meta[k] : k \in enabled \ {"deleted"}} \cup {DeletedColumn}
       ELSE {d.meta[k] : k \in enabled}

\* _inject_metadata: a column that has the name already is kept.
InjectMetadata(d, f) ==
    f \o SetToSeq({[name |-> m, id |-> <<m>>, fields |-> <<>>] :
                     m \in MetaColumns(d) \ NamesOf(f)})

Prepared(d, f) ==
    SelectSeq(InjectMetadata(d, ApplyCasing(d, PreparePartitions(FlattenDf(f, d.flatten)))),
              LAMBDA col : ~Internal(col.name))

-----------------------------------------------------------------------------
\* The columns of the source, down to the fields flattening has to reach.
RECURSIVE Leaves(_, _)
Leaves(f, depth) ==
    UNION {IF f[i].fields = <<>> \/ depth = -1 THEN {f[i].id}
           ELSE Leaves(f[i].fields, IF depth = 1 THEN -1 ELSE IF depth = 0 THEN 0 ELSE depth - 1) :
             i \in DOMAIN f}

\* Source columns another one hides: flattening parent {child} next to a
\* column that is called parent_child replaces that column.
Hidden(d, f) ==
    LET flat == FlattenDf(f, d.flatten)
    IN Leaves(f, d.flatten) \ {flat[i].id : i \in DOMAIN flat}

\* What the target owes the source: its columns, except those that are hidden
\* and those with an internal name.
Owed(d, f) ==
    Leaves(f, d.flatten) \ (Hidden(d, f) \cup
        {f[i].id : i \in {j \in DOMAIN f : Internal(f[j].name) \/ f[j].name = PartitionDate}})
=============================================================================
