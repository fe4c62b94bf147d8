----------------------------- MODULE SqlCompile -----------------------------
(***************************************************************************)
(* The SQL compiler: from predicates, query contexts and table names to    *)
(* the statement a database executes, and what that statement then reads   *)
(* or changes.                                                             *)
(*                                                                         *)
(* Conditions are compiled to tokens and evaluated the way SQL does, AND   *)
(* before OR, because that is where text can betray the predicate it came  *)
(* from.  Statements keep their structure: a query is [with, from, where], *)
(* a reference is a table name, a parenthesised query, or bogus where the  *)
(* compiler puts text in a place no parser accepts it in.                  *)
(***************************************************************************)
EXTENDS Integers, Sequences, FiniteSets

LOCAL INSTANCE SequencesExt

CONSTANTS
    Contexts,    \* SQLContexts of extract steps
    Predicates,  \* lists of predicates
    Tables,      \* table names, as sequences of parts
    Home         \* database of the connection

VARIABLES
    ctx,         \* the context at hand
    preds,       \* the predicates at hand
    name,        \* the table at hand
    op,          \* the operation that was compiled last
    failed,      \* the compiler or the database refused it
    result,      \* rows it read, changed or kept
    looked       \* table the catalog query asked for

sqVars == <<ctx, preds, name, op, failed, result, looked>>

Columns == {"a", "b"}
AllRows == [Columns -> 0 .. 1]

-----------------------------------------------------------------------------
(* Conditions *)

Tok(t) == [t |-> t, col |-> "", vals |-> {}]
Atom(term) == [t |-> "atom", col |-> term.col, vals |-> term.vals]

\* A predicate is [kind, terms]: a raw string (terms an author wrote with OR
\* between them), a dict, a tuple with IN, an operator or EXISTS, nothing, or
\* something else.
JoinTerms(terms, word) ==
    FoldLeft(LAMBDA acc, term : acc \o <<Tok(word), Atom(term)>>, <<Atom(Head(terms))>>, Tail(terms))

Fragment(p) == JoinTerms(p.terms, IF p.kind = "raw" THEN "OR" ELSE "AND")

Given(ps) == SelectSeq(ps, LAMBDA p : p.kind # "nothing")

\* Defect: fragments are joined as they are.
JoinBare(fragments) ==
    FoldLeft(LAMBDA acc, f : acc \o (IF acc = <<>> THEN <<>> ELSE <<Tok("AND")>>) \o f,
             <<>>, fragments)

\* Every fragment in parentheses of its own.
JoinFragments(fragments) ==
    FoldLeft(LAMBDA acc, f : acc \o (IF acc = <<>> THEN <<>> ELSE <<Tok("AND")>>)
                                 \o <<Tok("(")>> \o f \o <<Tok(")")>>,
             <<>>, fragments)

Unsupported(ps) == \E i \in DOMAIN ps : ps[i].kind = "other"

CompileConditions(ps) ==
    JoinFragments([i \in DOMAIN Given(ps) |-> Fragment(Given(ps)[i])])

\* What a database makes of the tokens.
Depth(toks, i) ==
    Cardinality({j \in 1 .. i : toks[j].t = "("}) - Cardinality({j \in 1 .. i : toks[j].t = ")"})

RECURSIVE Holds(_, _)
Holds(toks, row) ==
    LET top(word) == {i \in DOMAIN toks : toks[i].t = word /\ Depth(toks, i) = 0}
        cut(word) == CHOOSE i \in top(word) : TRUE
        left(i) == SubSeq(toks, 1, i - 1)
        right(i) == SubSeq(toks, i + 1, Len(toks))
    IN CASE toks = <<>> -> TRUE
         [] top("OR") # {} -> Holds(left(cut("OR")), row) \/ Holds(right(cut("OR")), row)
         [] top("AND") # {} -> Holds(left(cut("AND")), row) /\ Holds(right(cut("AND")), row)
         [] toks[1].t = "(" -> Holds(SubSeq(toks, 2, Len(toks) - 1), row)
         [] OTHER -> row[toks[1].col] \in toks[1].vals

-----------------------------------------------------------------------------
(* Queries *)

Table(n) == [kind |-> "table", table |-> n, query |-> <<>>]
Sub(q) == [kind |-> "sub", table |-> "", query |-> <<q>>]
Bogus == [kind |-> "bogus", table |-> "", query |-> <<>>]

Failure == <<>>

\* compile_select_block: raw SQL stands alone, is wrapped if clauses come
\* with it; a block without a source, or with a predicate the compiler does
\* not know, is an error.
CompileSelectBlock(block) ==
    CASE block.sql = <<>> /\ block.from = "" -> Failure
      [] block.sql # <<>> /\ block.where = <<>> /\ block.from = "" -> block.sql
      [] Unsupported(block.where) -> Failure
      [] OTHER ->
           <<[with |-> <<>>,
              from |-> IF block.sql # <<>> THEN Sub(block.sql[1]) ELSE Table(block.from),
              where |-> CompileConditions(block.where)]>>

\* compile_context: ctes in their order, then the main block or everything
\* from the last cte.
CompileContext(c) ==
    IF c.sql # <<>> THEN c.sql
    ELSE LET bodies == [i \in DOMAIN c.ctes |-> CompileSelectBlock(c.ctes[i])]
             main == IF c.main # <<>> THEN CompileSelectBlock(c.main[1])
                     ELSE IF c.ctes # <<>>
                     THEN <<[with |-> <<>>, from |-> Table(Last(c.ctes).name), where |-> <<>>]>>
                     ELSE Failure
         IN IF main = Failure \/ \E i \in DOMAIN c.ctes : c.ctes[i].name = "" \/ bodies[i] = Failure
            THEN Failure
            ELSE <<[main[1] EXCEPT !.with =
                     [i \in DOMAIN c.ctes |-> [name |-> c.ctes[i].name, query |-> bodies[i][1]]]]>>

\* Defect: a query is used where a table name belongs.
NeverWrapped(q) == Bogus

\* format_table_ref: text that starts with SELECT is wrapped, text that
\* starts with WITH is taken for an identifier.
FormatTableRef(q) == IF q.with = <<>> THEN Sub(q) ELSE Bogus

\* The rows a query returns, or Failure; a name is a cte or a table.
RECURSIVE Run(_, _)
Run(q, env) ==
    LET bind(e, w) ==
          [n \in DOMAIN e \cup {w.name} |-> IF n = w.name THEN Run(w.query, e) ELSE e[n]]
        scope == FoldLeft(bind, env, q.with)
        source == CASE q.from.kind = "sub" -> Run(q.from.query[1], scope)
                    [] q.from.kind = "table" /\ q.from.table \in DOMAIN scope -> scope[q.from.table]
                    [] OTHER -> Failure
    IN IF source = Failure THEN Failure
       ELSE <<{row \in source[1] : Holds(q.where, row)}>>

Database == [t \in {"t"} |-> <<AllRows>>]

-----------------------------------------------------------------------------
(* Operations *)

Outcome(o, rows) ==
    /\ op' = o
    /\ failed' = (rows = Failure)
    /\ result' = IF rows = Failure THEN {} ELSE rows[1]
    /\ UNCHANGED <<ctx, preds, name, looked>>

Compiled == CompileContext(ctx)

\* build_sql("select"): the compiled query as a subquery, the predicates on it.
Select ==
    /\ op = "none"
    /\ Outcome("select",
         IF Compiled = Failure \/ Unsupported(preds) THEN Failure
         ELSE Run([with |-> <<>>, from |-> FormatTableRef(Compiled[1]),
                   where |-> CompileConditions(preds)], Database))

\* _count_rows swallows every error and answers 0.
CountRows ==
    /\ op = "none" /\ Compiled # Failure
    /\ LET rows == Run([with |-> <<>>, from |-> FormatTableRef(Compiled[1]), where |-> <<>>], Database)
       IN Outcome("count", IF rows = Failure THEN <<{}>> ELSE rows)

\* delete from t: a single string follows WHERE as it is, a list loses the
\* keyword and the statement is refused.
MergeDelete ==
    /\ op = "none"
    /\ Outcome("delete",
         CASE preds = <<>> -> <<{}>>
           [] Unsupported(preds) -> Failure
           [] Len(preds) = 1 /\ preds[1].kind = "raw" ->
                <<{row \in AllRows : ~Holds(Fragment(preds[1]), row)}>>
           [] Given(preds) = <<>> -> <<{}>>
           [] OTHER -> Failure)

\* insert into ... select ... from the compiled query.
MergeInsert ==
    /\ op = "none"
    /\ Outcome("insert",
         IF Compiled = Failure \/ Unsupported(preds) THEN Failure
         ELSE Run([with |-> <<>>, from |-> FormatTableRef(Compiled[1]),
                   where |-> CompileConditions(preds)], Database))

\* alter table t update: a string is used as it is, nothing means 1=1.
Update ==
    /\ op = "none" /\ Len(preds) <= 1 /\ (preds # <<>> => preds[1].kind \in {"raw", "nothing"})
    /\ Outcome("update", <<{row \in AllRows :
                              Given(preds) # <<>> => Holds(Fragment(preds[1]), row)}>>)

-----------------------------------------------------------------------------
(* Names *)

\* validate_identifier: keys are filled from the right.
ValidateIdentifier(parts) ==
    [database |-> IF Len(parts) >= 3 THEN parts[Len(parts) - 2] ELSE "",
     schema |-> IF Len(parts) >= 2 THEN parts[Len(parts) - 1] ELSE "",
     table |-> Last(parts)]

\* parse_table_components
ParseTableComponents(parts) ==
    LET c == ValidateIdentifier(parts)
    IN [schema |-> CASE c.schema # "" -> c.schema [] c.database # "" -> c.database [] OTHER -> "default",
        table |-> c.table]

\* table_exists and columns ask the catalog for schema and table.
LookUp ==
    /\ op = "none"
    /\ op' = "exists" /\ failed' = (Len(name) > 3)
    /\ looked' = IF Len(name) > 3 THEN looked ELSE ParseTableComponents(name)
    /\ UNCHANGED <<ctx, preds, name, result>>

Init ==
    /\ ctx \in Contexts /\ preds \in Predicates /\ name \in Tables
    /\ op = "none" /\ failed = FALSE /\ result = {} /\ looked = [schema |-> "", table |-> ""]

Next ==
    \/ Select \/ CountRows \/ MergeDelete \/ MergeInsert \/ Update
    \/ LookUp

-----------------------------------------------------------------------------
(* What was asked for *)

Means(p, row) ==
    IF p.kind = "raw" THEN \E i \in DOMAIN p.terms : row[p.terms[i].col] \in p.terms[i].vals
    ELSE \A i \in DOMAIN p.terms : row[p.terms[i].col] \in p.terms[i].vals

Meeting(rows, ps) == {row \in rows : \A i \in DOMAIN ps : Means(ps[i], row)}

\* Each block narrows its source by its predicates.
Wanted ==
    LET rowsOf(block, env) ==
          Meeting(IF block.sql # <<>> THEN Run(block.sql[1], env)[1] ELSE env[block.from][1],
                  block.where)
        bind(env, cte) == [n \in DOMAIN env \cup {cte.name} |->
                             IF n = cte.name THEN <<rowsOf(cte, env)>> ELSE env[n]]
        scope == FoldLeft(bind, Database, ctx.ctes)
    IN CASE ctx.sql # <<>> -> Run(ctx.sql[1], Database)[1]
         [] ctx.main # <<>> -> rowsOf(ctx.main[1], scope)
         [] OTHER -> scope[Last(ctx.ctes).name][1]

\* A block lacks a source, a cte its name, or one has a predicate the compiler
\* does not know; nothing is left of such a context.
Incomplete ==
    LET blocks == {ctx.ctes[i] : i \in DOMAIN ctx.ctes} \cup {ctx.main[i] : i \in DOMAIN ctx.main} IN
    /\ ctx.sql = <<>>
    /\ \/ ctx.ctes = <<>> /\ ctx.main = <<>>
       \/ \E i \in DOMAIN ctx.ctes : ctx.ctes[i].name = ""
       \/ \E b \in blocks : (b.sql = <<>> /\ b.from = "") \/ Unsupported(b.where)

\* A statement reads, changes or keeps exactly the rows its context and its
\* predicates name, however they nest, unless it is refused: and it is refused
\* for want of a source, for a predicate the compiler does not know, for a
\* query with ctes (and never runs, though _partition_load is to wrap "complex
\* CTE blocks" and _count_rows to count them: such a query counts as empty),
\* for a delete with a list of predicates, and for no other reason.  Catalog
\* queries ask for the table that statements use, unless the name has no schema
\* and the connection is not to "default".
RowsAsAsked ==
    LET ctes == ~Incomplete /\ (IF ctx.sql # <<>> THEN ctx.sql[1].with # <<>>
                                ELSE ctx.ctes # <<>> \/ Compiled[1].with # <<>>) IN
    /\ op \in {"select", "insert"} =>
         /\ failed <=> Incomplete \/ ctes \/ Unsupported(preds)
         /\ ~failed => result = Meeting(Wanted, preds)
    /\ op = "count" => ~Incomplete /\ result = IF ctes THEN {} ELSE Wanted
    /\ op = "delete" =>
         /\ failed <=> \/ Unsupported(preds)
                       \/ Given(preds) # <<>> /\ (Len(preds) > 1 \/ preds[1].kind # "raw")
         /\ ~failed => result = AllRows \ Meeting(AllRows, preds)
    /\ op = "update" => result = Meeting(AllRows, preds)
    /\ op = "exists" /\ ~failed /\ (Len(name) = 1 => Home = "default") =>
         looked = [schema |-> IF Len(name) = 1 THEN Home ELSE name[Len(name) - 1],
                   table |-> Last(name)]
=============================================================================
