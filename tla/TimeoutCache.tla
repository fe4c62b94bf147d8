---------------------------- MODULE TimeoutCache ----------------------------
(***************************************************************************)
(* The cache of stage timeouts (TimeoutMonitor).  Tasks are created by the *)
(* engine thread and by the poll thread of the daemon, and concluded by    *)
(* the engine thread; every section under _cache_lock is one action, and   *)
(* the batched query runs between two of them.                             *)
(*                                                                         *)
(* An entry holds the stages it has a timeout for, the query it came from  *)
(* and whether its time to live has run out; the seconds themselves are    *)
(* left out.  The reference count is kept per cache key.                   *)
(***************************************************************************)
EXTENDS Integers, FiniteSets

CONSTANTS
    Tasks,       \* tasks of one job and dataset
    Stages,      \* ALL_STAGES
    StepOf,      \* [Tasks -> step_id of the task]: "start", which is a stage, when
                 \* it is submitted; a step of its plan ("extract_sales_data",
                 \* "extract_2"), which is none, when it is recovered or resumed
    MaxExpiries  \* times the time to live runs out

MonitorAssumption == IsFiniteSet(Tasks) /\ Stages # {} /\ MaxExpiries \in Nat

VARIABLES
    entry,       \* the cached dataset, or NoEntry
    count,       \* _active_task_counts of the dataset's key
    pc,          \* [Tasks -> progress of create_timeout_state]
    got,         \* [Tasks -> stage_timeout and budget: where they came from]
    queries,     \* batched queries executed
    expiries     \* times the entries went stale

tcVars == <<entry, count, pc, got, queries, expiries>>

NoEntry == [stages |-> {}, from |-> 0, stale |-> FALSE]

\* Sources of a value: the number of the query, or 0 for STAGE_DEFAULTS.
Nothing == [timeout |-> 0, budget |-> [s \in Stages |-> 0]]

Init ==
    /\ entry = NoEntry
    /\ count = 0
    /\ pc = [t \in Tasks |-> "new"]
    /\ got = [t \in Tasks |-> Nothing]
    /\ queries = 0
    /\ expiries = 0

Goto(t, place) == pc' = [pc EXCEPT ![t] = place]

-----------------------------------------------------------------------------
(* create_timeout_state *)

\* Defect: the task is counted once its timeouts are resolved.
CountLater(t) ==
    /\ pc[t] = "new"
    /\ Goto(t, "lookup")
    /\ UNCHANGED <<entry, count, got, queries, expiries>>

\* The task is counted before anything is looked up.
CountTask(t) ==
    /\ pc[t] = "new"
    /\ count' = count + 1
    /\ Goto(t, "lookup")
    /\ UNCHANGED <<entry, got, queries, expiries>>

\* _get_cached_timeout: a stale stage entry is removed on the way.
GetCachedTimeout(t) ==
    /\ pc[t] = "lookup"
    /\ LET hit == StepOf[t] \in entry.stages IN
       /\ Goto(t, IF hit /\ ~entry.stale THEN "budget" ELSE "ensure_timeout")
       /\ got' = IF hit /\ ~entry.stale
                 THEN [got EXCEPT ![t].timeout = entry.from] ELSE got
       /\ entry' = IF hit /\ entry.stale
                   THEN LET left == entry.stages \ {StepOf[t]}
                        IN IF left = {} THEN NoEntry ELSE [entry EXCEPT !.stages = left]
                   ELSE entry
    /\ UNCHANGED <<count, queries, expiries>>

\* ensure_dataset_timeouts: _is_dataset_cached is decided under the lock, the
\* query it triggers runs outside.
Cached == entry.stages # {} /\ ~entry.stale

Ensure(t) ==
    /\ pc[t] \in {"ensure_timeout", "budget"}
    /\ Goto(t, CASE Cached /\ pc[t] = "budget" -> "sum"
                 [] Cached -> "retrieve"
                 [] pc[t] = "budget" -> "fetch_budget"
                 [] OTHER -> "fetch_timeout")
    /\ UNCHANGED <<entry, count, got, queries, expiries>>

\* fetch_p95_stage_durations asks for rows whose JOB_ID is the job and one of
\* the stages: it finds nothing, unless the job is called like a stage.
P95StageDurations == {{}} \cup {{s} : s \in Stages}

\* Defect: stages the query does not return get no timeout.
PartialFetch(found) == found

\* _pre_fetch_stage_timeouts: history where there is enough of it, defaults
\* for the rest, and defaults for everything when the query fails.
Fetched(found) == Stages

\* _cache_timeouts_for_job_dataset overwrites stage by stage.
PreFetch(t) ==
    /\ pc[t] \in {"fetch_timeout", "fetch_budget"}
    /\ queries' = queries + 1
    /\ \E found \in P95StageDurations :
         entry' = [stages |-> entry.stages \cup Fetched(found), from |-> queries',
                   stale |-> FALSE]
    /\ Goto(t, IF pc[t] = "fetch_budget" THEN "sum" ELSE "retrieve")
    /\ UNCHANGED <<count, got, expiries>>

\* resolve_timeout reads back what it made sure of.  An id that is no stage was
\* in no query, and the task gets the default of unknown stages.
Retrieve(t) ==
    /\ pc[t] = "retrieve"
    /\ got' = IF StepOf[t] \in entry.stages
              THEN [got EXCEPT ![t].timeout = entry.from] ELSE got
    /\ Goto(t, "budget")
    /\ UNCHANGED <<entry, count, queries, expiries>>

\* resolve_budget adds up all stages in one section, missing ones by default.
SumBudget(t) ==
    /\ pc[t] = "sum"
    /\ got' = [got EXCEPT ![t].budget =
                 [s \in Stages |-> IF s \in entry.stages THEN entry.from ELSE 0]]
    /\ Goto(t, "active")
    /\ UNCHANGED <<entry, count, queries, expiries>>

-----------------------------------------------------------------------------
\* release_dataset_cache.  The monitor documents the job id as its argument;
\* the task manager passes the run id, under which nobody is counted and
\* nothing is cached.
Release(t, key) ==
    /\ pc[t] = "active"
    /\ IF key = "job"
       THEN /\ count' = IF count - 1 <= 0 THEN 0 ELSE count - 1
            /\ entry' = IF count - 1 <= 0 THEN NoEntry ELSE entry
       ELSE UNCHANGED <<entry, count>>
    /\ Goto(t, "released")
    /\ UNCHANGED <<got, queries, expiries>>

\* Twenty-four hours pass; nothing calls cleanup_stale_cache.
Expire ==
    /\ expiries < MaxExpiries
    /\ entry.stages # {}
    /\ expiries' = expiries + 1
    /\ entry' = [entry EXCEPT !.stale = TRUE]
    /\ UNCHANGED <<count, pc, got, queries>>

Create(t) ==
    \/ CountTask(t) \/ GetCachedTimeout(t) \/ Ensure(t) \/ PreFetch(t)
    \/ Retrieve(t) \/ SumBudget(t)

Next == Expire \/ \E t \in Tasks : Create(t) \/ \E key \in {"job", "run"} : Release(t, key)

-----------------------------------------------------------------------------
\* The budget a task gets is a sum over one query's answer, whatever its step:
\* no conclusion of another task, under whichever key, takes the entry away
\* between the query and the sum, so no stage silently falls back to its
\* default.  Its timeout comes from an answer exactly when it begins at a stage:
\* a task that is recovered or resumed at a step of its plan has the default
\* timeout however much history there is.  (When the time to live runs out just
\* then, a lookup that removes its stale stage can also lose the answer.)
BudgetOfOneQuery ==
    expiries = 0 => \A t \in Tasks : pc[t] \in {"active", "released"} =>
        /\ got[t].timeout # 0 <=> StepOf[t] \in Stages
        /\ \E q \in 1 .. queries : \A s \in Stages : got[t].budget[s] = q
=============================================================================
