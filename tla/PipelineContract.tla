-------------------------- MODULE PipelineContract --------------------------
(***************************************************************************)
(* What the ingestion engine promises of a task run, seen from outside:    *)
(* its steps complete in order, it succeeds only when every step of the    *)
(* range has completed, its record is deleted only after that, and a       *)
(* verdict is left only by a resume.  The queue, the cache, the workers,   *)
(* the manifest and the signals of module TaskLifecycle implement this.    *)
(***************************************************************************)
EXTENDS Naturals

CONSTANTS
    Runs,       \* the task runs
    AllSteps,   \* the steps of the pipeline
    Required    \* the steps in the range of the run

VARIABLES
    st,         \* verdict on the run
    done        \* the steps of the run that have completed

cvars == <<st, done>>

CInit ==
    /\ st = [r \in Runs |-> "new"]
    /\ done = [r \in Runs |-> {}]

Become(r, v) == st' = [st EXCEPT ![r] = v] /\ UNCHANGED done

CStart(r) == st[r] = "new" /\ Become(r, "live")

CResume(r) == st[r] \in {"FAILED", "lost"} /\ Become(r, "live")

\* A success that is resumed starts over, or goes on with its record.
CReopen(r) ==
    /\ st[r] = "SUCCESS"
    /\ st' = [st EXCEPT ![r] = "live"]
    /\ done' \in {done, [done EXCEPT ![r] = {}]}

CFail(r) == st[r] = "live" /\ Become(r, "FAILED")

CSucceed(r) == st[r] = "live" /\ Required \subseteq done[r] /\ Become(r, "SUCCESS")

\* A step completes when all steps of the range before it have.
CompleteStep(r, s) ==
    /\ st[r] = "live"
    /\ \A q \in Required : q < s => q \in done[r]
    /\ done' = [done EXCEPT ![r] = @ \cup {s}]
    /\ UNCHANGED st

\* The record of a successful run is deleted.
Reclaim(r) ==
    /\ st[r] = "SUCCESS"
    /\ done' = [done EXCEPT ![r] = {}]
    /\ UNCHANGED st

\* A process dies: the runs it was working on are lost together.
Lose(S) ==
    /\ \A r \in S : st[r] = "live"
    /\ st' = [r \in Runs |-> IF r \in S THEN "lost" ELSE st[r]]
    /\ UNCHANGED done

CNext ==
    \/ \E r \in Runs : CStart(r) \/ CResume(r) \/ CReopen(r) \/ CFail(r) \/ CSucceed(r) \/ Reclaim(r)
    \/ \E r \in Runs, s \in AllSteps : CompleteStep(r, s)
    \/ \E S \in SUBSET Runs : Lose(S)

CSpec == CInit /\ [][CNext]_cvars
=============================================================================
