----------------------------- MODULE RunReport -----------------------------
(***************************************************************************)
(* What is reported of a run: a worker executes its steps and keeps the    *)
(* manifest, whose signals the driver handles some time later, reading the *)
(* manifest as it is by then; the update that results goes to the record   *)
(* of the run, which the poll of the database replaces at any time, and to *)
(* the execution log.  One run; remarks are reduced to their source.       *)
(***************************************************************************)
EXTENDS Integers, Sequences, FiniteSets, FiniteSetsExt

CONSTANTS
    Pipelines,      \* sequences of [id, stage]: the steps within the bounds of the run
    Rows,           \* rows a step may have processed
    MaxExecutions,  \* bound: step executions
    MaxPolls        \* bound: polls

\* The ids of the steps of a pipeline differ.
ReportAssumption ==
    \A p \in Pipelines :
        /\ p \in Seq([id : STRING, stage : STRING]) /\ p # <<>>
        /\ \A i, j \in DOMAIN p : p[i].id = p[j].id => i = j

VARIABLES
    steps,          \* the steps of the run
    manifest,       \* [status, step, payloads, error]
    phase,          \* of the step: "queued", "running", "saved", "erred" or "ended"
    signals,        \* signals that wait (all look alike)
    record,         \* status in the store, or "none"
    report,         \* the last update that went to the log
    executions, polls

rpVars == <<steps, manifest, phase, signals, record, report, executions, polls>>

Ids == [i \in DOMAIN steps |-> steps[i].id]
Position(id) == CHOOSE i \in DOMAIN steps : steps[i].id = id
StageOf(id) == steps[Position(id)].stage

Terminal == {"SUCCESS", "FAILED"}
NoReport == [status |-> "none", index |-> 0, rows |-> 0, remarks |-> "none", end |-> 0]

-----------------------------------------------------------------------------
(* TaskManifestView *)

\* Each step once, in the order of the first execution: its first payload.
CompletedStepIds ==
    {i \in DOMAIN manifest.payloads :
        \A j \in 1 .. i - 1 : manifest.payloads[j].step # manifest.payloads[i].step}

LastOf(completed) == IF completed = {} THEN "none" ELSE manifest.payloads[Max(completed)].step

\* Defect: the step that was completed last, also for one that runs again.
LastCompleted(id) == LastOf(CompletedStepIds)

\* The last of those completed, of a step that is among them the one before it.
GetUpstreamStepId(id) ==
    LastOf({i \in CompletedStepIds :
              \A j \in CompletedStepIds : manifest.payloads[j].step = id => i < j})

-----------------------------------------------------------------------------
(* StateSource *)

\* "Step index of total".
CalculateStepProgress(status) ==
    IF status = "SUCCESS" THEN Len(steps)
    ELSE IF \E i \in DOMAIN steps : Ids[i] = manifest.step THEN Position(manifest.step)
    ELSE Min({Len(steps),
              Cardinality({i \in DOMAIN steps :
                 \E j \in CompletedStepIds : manifest.payloads[j].step = Ids[i]}) + 1})

\* A publish counts, the last one; without one the first write.
Executed(stage) == {i \in DOMAIN manifest.payloads : StageOf(manifest.payloads[i].step) = stage}

ExtractRowCounts ==
    IF Executed("publish") # {} THEN manifest.payloads[Max(Executed("publish"))].rows
    ELSE IF Executed("write") # {} THEN manifest.payloads[Min(Executed("write"))].rows
    ELSE 0

BuildRemarks(status) ==
    CASE status = "RETRY" -> "attempt"
      [] status = "BLOCKED" -> IF manifest.error THEN "error" ELSE "service"
      [] status = "FAILED" /\ manifest.error -> "error"
      [] OTHER -> "none"

\* The end of a run is the end of its last payload, as an index here.
ExtractTimestamps == IF manifest.status \in Terminal THEN Len(manifest.payloads) ELSE 0

ParseUpdate ==
    [status |-> manifest.status,
     index |-> CalculateStepProgress(manifest.status),
     rows |-> ExtractRowCounts,
     remarks |-> BuildRemarks(manifest.status),
     end |-> ExtractTimestamps]

\* Without a record the update cannot be made; one that would revert a
\* terminal state is dropped.
SyncManifest ==
    /\ signals > 0 /\ signals' = signals - 1
    /\ IF record # "none" /\ ~(record \in Terminal /\ manifest.status \notin Terminal)
       THEN report' = ParseUpdate /\ record' = manifest.status
       ELSE UNCHANGED <<report, record>>
    /\ UNCHANGED <<steps, manifest, phase, executions, polls>>

\* refresh replaces all records with those of the database, where the rows of
\* the log carry no run id and the run looks as it was scheduled.
Poll ==
    /\ polls < MaxPolls /\ polls' = polls + 1
    /\ record' \in {"PENDING", "none"}
    /\ UNCHANGED <<steps, manifest, phase, signals, report, executions>>

-----------------------------------------------------------------------------
(* The worker executes the step; the driver applies its outcome, which    *)
(* ends with a signal.                                                      *)

\* The manifest is told that the step runs only when it is tried again.
EnterStep ==
    /\ phase = "queued" /\ executions < MaxExecutions
    /\ phase' = "running" /\ executions' = executions + 1
    /\ manifest' = [manifest EXCEPT !.status = IF @ = "RETRY" THEN "RUNNING" ELSE @]
    /\ UNCHANGED <<steps, signals, record, report, polls>>

SavePayload(rows) ==
    /\ phase = "running" /\ phase' = "saved"
    /\ manifest' = [manifest EXCEPT !.payloads = Append(@, [step |-> manifest.step, rows |-> rows])]
    /\ UNCHANGED <<steps, signals, record, report, executions, polls>>

\* An error of the stage itself is in the manifest, as a failure, before the
\* driver decides what comes of it; an error of a hook is not.
RecordError(stage) ==
    /\ phase = "running" \/ (phase = "saved" /\ ~stage)
    /\ phase' = "erred"
    /\ manifest' = IF stage THEN [manifest EXCEPT !.status = "FAILED", !.error = TRUE] ELSE manifest
    /\ UNCHANGED <<steps, signals, record, report, executions, polls>>

Conclude(m) ==
    /\ manifest' = m
    /\ phase' = IF m.status \in Terminal THEN "ended" ELSE "queued"
    /\ signals' = signals + 1
    /\ UNCHANGED <<steps, record, report, executions, polls>>

CompleteStep ==
    LET i == Position(manifest.step) IN
    /\ phase = "saved"
    /\ Conclude(IF i = Len(steps) THEN [manifest EXCEPT !.status = "SUCCESS"]
                ELSE [manifest EXCEPT !.status = "WAITING", !.step = Ids[i + 1]])

\* Transient errors, an unavailable service, errors that end the run.
StopStep(status) ==
    /\ phase = "erred"
    /\ Conclude([manifest EXCEPT !.status = status, !.error = TRUE])

Init ==
    /\ steps \in Pipelines
    /\ manifest = [status |-> "UNKNOWN", step |-> steps[1].id, payloads |-> <<>>, error |-> FALSE]
    /\ phase = "queued"
    /\ signals = 0 /\ record = "PENDING" /\ report = NoReport
    /\ executions = 0 /\ polls = 0

Next ==
    \/ SyncManifest \/ Poll \/ EnterStep \/ CompleteStep
    \/ \E n \in Rows : SavePayload(n)
    \/ \E stage \in BOOLEAN : RecordError(stage)
    \/ \E s \in {"RETRY", "BLOCKED", "FAILED"} : StopStep(s)

-----------------------------------------------------------------------------
\* The rows of the last publish; without one, those of a write, if any ran.
RowsInTarget ==
    /\ Executed("publish") # {} =>
         \E i \in Executed("publish") :
            /\ report.rows = manifest.payloads[i].rows
            /\ \A j \in Executed("publish") : j <= i
    /\ Executed("publish") = {} /\ Executed("write") # {} =>
         \E i \in Executed("write") : report.rows = manifest.payloads[i].rows
    /\ Executed("publish") = {} /\ Executed("write") = {} => report.rows = 0

\* Whenever all signals of a run have been handled and its record was not
\* taken away by a poll, what was reported last is how the run stands: its
\* status, position and reason, and the rows in the target, or those of one of
\* the writes while nothing has been published.  The one exception: a late
\* signal may have reported the failure a stage records before the driver
\* decides to try it again, and nothing but the end of the run is reported
\* after that.  And a step that is run again is given as its input what the step
\* before it has made, also if its own payload had been saved.
ReportTruthful ==
    /\ report.status # "none" => report.index \in 1 .. Len(steps)
    /\ (signals = 0 /\ polls = 0 /\ report.status # "none" /\ phase \in {"queued", "ended"}) =>
          \/ report.status = "FAILED" /\ manifest.status \notin Terminal /\ manifest.error
          \/ /\ report.status = manifest.status
             /\ report.index = Position(manifest.step)
             /\ (report.remarks = "error") <=> (manifest.status \in {"BLOCKED", "FAILED"})
             /\ report.end # 0 => report.end = Len(manifest.payloads) /\ report.status \in Terminal
             /\ RowsInTarget
    /\ phase \in {"queued", "running"} =>
          GetUpstreamStepId(manifest.step) =
             IF Position(manifest.step) = 1 THEN "none" ELSE Ids[Position(manifest.step) - 1]
=============================================================================
