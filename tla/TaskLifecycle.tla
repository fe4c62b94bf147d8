--------------------------- MODULE TaskLifecycle ---------------------------
(***************************************************************************)
(* The life of a task run in the ingestion engine: admission, the          *)
(* persistent task queue, the dispatch tick of the engine thread, the Ray  *)
(* worker that executes one step, the outcome the driver derives from it,  *)
(* and the signal files that report it.                                    *)
(*                                                                         *)
(* Sources: common/task/{manager,outcome,cache,executor,session,queue}.py, *)
(* contexts/task.py, common/{orchestrator,signals,janitor}.py and          *)
(* modes/daemon/{runtime,manager}.py under apps/ingestion/src/core.        *)
(*                                                                         *)
(* A run is enqueued by start_job and by a RESUME command.  Neither looks  *)
(* at the state of the run; the operator of this module names only runs    *)
(* that nothing handles (any of them: failed, dropped or successful), so   *)
(* that a run has one queue message at a time.  A run that is enqueued     *)
(* twice is in module DaemonEngine.  The queue message, the hot-cache      *)
(* entry and the worker's copy of the metadata are then serialisations of  *)
(* one object, meta[r].                                                    *)
(*                                                                         *)
(* The result of a worker crosses a process boundary as a pickle.          *)
(* RollbackRequired does not survive that: it hands only its reason to     *)
(* Exception.__init__ and cannot be rebuilt from it.  RollbackOutcome is   *)
(* therefore never reached, every rollback stack is empty, and neither is  *)
(* in this module.                                                         *)
(*                                                                         *)
(* Steps are numbered in execution order; step 1 is "start".               *)
(***************************************************************************)
EXTENDS Naturals, Sequences, FiniteSets

CONSTANTS
    Runs,         \* the task runs
    NumSteps,     \* number of steps of the pipeline, "start" included
    FromStep,     \* TaskContext.from_step
    ToStep,       \* TaskContext.to_step
    StageOf,      \* the stage each step belongs to
    Services,     \* the names a TryAgainLater or OutOfDiskSpace can carry
    NoService,    \* blocked_by = None
    Exceptions,   \* the kinds of exception a stage may raise
    UtcOffset,    \* where the host's wall clock is: "west", "utc" or "east"
    RetryLimit,   \* 3 in is_retryable
    MaxBlocks,    \* bound: how often a stage may find a service unavailable
    MaxDeaths,    \* bound: worker deaths and driver crashes
    MaxResumes,   \* bound: RESUME commands
    MaxDrains     \* bound: STOP commands

Steps == 1..NumSteps

Stages == {"start", "extract", "transform", "write", "publish", "archive"}

ExceptionKinds == {"transient", "fatal", "blocked", "rollback"}

NoRun == "no_run"

ASSUME ConstantsAssumption ==
    /\ NoRun \notin Runs
    /\ NumSteps \in Nat \ {0}
    /\ FromStep \in Steps /\ ToStep \in Steps /\ FromStep =< ToStep
    /\ StageOf \in [Steps -> Stages] /\ StageOf[1] = "start"
    /\ NoService \notin Services
    /\ Exceptions \subseteq ExceptionKinds
    /\ UtcOffset \in {"west", "utc", "east"}
    /\ RetryLimit \in Nat
    /\ MaxBlocks \in Nat /\ MaxDeaths \in Nat /\ MaxResumes \in Nat
    /\ MaxDrains \in Nat

VARIABLES
    queued,     \* runs with a message in the task queue
    processing, \* runs whose message was popped and not acknowledged
    meta,       \* TaskMetadata of the run
    keys,       \* hot-cache keys of the run: <<status, step>> pairs
    worker,     \* what the Ray task of the run is doing; "none": not in active_tasks
    folder,     \* the workspace: "none", "ACTIVE", or "bare", without its configuration
    manifest,   \* manifest.json
    markers,    \* RETRY and BLOCKED marker files in the workspace
    signals,    \* files in the signal folder: <<run, extension>> pairs
    attempt,    \* where next_attempt_ts lies: see seconds_diff below
    verdict,    \* how the current enqueue of the run ended
    pc,         \* where the engine thread is in its loop
    snap,       \* what is left of the snapshot the engine thread iterates over
    cur,        \* the run the engine thread is handling
    dir,        \* the OutcomeResolution being applied
    stopping,   \* exec_ctx.stop_at_ts is set
    budgets     \* what is left of the four bounds above

engineVars == <<pc, snap, cur, dir, stopping>>
diskVars == <<folder, manifest, markers>>
vars == <<queued, processing, meta, keys, worker, folder, manifest, markers,
          signals, attempt, verdict, pc, snap, cur, dir, stopping, budgets>>

NoDir == [action |-> "none", status |-> "WAITING", step |-> 0,
          blocked |-> NoService]
LiveStatus == {"WAITING", "DISPATCHED", "RUNNING", "RETRY", "BLOCKED"}
Status == LiveStatus \cup {"SUCCESS"}
ManifestStatus == {"UNKNOWN", "RUNNING", "WAITING", "RETRY", "BLOCKED",
                   "SUCCESS", "FAILED", "PENDING"}
Finished == {"ok", "transient", "fatal", "blocked", "rollback"}
Crashed == {"dead", "bootstrap"}
InSession == {"entering", "counted", "running", "saved"}

(***************************************************************************)
(* TaskContext: the steps of the run, in execution order.                  *)
(***************************************************************************)
get_step_ids == FromStep..ToStep

get_next_step_id(s) ==
    IF s \in get_step_ids /\ s + 1 \in get_step_ids THEN s + 1 ELSE 0

\* Defect: "start" is not among the required steps.
is_complete_no_start(done) == get_step_ids \ {1} = done

\* Defect: one step may be missing.
is_complete_off_by_one(done) == Cardinality(done) + 1 >= Cardinality({1} \cup get_step_ids)

is_complete(done) == {1} \cup get_step_ids = done

(***************************************************************************)
(* Metadata, manifest and the rotation of the hot-cache key.               *)
(***************************************************************************)
FreshMeta(step) ==
    [step |-> step, status |-> "WAITING", blocked |-> NoService]

\* err: the manifest holds an ErrorInfo with all the fields it requires.
NoManifest ==
    [there |-> FALSE, status |-> "UNKNOWN", step |-> 1, retry |-> 0,
     err |-> FALSE, done |-> {}]

\* A missing manifest file is read as a skeleton.
Skeleton(step) == [NoManifest EXCEPT !.there = TRUE, !.step = step]

LoadManifest(r, step) ==
    IF manifest[r].there THEN manifest[r] ELSE Skeleton(step)

\* transition_state: the old key is popped, the new one written.
Rotate(r, new) ==
    keys' = [keys EXCEPT ![r] =
                (@ \ {<<meta[r].status, meta[r].step>>})
                    \cup {<<new.status, new.step>>}]

transition_state(r, new) ==
    /\ Rotate(r, new)
    /\ meta' = [meta EXCEPT ![r] = new]

(***************************************************************************)
(* next_attempt_ts is written as local wall-clock time and compared with   *)
(* the epoch read as UTC: the difference is off by the host's UTC offset.  *)
(* attempt[r] is "ahead" before the timestamp, "due" after it, and         *)
(* "expired" once an eastern host's offset has gone by as well.            *)
(***************************************************************************)
AttemptPhases == {"none", "ahead", "due", "expired"}

\* seconds_diff(next_attempt_ts, now) < 0
DiffNegative(r) ==
    CASE UtcOffset = "west" -> attempt[r] # "none"
      [] UtcOffset = "utc"  -> attempt[r] \in {"due", "expired"}
      [] UtcOffset = "east" -> attempt[r] = "expired"

(***************************************************************************)
(* The priority of a queued message; the lowest score is visited first.    *)
(***************************************************************************)
STAGES_PRIORITY ==
    [s \in Stages |->
        CASE s = "archive" -> 100 [] s = "publish" -> 80 [] s = "write" -> 60
          [] s = "transform" -> 40 [] s = "extract" -> 20 [] s = "start" -> 10]

STATUS_WEIGHTS ==
    [s \in Status |->
        CASE s = "WAITING" -> 3 [] s = "BLOCKED" -> 5 [] OTHER -> 0]

calculate_priority(r) ==
    LET sum == STAGES_PRIORITY[StageOf[meta[r].step]] + STATUS_WEIGHTS[meta[r].status]
    IN  IF sum > 255 THEN 0 ELSE 255 - sum

-----------------------------------------------------------------------------
Init ==
    /\ queued = {} /\ processing = {}
    /\ meta = [r \in Runs |-> FreshMeta(FromStep)]
    /\ keys = [r \in Runs |-> {}]
    /\ worker = [r \in Runs |-> "none"]
    /\ folder = [r \in Runs |-> "none"]
    /\ manifest = [r \in Runs |-> NoManifest]
    /\ markers = [r \in Runs |-> {}]
    /\ signals = {}
    /\ attempt = [r \in Runs |-> "none"]
    /\ verdict = [r \in Runs |-> "new"]
    /\ pc = "commands" /\ snap = {} /\ cur = NoRun /\ dir = NoDir
    /\ stopping = FALSE
    /\ budgets = [blocks |-> MaxBlocks, deaths |-> MaxDeaths,
                  resumes |-> MaxResumes, drains |-> MaxDrains]

\* start_job and enqueue: the workspace is provisioned, the message pushed.
\* The poll thread and the command handlers call it; the admission policy
\* never refuses (DenyDuplicateAdmission of DaemonEngine).
StartJob(r) ==
    /\ verdict[r] = "new" /\ pc # "down"
    /\ folder' = [folder EXCEPT ![r] = "ACTIVE"]
    /\ meta' = [meta EXCEPT ![r] = FreshMeta(FromStep)]
    /\ queued' = queued \cup {r}
    /\ verdict' = [verdict EXCEPT ![r] = "live"]
    /\ UNCHANGED <<processing, keys, worker, manifest, markers, signals,
                   attempt, engineVars, budgets>>

\* the clock moves past next_attempt_ts, then past the host's offset
TimePasses(r) ==
    /\ attempt[r] \in {"ahead", "due"}
    /\ attempt' = [attempt EXCEPT ![r] = IF @ = "ahead" THEN "due" ELSE "expired"]
    /\ UNCHANGED <<queued, processing, meta, keys, worker, diskVars, signals,
                   verdict, engineVars, budgets>>

(***************************************************************************)
(* The engine thread: commands, then signals, then submit_tasks, which     *)
(* reaps the finished workers and dispatches queued messages.              *)
(***************************************************************************)
\* _handle_resume and Janitor.recover_task.  Task.from_path wants a manifest;
\* nobody asks how the run ended.  (TaskManager.resume_task finds no hot-cache
\* entry: DiskCache.iterkeys yields nothing.  A RESUME that names a step fails:
\* Task has no update_manifest.)
Resume(r) ==
    /\ pc = "commands"
    /\ verdict[r] \notin {"new", "live"}
    /\ folder[r] # "none" /\ manifest[r].there
    /\ budgets.resumes > 0
    /\ manifest' = [manifest EXCEPT ![r].status = "PENDING", ![r].retry = 0,
                                    ![r].err = FALSE]
    /\ meta' = [meta EXCEPT ![r] = FreshMeta(manifest[r].step)]
    /\ queued' = queued \cup {r}
    /\ signals' = signals \cup {<<r, "sync">>}
    /\ attempt' = [attempt EXCEPT ![r] = "none"]
    /\ verdict' = [verdict EXCEPT ![r] = "live"]
    /\ budgets' = [budgets EXCEPT !.resumes = @ - 1]
    /\ UNCHANGED <<processing, keys, worker, folder, markers, engineVars>>

\* _handle_stop: drain mode
Drain ==
    /\ pc = "commands" /\ ~stopping /\ budgets.drains > 0
    /\ stopping' = TRUE
    /\ budgets' = [budgets EXCEPT !.drains = @ - 1]
    /\ UNCHANGED <<queued, processing, meta, keys, worker, diskVars, signals,
                   attempt, verdict, pc, snap, cur, dir>>

\* the head of _control_loop: drained, the loop ends
Drained == stopping /\ \A r \in Runs : worker[r] = "none"

EndCommands ==
    /\ pc = "commands" /\ ~Drained
    /\ pc' = "signals"
    /\ UNCHANGED <<queued, processing, meta, keys, worker, diskVars, signals,
                   attempt, verdict, snap, cur, dir, stopping, budgets>>

\* SignalScanner.dispatch with the handlers of the orchestrator.  A .done
\* file deletes the workspace, unless the state record of the run is gone and
\* sync_manifest raises before (DaemonEngine says when); a .fail file leaves
\* it where it is, because _on_terminal_task tests a task variable that it
\* only sets on success.
ProcessSignal(r, ext) ==
    /\ pc = "signals" /\ <<r, ext>> \in signals
    /\ signals' = signals \ {<<r, ext>>}
    /\ \/ /\ ext = "done" /\ folder[r] # "none"
          /\ folder' = [folder EXCEPT ![r] = "none"]
          /\ manifest' = [manifest EXCEPT ![r] = NoManifest]
          /\ markers' = [markers EXCEPT ![r] = {}]
       \/ UNCHANGED diskVars
    /\ UNCHANGED <<queued, processing, meta, keys, worker, attempt, verdict,
                   engineVars, budgets>>

\* ray.wait: the workers that have ended by now are reaped in this tick.
StartReap ==
    /\ pc = "signals" /\ signals = {}
    /\ pc' = "reap"
    /\ snap' = {r \in Runs : worker[r] \in Finished \cup Crashed}
    /\ UNCHANGED <<queued, processing, meta, keys, worker, diskVars, signals,
                   attempt, verdict, cur, dir, stopping, budgets>>

(***************************************************************************)
(* _conclude_outcome: the engine thread turns the result of a worker into  *)
(* a directive.  Each outcome updates the manifest and the marker files.   *)
(***************************************************************************)
\* The entry is popped from active_tasks before the outcome is evaluated.
Reap(r, results) ==
    /\ pc = "reap" /\ r \in snap /\ worker[r] \in results
    /\ snap' = snap \ {r}
    /\ worker' = [worker EXCEPT ![r] = "none"]

Resolve(r, directive) ==
    /\ pc' = "apply" /\ cur' = r /\ dir' = directive
    /\ UNCHANGED <<queued, processing, meta, keys, folder, signals, attempt,
                   verdict, stopping, budgets>>

\* The ErrorInfo it writes has every required field.
FailedOutcome(r) ==
    /\ manifest' = [manifest EXCEPT ![r].status = "FAILED", ![r].err = TRUE]
    /\ UNCHANGED markers
    /\ Resolve(r, [NoDir EXCEPT !.action = "failed"])

SuccessOutcome(r) ==
    /\ Reap(r, {"ok"})
    /\ is_complete(manifest[r].done)
    /\ manifest' = [manifest EXCEPT ![r].status = "SUCCESS"]
    /\ UNCHANGED markers
    /\ Resolve(r, [NoDir EXCEPT !.action = "success", !.status = "SUCCESS"])

ProgressOutcome(r) ==
    LET next == get_next_step_id(meta[r].step) IN
    /\ Reap(r, {"ok"})
    /\ ~ is_complete(manifest[r].done)
    /\ next # 0
    /\ manifest' = [manifest EXCEPT ![r].status = "WAITING", ![r].step = next]
    /\ UNCHANGED markers
    /\ Resolve(r, [NoDir EXCEPT !.action = "progress", !.step = next])

\* process_completed_steps logs every exception of the reconciliation, and
\* nothing handles the run any more.
Dropped(r) ==
    /\ verdict' = [verdict EXCEPT ![r] = "lost"]
    /\ UNCHANGED <<queued, processing, meta, keys, folder, signals, attempt,
                   pc, cur, dir, stopping, budgets>>

\* What raises before the manifest or a marker is touched: a worker that died
\* or never loaded its metadata; a RollbackRequired, which ray.get cannot
\* unpickle; ProgressOutcome without a next step; FailedOutcome for a run
\* without configuration, whose stage is then None and no ErrorInfo.
ReconcileError(r) ==
    /\ \/ Reap(r, Crashed \cup {"rollback"})
       \/ /\ Reap(r, {"ok"})
          /\ ~ is_complete(manifest[r].done)
          /\ get_next_step_id(meta[r].step) = 0
       \/ Reap(r, {"fatal"}) /\ folder[r] # "ACTIVE"
    /\ Dropped(r)
    /\ UNCHANGED <<manifest, markers>>

\* Defect: the limit itself is let through.
RetryOutcomeOffByOne(r, late) ==
    /\ Reap(r, {"transient"})
    /\ manifest[r].retry =< RetryLimit /\ ~late
    /\ manifest[r].err
    /\ markers' = [markers EXCEPT ![r] = {"RETRY"}]
    /\ manifest' = [manifest EXCEPT ![r].status = "RETRY"]
    /\ Resolve(r, [NoDir EXCEPT !.action = "retry", !.status = "RETRY"])

\* is_retryable: at most RetryLimit retries, none in the last second of the
\* day (late).
Retryable(r, late) == manifest[r].retry < RetryLimit /\ ~late

\* The update merges {message, type} into the error of the manifest, which
\* makes an ErrorInfo only if the stage has recorded one.
RetryOutcome(r, late) ==
    /\ Reap(r, {"transient"})
    /\ Retryable(r, late)
    /\ manifest[r].err
    /\ markers' = [markers EXCEPT ![r] = {"RETRY"}]
    /\ manifest' = [manifest EXCEPT ![r].status = "RETRY"]
    /\ Resolve(r, [NoDir EXCEPT !.action = "retry", !.status = "RETRY"])

RetryRefused(r, late) ==
    /\ Reap(r, {"transient"})
    /\ ~ Retryable(r, late)
    /\ FailedOutcome(r)

FatalError(r) == Reap(r, {"fatal"}) /\ folder[r] = "ACTIVE" /\ FailedOutcome(r)

BlockedOutcome(r, svc) ==
    /\ Reap(r, {"blocked"})
    /\ manifest[r].err
    /\ markers' = [markers EXCEPT ![r] = {"BLOCKED"}]
    /\ manifest' = [manifest EXCEPT ![r].status = "BLOCKED"]
    /\ Resolve(r, [NoDir EXCEPT !.action = "blocked", !.status = "BLOCKED",
                                !.blocked = svc])

\* RetryOutcome or BlockedOutcome of an error that no stage has recorded: the
\* markers are changed, then the manifest refuses the update.
UnrecordedError(r, late) ==
    /\ ~ manifest[r].err
    /\ \/ /\ Reap(r, {"transient"}) /\ Retryable(r, late)
          /\ markers' = [markers EXCEPT ![r] = {"RETRY"}]
       \/ /\ Reap(r, {"blocked"})
          /\ markers' = [markers EXCEPT ![r] = {"BLOCKED"}]
    /\ Dropped(r)
    /\ UNCHANGED manifest

(***************************************************************************)
(* _apply_outcome_resolution: signal file, cache rotation, re-enqueue.     *)
(***************************************************************************)
\* TaskCache.get raises when the entry is missing.
HasEntry(r, status) == <<status, meta[r].step>> \in keys[r]

\* A failed run keeps its RUNNING entry: the pop uses the unprefixed key.
ApplyFailed ==
    /\ pc = "apply" /\ dir.action = "failed" /\ HasEntry(cur, "RUNNING")
    /\ signals' = signals \cup {<<cur, "fail">>}
    /\ verdict' = [verdict EXCEPT ![cur] = "FAILED"]
    /\ pc' = "reap" /\ cur' = NoRun /\ dir' = NoDir
    /\ UNCHANGED <<queued, processing, meta, keys, worker, diskVars, attempt,
                   snap, stopping, budgets>>

\* Defect: every field of the directive overrides the metadata.
OverriddenAlways(m) ==
    [step |-> dir.step, status |-> dir.status, blocked |-> dir.blocked]

\* Only truthy fields of the directive override the metadata: blocked_by is
\* never cleared.
Overridden(m) ==
    [step    |-> IF dir.step # 0 THEN dir.step ELSE m.step,
     status  |-> dir.status,
     blocked |-> IF dir.blocked # NoService THEN dir.blocked ELSE m.blocked]

\* Defect: a blocked run is not pushed again.
ApplyDropsBlocked ==
    /\ pc = "apply" /\ dir.action # "failed" /\ HasEntry(cur, "RUNNING")
    /\ transition_state(cur, Overridden(meta[cur]))
    /\ signals' = signals \cup {<<cur, IF dir.action = "success" THEN "done" ELSE "sync">>}
    /\ verdict' = [verdict EXCEPT ![cur] = IF dir.action = "success" THEN "SUCCESS" ELSE @]
    /\ queued' = IF dir.action \in {"success", "blocked"} THEN queued ELSE queued \cup {cur}
    /\ pc' = "reap" /\ cur' = NoRun /\ dir' = NoDir
    /\ UNCHANGED <<processing, worker, diskVars, attempt, snap, stopping, budgets>>

Apply ==
    /\ pc = "apply" /\ dir.action # "failed" /\ HasEntry(cur, "RUNNING")
    /\ transition_state(cur, Overridden(meta[cur]))
    /\ IF dir.action = "success"
       THEN /\ signals' = signals \cup {<<cur, "done">>}
            /\ verdict' = [verdict EXCEPT ![cur] = "SUCCESS"]
            /\ UNCHANGED <<queued, attempt>>
       ELSE /\ signals' = signals \cup {<<cur, "sync">>}
            /\ queued' = queued \cup {cur}
            /\ attempt' = IF dir.action = "retry"
                          THEN [attempt EXCEPT ![cur] = "ahead"] ELSE attempt
            /\ UNCHANGED verdict
    /\ pc' = "reap" /\ cur' = NoRun /\ dir' = NoDir
    /\ UNCHANGED <<processing, worker, diskVars, snap, stopping, budgets>>

(***************************************************************************)
(* dispatch: a snapshot of the queue is visited in priority order.         *)
(***************************************************************************)
EndReap ==
    /\ pc = "reap" /\ snap = {}
    /\ IF stopping \/ queued = {}
       THEN pc' = "commands" /\ UNCHANGED snap
       ELSE pc' = "scan" /\ snap' = queued
    /\ UNCHANGED <<queued, processing, meta, keys, worker, diskVars, signals,
                   attempt, verdict, cur, dir, stopping, budgets>>

\* the message visited next (the sort is by calculate_priority alone)
Visited(r) ==
    /\ pc = "scan" /\ r \in snap
    /\ \A q \in snap : calculate_priority(r) =< calculate_priority(q)

\* The disk gate holds back every stage: DISK_FREE_STAGES is a set of classes,
\* and current_stage a string.  blocked_by is looked at before the timestamp.
is_task_ready(r, diskOk, svcOk) ==
    /\ diskOk
    /\ \/ meta[r].status \notin {"RETRY", "BLOCKED"}
       \/ meta[r].blocked # NoService /\ svcOk
       \/ meta[r].blocked = NoService /\ ~ DiffNegative(r)

NotReady(r, diskOk, svcOk) ==
    /\ Visited(r)
    /\ worker[r] # "none" \/ ~ is_task_ready(r, diskOk, svcOk)
    /\ snap' = snap \ {r}
    /\ UNCHANGED <<queued, processing, meta, keys, worker, diskVars, signals,
                   attempt, verdict, pc, cur, dir, stopping, budgets>>

\* The loop ends, or the cluster has no capacity for the visited message.
EndScan ==
    /\ \/ pc = "scan" /\ snap = {}
       \/ \E r \in snap : Visited(r) /\ worker[r] = "none" /\ is_task_ready(r, TRUE, TRUE)
    /\ snap' = {} /\ pc' = "commands"
    /\ UNCHANGED <<queued, processing, meta, keys, worker, diskVars, signals,
                   attempt, verdict, cur, dir, stopping, budgets>>

\* Defect: the message is read and not removed.
PopByKeyPeeks(r, diskOk, svcOk) ==
    /\ Visited(r) /\ worker[r] = "none"
    /\ is_task_ready(r, diskOk, svcOk)
    /\ snap' = snap \ {r}
    /\ processing' = processing \cup {r}
    /\ pc' = "spawn" /\ cur' = r
    /\ UNCHANGED <<queued, meta, keys, worker, diskVars, signals, attempt,
                   verdict, dir, stopping, budgets>>

\* pop_by_key moves the message to the processing namespace.
PopByKey(r, diskOk, svcOk) ==
    /\ Visited(r) /\ worker[r] = "none"
    /\ is_task_ready(r, diskOk, svcOk)
    /\ snap' = snap \ {r}
    /\ queued' = queued \ {r} /\ processing' = processing \cup {r}
    /\ pc' = "spawn" /\ cur' = r
    /\ UNCHANGED <<meta, keys, worker, diskVars, signals, attempt, verdict, dir,
                   stopping, budgets>>

\* dispatch_task: rotate to DISPATCHED, submit to Ray, acknowledge.
dispatch_task ==
    /\ pc = "spawn"
    /\ transition_state(cur, [meta[cur] EXCEPT !.status = "DISPATCHED"])
    /\ worker' = [worker EXCEPT ![cur] = "submitted"]
    /\ processing' = processing \ {cur}
    /\ pc' = "scan" /\ cur' = NoRun
    /\ UNCHANGED <<queued, diskVars, signals, attempt, verdict, snap, dir,
                   stopping, budgets>>

(***************************************************************************)
(* The Ray worker: Executor.execute_stage, TaskSession and the stage.      *)
(***************************************************************************)
workerUnchanged == <<queued, processing, signals, attempt, verdict, engineVars>>

\* Defect: the worker's own copy of the metadata becomes RUNNING, not the entry.
WorkerStartNoRotation(r) ==
    /\ worker[r] = "submitted" /\ HasEntry(r, "DISPATCHED")
    /\ meta' = [meta EXCEPT ![r].status = "RUNNING"]
    /\ manifest' = [manifest EXCEPT ![r] = LoadManifest(r, meta[r].step)]
    /\ folder' = [folder EXCEPT ![r] = IF @ = "none" THEN "bare" ELSE @]
    /\ worker' = [worker EXCEPT ![r] = "entering"]
    /\ UNCHANGED <<keys, markers, workerUnchanged, budgets>>

\* The entry becomes RUNNING, the manifest is loaded or created.  Saving it
\* creates the folder of a run whose workspace has been deleted, without the
\* configuration.
WorkerStart(r) ==
    /\ worker[r] = "submitted" /\ HasEntry(r, "DISPATCHED")
    /\ transition_state(r, [meta[r] EXCEPT !.status = "RUNNING"])
    /\ manifest' = [manifest EXCEPT ![r] = LoadManifest(r, meta[r].step)]
    /\ folder' = [folder EXCEPT ![r] = IF @ = "none" THEN "bare" ELSE @]
    /\ worker' = [worker EXCEPT ![r] = "entering"]
    /\ UNCHANGED <<markers, workerUnchanged, budgets>>

\* TaskSession: a run that comes back from a transient error counts its retry
\* in the manifest, then removes the RETRY marker, then the BLOCKED marker.
CountRetry(r) ==
    /\ worker[r] = "entering" /\ "RETRY" \in markers[r]
    /\ manifest' = [manifest EXCEPT ![r].retry = @ + 1, ![r].status = "RUNNING",
                                    ![r].step = meta[r].step]
    /\ worker' = [worker EXCEPT ![r] = "counted"]
    /\ UNCHANGED <<meta, keys, folder, markers, workerUnchanged, budgets>>

RemoveRetryMarker(r) ==
    /\ worker[r] = "counted"
    /\ markers' = [markers EXCEPT ![r] = @ \ {"RETRY"}]
    /\ worker' = [worker EXCEPT ![r] = "entering"]
    /\ UNCHANGED <<meta, keys, folder, manifest, workerUnchanged, budgets>>

BeginStage(r) ==
    /\ worker[r] = "entering" /\ "RETRY" \notin markers[r]
    /\ markers' = [markers EXCEPT ![r] = @ \ {"BLOCKED"}]
    /\ worker' = [worker EXCEPT ![r] = "running"]
    /\ UNCHANGED <<meta, keys, folder, manifest, workerUnchanged, budgets>>

\* Defect: an early return of the stage leaves no payload.
SavePayloadSkipped(r) ==
    /\ worker[r] = "running" /\ folder[r] = "ACTIVE"
    /\ worker' = [worker EXCEPT ![r] = "saved"]
    /\ UNCHANGED <<meta, keys, folder, manifest, markers, budgets, workerUnchanged>>

\* save_stage_outcome with a payload, on every path of a successful stage body
SavePayload(r) ==
    /\ worker[r] = "running" /\ folder[r] = "ACTIVE"
    /\ manifest' = [manifest EXCEPT ![r].done = @ \cup {meta[r].step}]
    /\ worker' = [worker EXCEPT ![r] = "saved"]
    /\ UNCHANGED <<meta, keys, folder, markers, budgets, workerUnchanged>>

\* The post hooks have run and the session is left.
WorkerSucceeds(r) ==
    /\ worker[r] = "saved"
    /\ worker' = [worker EXCEPT ![r] = "ok"]
    /\ UNCHANGED <<meta, keys, folder, manifest, markers, budgets, workerUnchanged>>

\* An exception of the stage body is recorded in the manifest first
\* (recorded); one of pre_flight or of a hook is not.  Only the stages that
\* read the output of another step ask for a rollback.
WorkerErrors(r, kind, recorded) ==
    /\ \/ worker[r] = "running" /\ folder[r] = "ACTIVE"
       \/ worker[r] = "saved" /\ ~recorded /\ kind # "rollback"
    /\ kind \in Exceptions
    /\ kind = "rollback" => StageOf[meta[r].step] \in {"transform", "write", "publish"}
    /\ kind = "blocked" => budgets.blocks > 0
    /\ budgets' = [budgets EXCEPT !.blocks = IF kind = "blocked" THEN @ - 1 ELSE @]
    /\ manifest' = IF recorded
                   THEN [manifest EXCEPT ![r].status = "FAILED", ![r].err = TRUE]
                   ELSE manifest
    /\ worker' = [worker EXCEPT ![r] = kind]
    /\ UNCHANGED <<meta, keys, folder, markers, workerUnchanged>>

\* load_context finds no configuration.
WorkerHasNoConfig(r) ==
    /\ worker[r] = "running" /\ folder[r] # "ACTIVE"
    /\ worker' = [worker EXCEPT ![r] = "fatal"]
    /\ UNCHANGED <<meta, keys, folder, manifest, markers, budgets, workerUnchanged>>

\* The process is killed, or it fails before it has read its metadata.
WorkerDies(r, how) ==
    /\ \/ worker[r] \in {"submitted"} \cup InSession /\ how = "dead"
       \/ worker[r] = "submitted" /\ how = "bootstrap"
    /\ budgets.deaths > 0
    /\ budgets' = [budgets EXCEPT !.deaths = @ - 1]
    /\ worker' = [worker EXCEPT ![r] = how]
    /\ UNCHANGED <<meta, keys, folder, manifest, markers, workerUnchanged>>

(***************************************************************************)
(* Shutdown, crash and restart of the engine process.                      *)
(***************************************************************************)
\* Ray is shut down with the engine.  The queue, the cache, the workspaces
\* and the signal files are on disk.
GoDown(interrupted) ==
    /\ worker' = [r \in Runs |-> "none"]
    /\ verdict' = [r \in Runs |-> IF r \in interrupted THEN "lost" ELSE verdict[r]]
    /\ pc' = "down" /\ snap' = {} /\ cur' = NoRun /\ dir' = NoDir
    /\ UNCHANGED <<queued, processing, meta, keys, diskVars, signals, attempt, stopping>>

DrainExit ==
    /\ pc = "commands" /\ Drained
    /\ GoDown({}) /\ UNCHANGED budgets

\* The drain deadline passes, or the process dies: runs with a worker and the
\* run the engine thread had in hand are not in the queue.
Crash ==
    /\ pc # "down" /\ budgets.deaths > 0
    /\ GoDown({r \in Runs : worker[r] # "none" \/ cur = r})
    /\ budgets' = [budgets EXCEPT !.deaths = @ - 1]

\* recovery_sweep finds no entry to recover, as DiskCache.iterkeys yields none.
Restart ==
    /\ pc = "down"
    /\ pc' = "commands" /\ stopping' = FALSE
    /\ UNCHANGED <<queued, processing, meta, keys, worker, diskVars, signals,
                   attempt, verdict, snap, cur, dir, budgets>>

-----------------------------------------------------------------------------
Conclude(r) ==
    \/ SuccessOutcome(r)
    \/ ProgressOutcome(r)
    \/ ReconcileError(r)
    \/ FatalError(r)
    \/ \E late \in BOOLEAN :
        RetryOutcome(r, late) \/ RetryRefused(r, late) \/ UnrecordedError(r, late)
    \/ \E svc \in Services : BlockedOutcome(r, svc)

Pop(r) == \E diskOk, svcOk \in BOOLEAN : PopByKey(r, diskOk, svcOk)

Engine ==
    \/ EndCommands \/ StartReap \/ Apply \/ ApplyFailed \/ EndReap \/ EndScan
    \/ dispatch_task \/ DrainExit
    \/ \E r \in Runs :
        \/ \E ext \in {"sync", "done", "fail"} : ProcessSignal(r, ext)
        \/ Conclude(r)
        \/ \E diskOk, svcOk \in BOOLEAN : NotReady(r, diskOk, svcOk)
        \/ Pop(r)

Worker(r) ==
    \/ WorkerStart(r) \/ CountRetry(r) \/ RemoveRetryMarker(r) \/ BeginStage(r)
    \/ SavePayload(r) \/ WorkerSucceeds(r) \/ WorkerHasNoConfig(r)
    \/ \E kind \in ExceptionKinds, recorded \in BOOLEAN : WorkerErrors(r, kind, recorded)

Environment ==
    \/ Drain \/ Crash \/ Restart
    \/ \E r \in Runs :
        \/ StartJob(r) \/ Resume(r) \/ TimePasses(r)
        \/ \E how \in Crashed : WorkerDies(r, how)

Next == Engine \/ (\E r \in Runs : Worker(r)) \/ Environment

Spec == Init /\ [][Next]_vars

(***************************************************************************)
(* Fairness.  The engine thread runs, a worker ends, time passes, and a    *)
(* stopped engine is started again.  Disk pressure, saturation and outages *)
(* come and go: a message that can be popped again and again is popped.    *)
(***************************************************************************)
FairSpec ==
    /\ Spec
    /\ WF_vars(Engine) /\ WF_vars(Restart)
    /\ \A r \in Runs : WF_vars(Worker(r)) /\ WF_vars(TimePasses(r)) /\ SF_vars(Pop(r))

-----------------------------------------------------------------------------
(***************************************************************************)
(* Invariants                                                              *)
(***************************************************************************)
Actions == {"none", "success", "progress", "retry", "blocked", "failed"}

\* No run goes beyond the last step of its range.
StepsToLast == 1..ToStep

MetaType ==
    [step : StepsToLast, status : Status, blocked : Services \cup {NoService}]

ManifestType ==
    [there : BOOLEAN, status : ManifestStatus, step : StepsToLast, retry : Nat,
     err : BOOLEAN, done : SUBSET StepsToLast]

DirType ==
    [action : Actions, status : Status, step : StepsToLast \cup {0},
     blocked : Services \cup {NoService}]

\* Every variable holds a value the program can put there; no step beyond to_step.
TypeOK ==
    /\ queued \subseteq Runs /\ processing \subseteq Runs
    /\ meta \in [Runs -> MetaType]
    /\ keys \in [Runs -> SUBSET (Status \X StepsToLast)]
    /\ worker \in [Runs -> {"none", "submitted"} \cup InSession \cup Finished \cup Crashed]
    /\ folder \in [Runs -> {"none", "ACTIVE", "bare"}]
    /\ manifest \in [Runs -> ManifestType]
    /\ markers \in [Runs -> SUBSET {"RETRY", "BLOCKED"}]
    /\ signals \subseteq Runs \X {"sync", "done", "fail"}
    /\ attempt \in [Runs -> AttemptPhases]
    /\ verdict \in [Runs -> {"new", "live", "SUCCESS", "FAILED", "lost"}]
    /\ pc \in {"commands", "signals", "reap", "apply", "scan", "spawn", "down"}
    /\ cur \in IF pc \in {"apply", "spawn"} THEN Runs ELSE {NoRun}
    /\ snap \subseteq Runs /\ dir \in DirType
    /\ stopping \in BOOLEAN
    /\ budgets \in [blocks : Nat, deaths : Nat, resumes : Nat, drains : Nat]

Tokens(r) ==
    (IF r \in queued THEN 1 ELSE 0) + (IF worker[r] # "none" THEN 1 ELSE 0)
        + (IF cur = r THEN 1 ELSE 0)

\* A run that was admitted and not concluded is in exactly one place: in the
\* queue, in the hands of the engine thread, or in active_tasks.  A run that
\* is concluded or lost is in none.  (pop, dispatch, reap and re-enqueue hand
\* the run over without duplicating or dropping it.)
OnePlace == \A r \in Runs : Tokens(r) = IF verdict[r] = "live" THEN 1 ELSE 0

\* The hot-cache entry a worker or the reconciliation of its outcome reads
\* is there when it reads it: TaskCache.get in execute_stage and in
\* _apply_outcome_resolution never raises.
CacheFollowsTask ==
    \A r \in Runs :
        /\ worker[r] = "submitted" => HasEntry(r, "DISPATCHED")
        /\ worker[r] \in InSession \cup Finished => HasEntry(r, "RUNNING")
        /\ (cur = r /\ pc = "apply") => HasEntry(r, "RUNNING")

\* A run retries at most RetryLimit times between two resumes, over all its
\* steps.  The count and the removal of the marker that caused it are two
\* writes of a worker that may die between them: what is left, a marker whose
\* retry is counted already, must not let a run that goes on count beyond the
\* limit.
RetryBudget ==
    \A r \in Runs :
        /\ manifest[r].retry =< RetryLimit
        /\ "RETRY" \in markers[r] /\ verdict[r] = "live" /\ worker[r] \notin {"counted", "dead"} =>
              manifest[r].retry < RetryLimit

DoneBefore(r, s) == \A q \in get_step_ids : q < s => q \in manifest[r].done

\* A run never skips a step: when it is at a step, every earlier step of its
\* range has left a payload in the manifest, whatever retries, crashes and
\* resumes there were; the same holds of the step a resume would start from.
\* A run whose workspace is gone completes nothing.
StepOrder ==
    \A r \in Runs :
        /\ folder[r] = "ACTIVE" =>
              /\ DoneBefore(r, meta[r].step)
              /\ manifest[r].there => DoneBefore(r, manifest[r].step)
        /\ folder[r] # "ACTIVE" => manifest[r].done = {}

(***************************************************************************)
(* Action and liveness properties                                          *)
(***************************************************************************)
\* A run is dropped without a verdict only if its worker died or the engine did
\* while it held the run, if the worker returned a RollbackRequired or a
\* transient error that no stage has recorded, or if the clean-up has deleted the
\* workspace.  In particular the driver finds a next step for every step that
\* ended well.  (A run started with a later from_step is dropped at its end:
\* is_complete wants "start" among the completed steps, and ProgressOutcome
\* raises.)
DroppedOnlyAsKnown ==
    [][\A r \in Runs : verdict[r] # "lost" /\ verdict'[r] = "lost" =>
        \/ worker[r] \in Crashed
        \/ pc # "down" /\ pc' = "down"
        \/ worker[r] = "rollback"
        \/ worker[r] \in {"transient", "blocked"} /\ ~ manifest[r].err
        \/ folder[r] # "ACTIVE"
        \/ FromStep # 1]_vars

\* Every admitted run ends: as a success or as a failure, or dropped by one of
\* the errors DroppedOnlyAsKnown lists.  It never waits or works for ever.
AllRunsEnd == \A r \in Runs : verdict[r] = "live" ~> verdict[r] # "live"

(***************************************************************************)
(* The abstract view: a run, its verdict and the steps it has completed.   *)
(***************************************************************************)
\* A resumed success, of which the clean-up is still to come.
Reopened(r) == verdict[r] = "live" /\ <<r, "done">> \in signals

Contract ==
    INSTANCE PipelineContract WITH
        Runs <- Runs, AllSteps <- Steps, Required <- get_step_ids,
        st <- [r \in Runs |-> IF Reopened(r) THEN "SUCCESS" ELSE verdict[r]],
        done <- [r \in Runs |-> manifest[r].done]

\* The engine implements the contract: queue, cache, workers and reconciling
\* driver together complete the steps of a run in order, report success only
\* when every step has a payload, and never touch a concluded run.
ImplementsContract == Contract!CSpec

(***************************************************************************)
(* What the documentation says of the engine                               *)
(***************************************************************************)
\* A run in RETRY is tried again.
RetriesRun == \A r \in Runs : (r \in queued /\ meta[r].status = "RETRY") ~> r \notin queued
=============================================================================
