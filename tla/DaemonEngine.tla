---------------------------- MODULE DaemonEngine ----------------------------
(***************************************************************************)
(* The always-on daemon: the engine thread (wait, commands, signals,       *)
(* submit), the scheduler's poll thread (refresh the records, start or     *)
(* evict runs), Ray workers, and the command line, which talks to the      *)
(* engine through .cmd files in the folder of the signal files.            *)
(*                                                                         *)
(* Sources: modes/daemon/{runtime,commands,state,trigger,janitor,manager}, *)
(* common/{signals,orchestrator}.py, common/state/{hub,store,models}.py,   *)
(* libs/metaclasses/eventbus.py, cli/utils.py, cli/commands/*.py.  What    *)
(* the task manager does with a run is module TaskLifecycle, the stream of *)
(* the accepted updates module StateSink; both are reduced here to what    *)
(* the threads of the daemon see of them.                                  *)
(***************************************************************************)
EXTENDS Naturals, Sequences, FiniteSets, SequencesExt

CONSTANTS
    Runs,         \* runs that META.EXECUTION_LOG holds as PENDING
    Kinds,        \* names of command files, without suffix
    MaxPolls,     \* bound: polls that find something to start or to evict
    MaxEvents     \* bound: commands, further steps of a run and restarts, together

ASSUME EngineAssumption ==
    /\ IsFiniteSet(Runs)
    /\ Kinds \subseteq {"STOP_drain", "STOP_force", "RESUME_id", "RECOVER_ALL"}
    /\ MaxPolls \in Nat /\ MaxEvents \in Nat

VARIABLES
    event,      \* the flag of the EventBus
    stop,       \* exec_ctx.stop_at_ts: "never", "later", "reached"
    cmds,       \* .cmd files: [id, kind, full, left], left counts down as st_mtime goes up
    markers,    \* signal files <<run, extension>>
    listing,    \* names of command files the engine has still to read
    batch,      \* commands read and not yet handled
    queued,     \* queued[r]: messages of run r in the queue
    running,    \* runs in active_tasks
    ready,      \* of these, the ones whose worker has returned
    manifest,   \* manifest[r]: status in the workspace, "none" without one
    workspace,  \* runs that have a workspace folder
    record,     \* StateStore.records: status of a run, "none" if unknown
    due,        \* decisions <<run, action>> the poll still has to carry out
    pc,         \* next step of the engine and of the poll thread
    run,        \* the run a thread is busy with
    unseen,     \* history: runs announced by notify that no submit has seen
    replaced,   \* history: runs whose record a poll, an eviction or a restart took
    handled,    \* history: how often the handler of command id has run
    swallowed,  \* history: commands that were deleted and not handled
    raised,     \* history: a handler has raised since the last submit
    polls,      \* what is left of MaxPolls
    events      \* what is left of MaxEvents

Threads == {"engine", "poll"}
Terminal == {"SUCCESS", "FAILED"}
Status == Terminal \cup {"PENDING", "PROVISIONED", "WAITING", "RETRY", "UNKNOWN"}
Ids == 1..MaxEvents

taskVars == <<queued, running, ready, manifest, workspace>>
cliVars == <<cmds, swallowed>>
engineVars == <<listing, batch, raised>>
budget == <<polls, events>>
vars == <<event, stop, cliVars, markers, engineVars, taskVars, record, due, pc, run,
          unseen, replaced, handled, budget>>

\* Where the two threads begin.
Begin == [t \in Threads |-> IF t = "engine" THEN "top" ELSE "idle"]

Init ==
    /\ event = FALSE /\ stop = "never"
    /\ cmds = {} /\ markers = {}
    /\ listing = << >> /\ batch = << >> /\ raised = FALSE
    /\ queued = [r \in Runs |-> 0] /\ running = {} /\ ready = {}
    /\ manifest = [r \in Runs |-> "none"] /\ workspace = {}
    /\ record = [r \in Runs |-> "none"] /\ due = {}
    /\ pc = Begin
    /\ run \in {[t \in Threads |-> r] : r \in Runs}
    /\ unseen = {} /\ replaced = {}
    /\ handled = [c \in Ids |-> 0] /\ swallowed = {}
    /\ polls = MaxPolls /\ events = MaxEvents

Goto(t, label) == pc' = [pc EXCEPT ![t] = label]
SpendPoll == polls > 0 /\ polls' = polls - 1 /\ UNCHANGED events
SpendEvent == events > 0 /\ events' = events - 1 /\ UNCHANGED polls

\* StateStore.update and TaskRecord.apply_update: an unknown run takes no
\* update, and a terminal status is not reverted.
apply_update(records, r, status) ==
    IF records[r] = "none" \/ (records[r] \in Terminal /\ status \notin Terminal)
    THEN records ELSE [records EXCEPT ![r] = status]

-----------------------------------------------------------------------------
(* The command line and the workers *)

IsStop(kind) == kind \in {"STOP_drain", "STOP_force"}
NameOf(kind) == IF IsStop(kind) THEN "STOP" ELSE kind
IdsOf(files) == {c.id : c \in files}
BatchIds == {batch[i].id : i \in DOMAIN batch}

\* _write_signal_file creates the file, unless there is one (an earlier STOP.cmd
\* is truncated and gets a new time) ...
CreateCommand(kind) ==
    /\ IsStop(kind) \/ \A c \in cmds : c.kind # kind
    /\ SpendEvent
    /\ LET truncated == {c \in cmds : IsStop(kind) /\ IsStop(c.kind)}
       IN /\ cmds' = (cmds \ truncated) \cup
                        {[id |-> events, kind |-> kind, full |-> kind # "STOP_force",
                          left |-> 2 * events]}
          /\ swallowed' = swallowed \cup (IdsOf(truncated) \ BatchIds)
    /\ UNCHANGED <<event, stop, markers, engineVars, taskVars, record, due, pc, run, unseen, replaced,
                   handled>>

\* ... and then writes its content, which makes a difference for "force" only and
\* gives the file a new time: later than any file there is.
FillCommand(c) ==
    /\ ~ c.full
    /\ cmds' = (cmds \ {c}) \cup
                  {[id |-> c.id, kind |-> c.kind, full |-> TRUE, left |-> 2 * events + 1]}
    /\ UNCHANGED <<event, stop, swallowed, markers, engineVars, taskVars, record, due, pc, run, unseen,
                   replaced, handled, budget>>

\* A Ray worker returns.
WorkerReturns(r) ==
    /\ r \in running \ ready
    /\ ready' = ready \cup {r}
    /\ UNCHANGED <<event, stop, cliVars, markers, engineVars, queued, running, manifest, workspace,
                   record, due, pc, run, unseen, replaced, handled, budget>>

-----------------------------------------------------------------------------
(* The engine thread: DaemonRuntime._control_loop *)

\* Defect: the loop starts with a clean flag.
TopOfLoopClears ==
    /\ pc["engine"] = "top"
    /\ event' = FALSE
    /\ Goto("engine", IF stop # "never" /\ (running = {} \/ stop = "reached")
                      THEN "dead" ELSE "wait")
    /\ UNCHANGED <<stop, cliVars, markers, engineVars, taskVars, record, due, run, unseen,
                   replaced, handled, budget>>

\* Defect: a drain waits for the last task.
TopOfLoopNoDeadline ==
    /\ pc["engine"] = "top"
    /\ Goto("engine", IF stop # "never" /\ running = {} THEN "dead" ELSE "wait")
    /\ UNCHANGED <<event, stop, cliVars, markers, engineVars, taskVars, record, due, run, unseen,
                   replaced, handled, budget>>

\* The head of the loop: a drain ends without active tasks or at its deadline.
TopOfLoop ==
    /\ pc["engine"] = "top"
    /\ Goto("engine", IF stop # "never" /\ (running = {} \/ stop = "reached")
                      THEN "dead" ELSE "wait")
    /\ UNCHANGED <<event, stop, cliVars, markers, engineVars, taskVars, record, due, run, unseen,
                   replaced, handled, budget>>

\* Defect: the idle engine waits for the event without a limit.
WakeOnEventOnly ==
    /\ pc["engine"] = "wait"
    /\ ready # {} \/ (running = {} /\ event)
    /\ Goto("engine", "clear")
    /\ UNCHANGED <<event, stop, cliVars, markers, engineVars, taskVars, record, due, run, unseen,
                   replaced, handled, budget>>

\* Idle: EventBus.wait, for at most a minute.  With active tasks: ray.wait for
\* half a second.
Wake ==
    /\ pc["engine"] = "wait"
    /\ running = {} \/ ready # {}
    /\ Goto("engine", "clear")
    /\ UNCHANGED <<event, stop, cliVars, markers, engineVars, taskVars, record, due, run, unseen,
                   replaced, handled, budget>>

\* No task has returned: EventBus.wait for a tenth of a second.
NothingReady ==
    /\ pc["engine"] = "wait"
    /\ running # {} /\ ready = {}
    /\ Goto("engine", "event")
    /\ UNCHANGED <<event, stop, cliVars, markers, engineVars, taskVars, record, due, run, unseen,
                   replaced, handled, budget>>

EventComes ==
    /\ pc["engine"] = "event" /\ event
    /\ Goto("engine", "clear")
    /\ UNCHANGED <<event, stop, cliVars, markers, engineVars, taskVars, record, due, run, unseen,
                   replaced, handled, budget>>

EventTimesOut ==
    /\ pc["engine"] = "event" /\ ~ event
    /\ Goto("engine", "timed out")
    /\ UNCHANGED <<event, stop, cliVars, markers, engineVars, taskVars, record, due, run, unseen,
                   replaced, handled, budget>>

\* EventBus.wait clears the flag after a timeout too, and with it a notify that
\* came in between; the loop goes back to its head.
ClearTimedOut ==
    /\ pc["engine"] = "timed out"
    /\ event' = FALSE
    /\ Goto("engine", "top")
    /\ UNCHANGED <<stop, cliVars, markers, engineVars, taskVars, record, due, run, unseen,
                   replaced, handled, budget>>

\* The names of the .cmd files, oldest first.
NamesByTime ==
    LET Older(c, d) == c.left > d.left
        files == SetToSortSeq(cmds, Older)
    IN [i \in DOMAIN files |-> NameOf(files[i].kind)]

\* EventBus.wait clears the flag when it returns; a notify since the return is
\* erased with the ones before.  Then process_commands lists the .cmd files by
\* their time.
ClearEvent ==
    /\ pc["engine"] = "clear"
    /\ event' = FALSE
    /\ listing' = NamesByTime
    /\ Goto("engine", "commands")
    /\ UNCHANGED <<stop, cliVars, markers, batch, raised, taskVars, record, due, run, unseen,
                   replaced, handled, budget>>

\* _get_command_type compares the file name with the values "0".."3" of
\* CommandPriority: no prefix matches, and only a file named like a handler
\* finds it.
HasHandler(kind) == kind \in {"STOP_drain", "STOP_force", "RECOVER_ALL"}

\* The next file is read; one without a handler is deleted ...
ReadCommand ==
    /\ pc["engine"] = "commands" /\ listing # << >>
    /\ \E c \in cmds :
        /\ NameOf(c.kind) = Head(listing)
        /\ IF HasHandler(c.kind)
           THEN /\ batch' = Append(batch, c)
                /\ Goto("engine", "unlink")
                /\ UNCHANGED <<cliVars, listing>>
           ELSE /\ cmds' = cmds \ {c}
                /\ swallowed' = swallowed \cup {c.id}
                /\ listing' = Tail(listing)
                /\ UNCHANGED <<batch, pc>>
    /\ UNCHANGED <<event, stop, markers, raised, taskVars, record, due, run, unseen, replaced,
                   handled, budget>>

\* Defect: the file is left to be deleted after its handler has run.
UnlinkLater ==
    /\ pc["engine"] = "unlink"
    /\ listing' = Tail(listing)
    /\ Goto("engine", "commands")
    /\ UNCHANGED <<event, stop, cliVars, markers, batch, raised, taskVars, record, due, run,
                   unseen, replaced, handled, budget>>

\* ... and the others too, whatever they hold by then: a STOP written since goes
\* with the one that was read.
UnlinkCommand ==
    /\ pc["engine"] = "unlink"
    /\ LET gone == {c \in cmds : NameOf(c.kind) = Head(listing)}
       IN /\ cmds' = cmds \ gone
          /\ swallowed' = swallowed \cup (IdsOf(gone) \ {Last(batch).id})
    /\ listing' = Tail(listing)
    /\ Goto("engine", "commands")
    /\ UNCHANGED <<event, stop, markers, batch, raised, taskVars, record, due, run, unseen,
                   replaced, handled, budget>>

EndOfListing ==
    /\ pc["engine"] = "commands" /\ listing = << >>
    /\ Goto("engine", IF batch = << >> THEN "signals" ELSE "handlers")
    /\ UNCHANGED <<event, stop, cliVars, markers, engineVars, taskVars, record, due, run, unseen,
                   replaced, handled, budget>>

\* _handle_stop; a payload that was empty when it was read is no "force".
HandleStop ==
    /\ pc["engine"] = "handlers" /\ batch # << >> /\ IsStop(Head(batch).kind)
    /\ stop' = IF Head(batch).kind = "STOP_force" /\ Head(batch).full THEN "reached" ELSE "later"
    /\ handled' = [handled EXCEPT ![Head(batch).id] = @ + 1]
    /\ batch' = Tail(batch)
    /\ UNCHANGED <<event, cliVars, markers, listing, raised, taskVars, record, due, pc, run,
                   unseen, replaced, budget>>

\* RECOVER_ALL calls a method DaemonJanitor does not have: the pass ends, and
\* the commands read after it are gone.
HandlerRaises ==
    /\ pc["engine"] = "handlers" /\ batch # << >> /\ Head(batch).kind = "RECOVER_ALL"
    /\ swallowed' = swallowed \cup BatchIds
    /\ batch' = << >>
    /\ raised' = TRUE
    /\ Goto("engine", "top")
    /\ UNCHANGED <<event, stop, cmds, markers, listing, taskVars, record, due, run, unseen,
                   replaced, handled, budget>>

\* _process_commands notifies when there were commands.
EndCommands ==
    /\ pc["engine"] = "handlers" /\ batch = << >>
    /\ event' = TRUE
    /\ Goto("engine", "signals")
    /\ UNCHANGED <<stop, cliVars, markers, engineVars, taskVars, record, due, run, unseen,
                   replaced, handled, budget>>

\* SignalScanner.dispatch deletes a file whose suffix it does not know.
ScanForeign ==
    /\ pc["engine"] = "signals"
    /\ \E c \in cmds : cmds' = cmds \ {c} /\ swallowed' = swallowed \cup {c.id}
    /\ UNCHANGED <<event, stop, markers, engineVars, taskVars, record, due, pc, run, unseen, replaced,
                   handled, budget>>

\* Defect: the file is deleted without a call of its handler.
ScanSignalFiltered(r, ext) ==
    /\ pc["engine"] = "signals" /\ <<r, ext>> \in markers
    /\ markers' = markers \ {<<r, ext>>}
    /\ UNCHANGED <<event, stop, cliVars, engineVars, taskVars, record, due, pc, run, unseen,
                   replaced, handled, budget>>

\* A handler runs while there is a folder; StateSource.parse_update raises for
\* a run the store does not know, and the file is deleted all the same.
ScanSignal(r, ext) ==
    /\ pc["engine"] = "signals" /\ <<r, ext>> \in markers
    /\ IF r \in workspace /\ record[r] # "none"
       THEN /\ Goto("engine", IF ext = "done" THEN "sync done" ELSE "sync")
            /\ run' = [run EXCEPT !["engine"] = r]
            /\ UNCHANGED markers
       ELSE markers' = markers \ {<<r, ext>>} /\ UNCHANGED <<pc, run>>
    /\ UNCHANGED <<event, stop, cliVars, engineVars, taskVars, record, due, unseen, replaced, handled,
                   budget>>

\* Defect: the success handler syncs and leaves the folder.
HandleSignalKeeps ==
    /\ pc["engine"] \in {"sync", "sync done"}
    /\ LET r == run["engine"] IN
        /\ record' = apply_update(record, r, manifest[r])
        /\ markers' = {m \in markers : m[1] # r}
    /\ event' = TRUE
    /\ Goto("engine", "signals")
    /\ UNCHANGED <<stop, cliVars, engineVars, taskVars, due, run, unseen, replaced, handled,
                   budget>>

\* StateHub.sync_manifest gives the status of the manifest to the store, which
\* may have been replaced since; .done then deletes the workspace
\* (Janitor.cleanup_task), and the scanner the signal file.
HandleSignal ==
    /\ pc["engine"] \in {"sync", "sync done"}
    /\ LET r == run["engine"]
           done == pc["engine"] = "sync done" IN
        /\ record' = apply_update(record, r, IF manifest[r] = "none" THEN "UNKNOWN" ELSE manifest[r])
        /\ workspace' = IF done THEN workspace \ {r} ELSE workspace
        /\ manifest' = IF done THEN [manifest EXCEPT ![r] = "none"] ELSE manifest
        /\ markers' = IF done THEN markers \ {<<r, "done">>}
                      ELSE markers \ {<<r, "sync">>, <<r, "fail">>}
    /\ event' = TRUE
    /\ Goto("engine", "signals")
    /\ UNCHANGED <<stop, cliVars, engineVars, queued, running, ready, due, run, unseen, replaced,
                   handled, budget>>

\* Only the engine writes signal files, so none is left behind; a command file
\* that comes while the directory is read may or may not be seen.
EndSignals ==
    /\ pc["engine"] = "signals" /\ markers = {}
    /\ Goto("engine", "submit")
    /\ UNCHANGED <<event, stop, cliVars, markers, engineVars, taskVars, record, due, run, unseen,
                   replaced, handled, budget>>

\* TaskManager.dispatch reaps a worker that has returned: a success, a failure
\* (which is not broadcast), or a step after which the run goes on.
Conclude(r, status) ==
    /\ pc["engine"] = "submit" /\ r \in ready
    /\ running' = running \ {r} /\ ready' = ready \ {r}
    /\ manifest' = [manifest EXCEPT ![r] = IF r \in workspace THEN status ELSE @]
    /\ \/ /\ status = "SUCCESS"
          /\ markers' = markers \cup {<<r, "done">>}
          /\ record' = apply_update(record, r, status)
          /\ UNCHANGED <<queued, budget>>
       \/ /\ status = "FAILED"
          /\ markers' = markers \cup {<<r, "fail">>}
          /\ UNCHANGED <<record, queued, budget>>
       \/ /\ status = "RETRY"
          /\ SpendEvent
          /\ markers' = markers \cup {<<r, "sync">>}
          /\ record' = apply_update(record, r, status)
          /\ queued' = [queued EXCEPT ![r] = @ + 1]
    /\ UNCHANGED <<event, stop, cliVars, engineVars, workspace, due, pc, run, unseen, replaced,
                   handled>>

\* Then the queue is scanned; readiness and capacity decide what is dispatched,
\* and a drain dispatches nothing.
Dispatch ==
    /\ pc["engine"] = "submit" /\ ready = {}
    /\ \E sent \in SUBSET {r \in Runs \ running : stop = "never" /\ queued[r] > 0} :
        /\ queued' = [r \in Runs |-> IF r \in sent THEN queued[r] - 1 ELSE queued[r]]
        /\ running' = running \cup sent
    /\ unseen' = {} /\ raised' = FALSE
    /\ Goto("engine", "top")
    /\ UNCHANGED <<event, stop, cliVars, markers, listing, batch, ready, manifest, workspace, record, due,
                   run, replaced, handled, budget>>

-----------------------------------------------------------------------------
(* The poll thread: DaemonRuntime._poll_and_trigger *)

\* The rows that StateSink loads carry no RUN_ID, so what META.DAEMON_TASK_POLL
\* says of a run is what the scheduling view wrote: it is pending, or (past its
\* slot or its rank) it is not there.
PolledRow == {"PENDING", "none"}

\* TriggerManager.evaluate: a pending run is purged when it has expired, started
\* when its time has come, and otherwise left alone; a stop decides nothing.
evaluate(records, decision) ==
    {<<r, decision[r]>> :
        r \in {x \in Runs : stop = "never" /\ records[x] = "PENDING" /\ decision[x] # "wait"}}

\* DaemonState.refresh replaces all records, or keeps them when the query fails;
\* then the triggers are evaluated.
Refresh ==
    /\ pc["poll"] = "idle"
    /\ \/ /\ record' \in [Runs -> PolledRow]
          /\ replaced' = replaced \cup {r \in Runs : record[r] # "none"}
       \/ UNCHANGED <<record, replaced>>
    /\ \E decision \in [Runs -> {"trigger", "purge", "wait"}] : due' = evaluate(record', decision)
    /\ IF due' = {} THEN UNCHANGED <<budget, pc>> ELSE SpendPoll /\ Goto("poll", "act")
    /\ UNCHANGED <<event, stop, cliVars, markers, engineVars, taskVars, run, unseen, handled>>

\* Orchestrator.start_job: PROVISIONED ...
StartJob(r) ==
    /\ pc["poll"] = "act" /\ <<r, "trigger">> \in due
    /\ due' = due \ {<<r, "trigger">>}
    /\ record' = apply_update(record, r, "PROVISIONED")
    /\ run' = [run EXCEPT !["poll"] = r]
    /\ Goto("poll", "enqueue")
    /\ UNCHANGED <<event, stop, cliVars, markers, engineVars, taskVars, unseen, replaced, handled,
                   budget>>

\* ... workspace and queue.  DenyDuplicateAdmission looks for keys of another
\* shape than the cache holds and admits everything ...
Enqueue ==
    /\ pc["poll"] = "enqueue"
    /\ LET r == run["poll"] IN
        /\ workspace' = workspace \cup {r}
        /\ queued' = [queued EXCEPT ![r] = @ + 1]
        /\ record' = apply_update(record, r, "WAITING")
    /\ Goto("poll", "notify")
    /\ UNCHANGED <<event, stop, cliVars, markers, engineVars, running, ready, manifest, due, run,
                   unseen, replaced, handled, budget>>

\* ... and the engine is woken.
Notify ==
    /\ pc["poll"] = "notify"
    /\ event' = TRUE
    /\ unseen' = unseen \cup {run["poll"]}
    /\ Goto("poll", "act")
    /\ UNCHANGED <<stop, cliVars, markers, engineVars, taskVars, record, due, run, replaced, handled,
                   budget>>

\* DaemonJanitor.evict_expired_run.  A pending run counts as untriggered; the
\* expiry that log_expiry builds is given neither to the store nor to the sink.
Evict(r) ==
    /\ pc["poll"] = "act" /\ <<r, "purge">> \in due
    /\ due' = (due \ {<<r, "purge">>}) \cup {<<r, "purged">>}
    /\ record' = [record EXCEPT ![r] = "none"]
    /\ replaced' = replaced \cup {r}
    /\ UNCHANGED <<event, stop, cliVars, markers, engineVars, taskVars, pc, run, unseen, handled, budget>>

\* The engine is woken when something was evicted.
EndPoll ==
    /\ pc["poll"] = "act" /\ \A d \in due : d[2] = "purged"
    /\ event' = (event \/ due # {})
    /\ due' = {}
    /\ Goto("poll", "idle")
    /\ UNCHANGED <<stop, cliVars, markers, engineVars, taskVars, record, run, unseen, replaced,
                   handled, budget>>

-----------------------------------------------------------------------------
\* The deadline of a drain passes.
DeadlinePasses ==
    /\ stop = "later"
    /\ stop' = "reached"
    /\ UNCHANGED <<event, cliVars, markers, engineVars, taskVars, record, due, pc, run, unseen,
                   replaced, handled, budget>>

\* The process dies, or main() ends it after a drain, and is started again:
\* files and the queue are kept, memory and workers are not.
Restart ==
    /\ SpendEvent
    /\ event' = FALSE /\ stop' = "never" /\ due' = {}
    /\ swallowed' = swallowed \cup (BatchIds \ IdsOf(cmds))
    /\ listing' = << >> /\ batch' = << >> /\ raised' = FALSE
    /\ running' = {} /\ ready' = {}
    /\ record' = [r \in Runs |-> "none"] /\ replaced' = Runs /\ unseen' = {}
    /\ pc' = Begin
    /\ UNCHANGED <<cmds, markers, queued, manifest, workspace, run, handled>>

EngineThread ==
    \/ TopOfLoop \/ Wake \/ NothingReady \/ EventComes \/ EventTimesOut \/ ClearTimedOut
    \/ ClearEvent
    \/ ReadCommand \/ UnlinkCommand \/ EndOfListing
    \/ HandleStop \/ HandlerRaises \/ EndCommands
    \/ ScanForeign \/ HandleSignal \/ EndSignals \/ Dispatch
    \/ \E r \in Runs : \/ \E ext \in {"sync", "done", "fail"} : ScanSignal(r, ext)
                       \/ \E status \in {"SUCCESS", "FAILED", "RETRY"} : Conclude(r, status)

PollThread ==
    \/ Refresh \/ Enqueue \/ Notify \/ EndPoll
    \/ \E r \in Runs : StartJob(r) \/ Evict(r)

CommandLine ==
    \/ \E kind \in Kinds : CreateCommand(kind)
    \/ \E c \in cmds : FillCommand(c)

Workers == \E r \in Runs : WorkerReturns(r)

Next == EngineThread \/ PollThread \/ CommandLine \/ Workers \/ DeadlinePasses \/ Restart

Spec == Init /\ [][Next]_vars

\* The engine thread is scheduled and the clock goes on.  Nothing is assumed of
\* the workers, the scheduler's jobs or the operator.
FairSpec == Spec /\ WF_vars(EngineThread) /\ WF_vars(DeadlinePasses)

\* The poll job, too, comes again and again, and ends what it has begun.
PollingSpec == FairSpec /\ WF_vars(PollThread)

-----------------------------------------------------------------------------
\* An engine without active tasks, which sleeps for a minute, has submitted after
\* every run that was announced, unless its flag is up or a command handler
\* broke off its pass: whatever EventBus.wait erases when it clears the flag
\* after it has returned, the engine does not fall asleep over it.  (With active
\* tasks it may: a notify between the timeout and the clear is lost, and the run
\* waits for the next result or the next event.)
NoLostWakeup ==
    pc["engine"] = "wait" /\ running = {} /\ ~ event => unseen = {} \/ raised

\* A command runs at most once, through overwritten files and restarts of the
\* engine ("Atomic Command Execution", process_commands), and one that was
\* reported lost never runs.
CommandsRunOnce ==
    \A c \in Ids : handled[c] <= IF c \in swallowed THEN 0 ELSE 1

\* The verdict of a run reaches its record, also the failure that is not
\* broadcast, and the .done handler deletes the workspace of a successful one,
\* unless a poll, an eviction or a restart has replaced the record (then
\* sync_manifest raises before cleanup_task) or the engine has stopped.
VerdictHandled ==
    \A r \in Runs : \A verdict \in Terminal :
        manifest[r] = verdict ~>
            \/ record[r] = verdict /\ (verdict = "SUCCESS" => r \notin workspace)
            \/ r \in replaced \/ pc["engine"] = "dead"

\* The engine has taken notice of command c, or it is lost.
Noticed(c) == stop # "never" \/ c \in swallowed \/ pc["engine"] = "dead"

\* When the workers return in the end, a STOP is noticed, unless it is lost on
\* the way (overwritten, swept up by the signal scanner, or read by a pass that
\* broke off or a process that died).  A drain that has begun ends with
\* whatever is still running, whether the workers return or not.
StopEnds ==
    /\ WF_vars(Workers) =>
         \A c \in Ids :
            (\E f \in cmds : f.id = c /\ IsStop(f.kind)) ~> Noticed(c)
    /\ stop # "never" ~> pc["engine"] = "dead" \/ stop = "never"

\* cli/commands/daemon.py says of --force "Kill immediately without waiting for
\* active tasks": a forced STOP is noticed whether or not the workers return.
ForceStopNoticed ==
    \A c \in Ids :
        (\E f \in cmds : f.id = c /\ f.kind = "STOP_force") ~> Noticed(c)
=============================================================================
