------------------------ MODULE TaskLifecycleProofs ------------------------
(***************************************************************************)
(* Proofs about TaskLifecycle for any number of runs, steps and faults.    *)
(***************************************************************************)
EXTENDS TaskLifecycle, Integers, TLAPS

USE DEF Steps, StepsToLast

\* The status a directive writes, and the record it overrides, are well typed.
LEMMA OverriddenType ==
    ASSUME TypeOK, NEW r \in Runs
    PROVE  Overridden(meta[r]) \in MetaType
  BY DEF TypeOK, Overridden, MetaType, DirType

\* Rotating the hot-cache key keeps metadata and keys well typed.
LEMMA RotationType ==
    ASSUME TypeOK, NEW r \in Runs, NEW new \in MetaType, transition_state(r, new)
    PROVE  /\ meta' \in [Runs -> MetaType]
           /\ keys' \in [Runs -> SUBSET (Status \X StepsToLast)]
<1>1. meta' \in [Runs -> MetaType]
  BY DEF TypeOK, transition_state
<1>2. <<new.status, new.step>> \in Status \X StepsToLast
  BY DEF MetaType
<1>3. keys' \in [Runs -> SUBSET (Status \X StepsToLast)]
  BY <1>2 DEF TypeOK, transition_state, Rotate
<1> QED BY <1>1, <1>3

\* get_next_step_id returns a step of the pipeline, or 0 for None.
LEMMA NextStepIdType ==
    ASSUME NEW s \in StepsToLast
    PROVE  get_next_step_id(s) \in StepsToLast \cup {0}
  BY ConstantsAssumption DEF get_next_step_id, get_step_ids

\* Loading a manifest, or the skeleton of a missing one, yields a manifest.
LEMMA LoadManifestType ==
    ASSUME TypeOK, NEW r \in Runs, NEW step \in StepsToLast
    PROVE  LoadManifest(r, step) \in ManifestType
<1>1. NoManifest \in ManifestType
  BY ConstantsAssumption DEF NoManifest, ManifestType, ManifestStatus
<1>2. Skeleton(step) \in ManifestType
  BY <1>1 DEF Skeleton, ManifestType
<1> QED BY <1>2 DEF LoadManifest, TypeOK

\* Init establishes the types.
LEMMA InitType == Init => TypeOK
<1>1. FreshMeta(FromStep) \in MetaType
  BY ConstantsAssumption DEF FreshMeta, MetaType, Status, LiveStatus
<1>2. NoManifest \in ManifestType
  BY ConstantsAssumption DEF NoManifest, ManifestType, ManifestStatus
<1>3. NoDir \in DirType
  BY DEF NoDir, DirType, Status, LiveStatus, Actions
<1>4. ASSUME Init PROVE TypeOK
  <2>1. budgets \in [blocks : Nat, deaths : Nat, resumes : Nat, drains : Nat]
    BY <1>4, ConstantsAssumption DEF Init
  <2>2. /\ meta \in [Runs -> MetaType]
        /\ manifest \in [Runs -> ManifestType]
        /\ dir \in DirType
    BY <1>4, <1>1, <1>2, <1>3 DEF Init
  <2> QED BY <1>4, <2>1, <2>2 DEF Init, TypeOK, AttemptPhases
<1> QED BY <1>4

\* Reaping leaves snapshot and worker table well typed.
LEMMA ReapType ==
    ASSUME TypeOK, NEW r \in Runs, NEW results, Reap(r, results)
    PROVE  /\ snap' \subseteq Runs
           /\ worker' \in [Runs -> {"none", "submitted"} \cup InSession \cup Finished \cup Crashed]
  BY DEF TypeOK, Reap

\* A directive of the right type can be handed to the apply step.
LEMMA ResolveType ==
    ASSUME TypeOK, NEW r \in Runs, NEW d \in DirType, NEW results,
           Reap(r, results), Resolve(r, d),
           manifest' \in [Runs -> ManifestType],
           markers' \in [Runs -> SUBSET {"RETRY", "BLOCKED"}]
    PROVE  TypeOK'
  BY ReapType DEF TypeOK, Resolve

\* Each outcome keeps the types.
LEMMA ConcludeType ==
    ASSUME TypeOK, NEW r \in Runs, Conclude(r)
    PROVE  TypeOK'
<1> USE DEF ManifestStatus, Status, LiveStatus, Actions
<1>0. manifest[r] \in ManifestType /\ meta[r] \in MetaType /\ NoDir \in DirType
  BY DEF TypeOK, NoDir, DirType
<1>f. ASSUME NEW results, Reap(r, results), FailedOutcome(r) PROVE TypeOK'
  <2>1. [NoDir EXCEPT !.action = "failed"] \in DirType
    BY <1>0 DEF DirType
  <2>2. manifest' \in [Runs -> ManifestType] /\ markers' \in [Runs -> SUBSET {"RETRY", "BLOCKED"}]
    BY <1>f, <1>0 DEF TypeOK, FailedOutcome, ManifestType
  <2> QED BY <1>f, <2>1, <2>2, ResolveType DEF FailedOutcome
<1>1. CASE SuccessOutcome(r)
  <2>1. [NoDir EXCEPT !.action = "success", !.status = "SUCCESS"] \in DirType
    BY <1>0 DEF DirType
  <2>2. manifest' \in [Runs -> ManifestType] /\ markers' \in [Runs -> SUBSET {"RETRY", "BLOCKED"}]
    BY <1>1, <1>0 DEF TypeOK, SuccessOutcome, ManifestType
  <2> QED BY <1>1, <2>1, <2>2, ResolveType DEF SuccessOutcome
<1>2. CASE ProgressOutcome(r)
  <2> DEFINE next == get_next_step_id(meta[r].step)
  <2>1. next \in StepsToLast
    BY <1>0, <1>2, NextStepIdType DEF ProgressOutcome, MetaType
  <2>2. /\ manifest' = [manifest EXCEPT ![r].status = "WAITING", ![r].step = next]
        /\ UNCHANGED markers /\ Reap(r, {"ok"})
        /\ Resolve(r, [NoDir EXCEPT !.action = "progress", !.step = next])
    BY <1>2 DEF ProgressOutcome
  <2> HIDE DEF next
  <2>3. [NoDir EXCEPT !.action = "progress", !.step = next] \in DirType
    BY <1>0, <2>1 DEF DirType
  <2>4. manifest' \in [Runs -> ManifestType] /\ markers' \in [Runs -> SUBSET {"RETRY", "BLOCKED"}]
    BY <2>1, <2>2, <1>0 DEF TypeOK, ManifestType
  <2> QED BY <2>2, <2>3, <2>4, ResolveType
<1>3. CASE ReconcileError(r)
  <2>1. PICK results : Reap(r, results)
    BY <1>3 DEF ReconcileError
  <2> QED BY <1>3, <2>1, ReapType DEF TypeOK, ReconcileError, Dropped
<1>4. CASE FatalError(r)
  BY <1>4, <1>f DEF FatalError
<1>5. ASSUME NEW late \in BOOLEAN, RetryOutcome(r, late) PROVE TypeOK'
  <2>1. [NoDir EXCEPT !.action = "retry", !.status = "RETRY"] \in DirType
    BY <1>0 DEF DirType
  <2>2. manifest' \in [Runs -> ManifestType] /\ markers' \in [Runs -> SUBSET {"RETRY", "BLOCKED"}]
    BY <1>5, <1>0 DEF TypeOK, RetryOutcome, ManifestType
  <2> QED BY <1>5, <2>1, <2>2, ResolveType DEF RetryOutcome
<1>6. ASSUME NEW late \in BOOLEAN, RetryRefused(r, late) PROVE TypeOK'
  BY <1>6, <1>f DEF RetryRefused
<1>7. ASSUME NEW svc \in Services, BlockedOutcome(r, svc) PROVE TypeOK'
  <2>1. [NoDir EXCEPT !.action = "blocked", !.status = "BLOCKED", !.blocked = svc] \in DirType
    BY <1>0 DEF DirType
  <2>2. manifest' \in [Runs -> ManifestType] /\ markers' \in [Runs -> SUBSET {"RETRY", "BLOCKED"}]
    BY <1>7, <1>0 DEF TypeOK, BlockedOutcome, ManifestType
  <2> QED BY <1>7, <2>1, <2>2, ResolveType DEF BlockedOutcome
<1>8. ASSUME NEW late \in BOOLEAN, UnrecordedError(r, late) PROVE TypeOK'
  <2>1. PICK results : Reap(r, results)
    BY <1>8 DEF UnrecordedError
  <2>2. markers' \in [Runs -> SUBSET {"RETRY", "BLOCKED"}]
    BY <1>8 DEF UnrecordedError, TypeOK
  <2> QED BY <1>8, <2>1, <2>2, ReapType DEF TypeOK, UnrecordedError, Dropped
<1> QED BY <1>1, <1>2, <1>3, <1>4, <1>5, <1>6, <1>7, <1>8 DEF Conclude

\* The other steps of the engine thread keep the types.
LEMMA EngineType ==
    ASSUME TypeOK, Engine
    PROVE  TypeOK'
<1> USE DEF engineVars, diskVars, AttemptPhases
<1>0. NoDir \in DirType
  BY DEF NoDir, DirType, Status, LiveStatus, Actions
<1>1. CASE EndCommands \/ StartReap \/ EndReap \/ EndScan
  <2>1. CASE EndCommands
    BY <2>1 DEF TypeOK, EndCommands
  <2>2. CASE StartReap
    BY <2>2 DEF TypeOK, StartReap
  <2>3. CASE EndReap
    BY <2>3 DEF TypeOK, EndReap
  <2>4. CASE EndScan
    BY <2>4 DEF TypeOK, EndScan, Visited
  <2> QED BY <1>1, <2>1, <2>2, <2>3, <2>4
<1>2. CASE Apply
  <2>0. cur \in Runs
    BY <1>2 DEF TypeOK, Apply
  <2>1. transition_state(cur, Overridden(meta[cur]))
    BY <1>2 DEF Apply
  <2>2. meta' \in [Runs -> MetaType] /\ keys' \in [Runs -> SUBSET (Status \X StepsToLast)]
    BY <2>0, <2>1, OverriddenType, RotationType
  <2> QED BY <1>2, <1>0, <2>0, <2>2 DEF TypeOK, Apply
<1>3. CASE ApplyFailed
  <2>0. cur \in Runs
    BY <1>3 DEF TypeOK, ApplyFailed
  <2> QED BY <1>3, <1>0, <2>0 DEF TypeOK, ApplyFailed
<1>4. CASE dispatch_task
  <2>0. cur \in Runs
    BY <1>4 DEF TypeOK, dispatch_task
  <2>1. [meta[cur] EXCEPT !.status = "DISPATCHED"] \in MetaType
    <3>1. meta[cur] \in MetaType
      BY <2>0 DEF TypeOK
    <3> QED BY <3>1 DEF MetaType, Status, LiveStatus
  <2>2. meta' \in [Runs -> MetaType] /\ keys' \in [Runs -> SUBSET (Status \X StepsToLast)]
    BY <1>4, <2>0, <2>1, RotationType DEF dispatch_task
  <2> QED BY <1>4, <2>0, <2>2 DEF TypeOK, dispatch_task
<1>5. CASE DrainExit
  BY <1>5, <1>0 DEF TypeOK, DrainExit, GoDown
<1>6. ASSUME NEW r \in Runs, NEW ext \in {"sync", "done", "fail"}, ProcessSignal(r, ext)
      PROVE  TypeOK'
  <2>1. NoManifest \in ManifestType
    BY ConstantsAssumption DEF NoManifest, ManifestType, ManifestStatus
  <2> QED BY <1>6, <2>1 DEF TypeOK, ProcessSignal
<1>7. ASSUME NEW r \in Runs, Conclude(r) PROVE TypeOK'
  BY <1>7, ConcludeType
<1>8. ASSUME NEW r \in Runs, NEW diskOk \in BOOLEAN, NEW svcOk \in BOOLEAN,
             NotReady(r, diskOk, svcOk) \/ PopByKey(r, diskOk, svcOk)
      PROVE  TypeOK'
  BY <1>8 DEF TypeOK, NotReady, PopByKey
<1> QED BY <1>1, <1>2, <1>3, <1>4, <1>5, <1>6, <1>7, <1>8 DEF Engine, Pop

\* The steps of a worker keep the types.
LEMMA WorkerType ==
    ASSUME TypeOK, NEW r \in Runs, Worker(r)
    PROVE  TypeOK'
<1> USE DEF engineVars, workerUnchanged, InSession
<1>0. manifest[r] \in ManifestType /\ meta[r] \in MetaType
  BY DEF TypeOK
<1>1. CASE WorkerStart(r)
  <2> DEFINE new == [meta[r] EXCEPT !.status = "RUNNING"]
             mf  == LoadManifest(r, meta[r].step)
  <2>1. new \in MetaType
    BY <1>0 DEF MetaType, Status, LiveStatus
  <2>2. meta' \in [Runs -> MetaType] /\ keys' \in [Runs -> SUBSET (Status \X StepsToLast)]
    BY <1>1, <2>1, RotationType DEF WorkerStart
  <2>3. mf \in ManifestType
    BY <1>0, LoadManifestType DEF MetaType
  <2>4. manifest' \in [Runs -> ManifestType]
    BY <1>1, <2>3 DEF WorkerStart, TypeOK
  <2> QED BY <1>1, <2>2, <2>4 DEF TypeOK, WorkerStart
<1>2. CASE CountRetry(r)
  <2>1. manifest[r].retry + 1 \in Nat /\ meta[r].step \in StepsToLast
    BY <1>0 DEF ManifestType, MetaType
  <2>2. manifest' \in [Runs -> ManifestType]
    BY <1>0, <1>2, <2>1 DEF CountRetry, TypeOK, ManifestType, ManifestStatus
  <2> QED BY <1>2, <2>2 DEF TypeOK, CountRetry
<1>3. CASE RemoveRetryMarker(r) \/ BeginStage(r)
  BY <1>3 DEF TypeOK, RemoveRetryMarker, BeginStage
<1>4. CASE SavePayload(r)
  <2>1. manifest' \in [Runs -> ManifestType]
    BY <1>0, <1>4 DEF SavePayload, TypeOK, ManifestType, MetaType
  <2> QED BY <1>4, <2>1 DEF TypeOK, SavePayload
<1>5. CASE WorkerSucceeds(r) \/ WorkerHasNoConfig(r)
  BY <1>5 DEF TypeOK, WorkerSucceeds, WorkerHasNoConfig, Finished
<1>6. ASSUME NEW kind \in ExceptionKinds, NEW recorded \in BOOLEAN,
             WorkerErrors(r, kind, recorded)
      PROVE  TypeOK'
  <2>1. manifest' \in [Runs -> ManifestType]
    BY <1>0, <1>6 DEF WorkerErrors, TypeOK, ManifestType, ManifestStatus
  <2>2. budgets' \in [blocks : Nat, deaths : Nat, resumes : Nat, drains : Nat]
    BY <1>6 DEF WorkerErrors, TypeOK
  <2>3. worker' \in [Runs -> {"none", "submitted"} \cup InSession \cup Finished \cup Crashed]
    BY <1>6 DEF WorkerErrors, TypeOK, ExceptionKinds, Finished
  <2> QED BY <1>6, <2>1, <2>2, <2>3 DEF TypeOK, WorkerErrors
<1> QED BY <1>1, <1>2, <1>3, <1>4, <1>5, <1>6 DEF Worker

\* Operator, scheduler, clock and failures keep the types.
LEMMA EnvironmentType ==
    ASSUME TypeOK, Environment
    PROVE  TypeOK'
<1> USE DEF engineVars, diskVars
<1>0. NoDir \in DirType
  BY DEF NoDir, DirType, Status, LiveStatus, Actions
<1>1. CASE Drain
  BY <1>1 DEF TypeOK, Drain
<1>2. CASE Crash
  BY <1>2, <1>0 DEF TypeOK, Crash, GoDown
<1>3. CASE Restart
  BY <1>3 DEF TypeOK, Restart
<1>4. ASSUME NEW r \in Runs, StartJob(r) PROVE TypeOK'
  <2>1. FreshMeta(FromStep) \in MetaType
    BY ConstantsAssumption DEF FreshMeta, MetaType, Status, LiveStatus
  <2> QED BY <1>4, <2>1 DEF TypeOK, StartJob
<1>5. ASSUME NEW r \in Runs, Resume(r) PROVE TypeOK'
  <2>1. manifest[r] \in ManifestType
    BY DEF TypeOK
  <2>2. FreshMeta(manifest[r].step) \in MetaType
    BY <2>1 DEF FreshMeta, MetaType, ManifestType, Status, LiveStatus
  <2>3. meta' \in [Runs -> MetaType]
    BY <1>5, <2>2 DEF Resume, TypeOK
  <2>4. manifest' \in [Runs -> ManifestType]
    BY <1>5, <2>1 DEF Resume, TypeOK, ManifestType, ManifestStatus
  <2>5. budgets' \in [blocks : Nat, deaths : Nat, resumes : Nat, drains : Nat]
    BY <1>5 DEF TypeOK, Resume
  <2> QED BY <1>5, <2>3, <2>4, <2>5 DEF TypeOK, Resume, AttemptPhases
<1>6. ASSUME NEW r \in Runs, TimePasses(r) PROVE TypeOK'
  BY <1>6 DEF TypeOK, TimePasses, AttemptPhases
<1>7. ASSUME NEW r \in Runs, NEW how \in Crashed, WorkerDies(r, how) PROVE TypeOK'
  BY <1>7 DEF TypeOK, WorkerDies, workerUnchanged
<1> QED BY <1>1, <1>2, <1>3, <1>4, <1>5, <1>6, <1>7 DEF Environment

\* Type correctness: in every reachable state every variable holds a value
\* of its type, and the engine thread has a run in hand exactly while it
\* dispatches one or applies an outcome.
THEOREM TypeCorrect == Spec => []TypeOK
<1>1. Init => TypeOK
  BY InitType
<1>2. TypeOK /\ [Next]_vars => TypeOK'
  <2> SUFFICES ASSUME TypeOK, [Next]_vars PROVE TypeOK'
    OBVIOUS
  <2>1. CASE Next
    BY <2>1, EngineType, WorkerType, EnvironmentType DEF Next
  <2>2. CASE UNCHANGED vars
    BY <2>2 DEF TypeOK, vars
  <2> QED BY <2>1, <2>2
<1> QED BY <1>1, <1>2, PTL DEF Spec

(***************************************************************************)
(* Every live run is in one place.  The strengthening says that the        *)
(* dispatch snapshot is still in the queue, so that what is popped was     *)
(* there.                                                                  *)
(***************************************************************************)
\* What the engine thread iterates over in dispatch is still queued.
SnapshotQueued == pc \in {"scan", "spawn"} => snap \subseteq queued

PlaceInv == TypeOK /\ OnePlace /\ SnapshotQueued

\* The steps of the engine thread hand a run over.
LEMMA EnginePlace ==
    ASSUME PlaceInv, Engine
    PROVE  OnePlace' /\ SnapshotQueued'
<1> USE ConstantsAssumption DEF PlaceInv, OnePlace, Tokens, SnapshotQueued, TypeOK
<1>1. CASE EndCommands
  BY <1>1 DEF EndCommands
<1>2. CASE StartReap
  BY <1>2 DEF StartReap
<1>3. CASE Apply
  <2>1. cur \in Runs /\ cur' = NoRun /\ worker' = worker /\ snap' = snap /\ pc' = "reap"
    BY <1>3 DEF Apply
  <2>2. verdict[cur] = "live" /\ cur \notin queued /\ worker[cur] = "none"
    BY <2>1
  <2>3. CASE dir.action = "success"
    <3>1. queued' = queued /\ verdict' = [verdict EXCEPT ![cur] = "SUCCESS"]
      BY <1>3, <2>3 DEF Apply
    <3> QED BY <2>1, <2>2, <3>1
  <2>4. CASE dir.action # "success"
    <3>1. queued' = queued \cup {cur} /\ verdict' = verdict
      BY <1>3, <2>4 DEF Apply
    <3> QED BY <2>1, <2>2, <3>1
  <2> QED BY <2>3, <2>4
<1>4. CASE ApplyFailed
  BY <1>4 DEF ApplyFailed
<1>5. CASE EndReap
  BY <1>5 DEF EndReap
<1>6. CASE EndScan
  BY <1>6 DEF EndScan, Visited
<1>7. CASE dispatch_task
  BY <1>7 DEF dispatch_task
<1>8. CASE DrainExit
  BY <1>8 DEF DrainExit, Drained, GoDown
<1>9. ASSUME NEW r \in Runs, NEW ext \in {"sync", "done", "fail"}, ProcessSignal(r, ext)
      PROVE  OnePlace' /\ SnapshotQueued'
  BY <1>9 DEF ProcessSignal, engineVars
<1>10. ASSUME NEW r \in Runs, Conclude(r)
       PROVE  OnePlace' /\ SnapshotQueued'
  <2>1. ASSUME NEW results, NEW d, "none" \notin results, Reap(r, results), Resolve(r, d)
        PROVE  OnePlace' /\ SnapshotQueued'
    BY <2>1 DEF Reap, Resolve
  <2>2. CASE ReconcileError(r)
    <3>1. PICK results : Reap(r, results) /\ "none" \notin results
      BY <2>2 DEF ReconcileError, Crashed
    <3> QED BY <2>2, <3>1 DEF ReconcileError, Dropped, Reap
  <2>3. ASSUME NEW late \in BOOLEAN, UnrecordedError(r, late)
        PROVE  OnePlace' /\ SnapshotQueued'
    <3>1. PICK results : Reap(r, results) /\ "none" \notin results
      BY <2>3 DEF UnrecordedError
    <3> QED BY <2>3, <3>1 DEF UnrecordedError, Dropped, Reap
  <2> HIDE DEF PlaceInv, OnePlace, Tokens, SnapshotQueued, TypeOK
  <2> QED BY <1>10, <2>1, <2>2, <2>3 DEF Conclude, SuccessOutcome, ProgressOutcome,
          FatalError, RetryOutcome, RetryRefused, BlockedOutcome, FailedOutcome
<1>11. ASSUME NEW r \in Runs, NEW diskOk \in BOOLEAN, NEW svcOk \in BOOLEAN,
              NotReady(r, diskOk, svcOk)
       PROVE  OnePlace' /\ SnapshotQueued'
  BY <1>11 DEF NotReady
<1>12. ASSUME NEW r \in Runs, NEW diskOk \in BOOLEAN, NEW svcOk \in BOOLEAN,
              PopByKey(r, diskOk, svcOk)
       PROVE  OnePlace' /\ SnapshotQueued'
  <2>1. /\ r \in snap /\ pc = "scan" /\ worker[r] = "none" /\ cur' = r /\ pc' = "spawn"
        /\ snap' = snap \ {r} /\ queued' = queued \ {r} /\ UNCHANGED <<worker, verdict>>
    BY <1>12 DEF PopByKey, Visited
  <2>2. r \in queued /\ cur = NoRun
    BY <2>1
  <2> QED BY <2>1, <2>2
<1> HIDE DEF PlaceInv, OnePlace, Tokens, SnapshotQueued, TypeOK
<1> QED BY <1>1, <1>2, <1>3, <1>4, <1>5, <1>6, <1>7, <1>8, <1>9, <1>10, <1>11, <1>12
        DEF Engine, Pop

\* A worker keeps the run it has.
LEMMA WorkerPlace ==
    ASSUME PlaceInv, NEW r \in Runs, Worker(r)
    PROVE  OnePlace' /\ SnapshotQueued'
<1> USE DEF PlaceInv, OnePlace, Tokens, SnapshotQueued, TypeOK, workerUnchanged, engineVars,
        InSession
<1>1. CASE WorkerStart(r)
  BY <1>1 DEF WorkerStart
<1>2. CASE CountRetry(r) \/ RemoveRetryMarker(r) \/ BeginStage(r)
  BY <1>2 DEF CountRetry, RemoveRetryMarker, BeginStage
<1>3. CASE SavePayload(r) \/ WorkerSucceeds(r) \/ WorkerHasNoConfig(r)
  BY <1>3 DEF SavePayload, WorkerSucceeds, WorkerHasNoConfig
<1>4. ASSUME NEW kind \in ExceptionKinds, NEW recorded \in BOOLEAN,
             WorkerErrors(r, kind, recorded)
      PROVE  OnePlace' /\ SnapshotQueued'
  BY <1>4 DEF WorkerErrors, ExceptionKinds
<1> QED BY <1>1, <1>2, <1>3, <1>4 DEF Worker

\* Admission and resume create the place of a run; a crash takes it away.
LEMMA EnvironmentPlace ==
    ASSUME PlaceInv, Environment
    PROVE  OnePlace' /\ SnapshotQueued'
<1> USE ConstantsAssumption DEF PlaceInv, OnePlace, Tokens, SnapshotQueued, TypeOK, engineVars
<1>1. CASE Drain
  BY <1>1 DEF Drain
<1>2. CASE Crash
  BY <1>2 DEF Crash, GoDown
<1>3. CASE Restart
  BY <1>3 DEF Restart
<1>4. ASSUME NEW r \in Runs, StartJob(r) PROVE OnePlace' /\ SnapshotQueued'
  BY <1>4 DEF StartJob
<1>5. ASSUME NEW r \in Runs, Resume(r) PROVE OnePlace' /\ SnapshotQueued'
  BY <1>5 DEF Resume
<1>6. ASSUME NEW r \in Runs, TimePasses(r) PROVE OnePlace' /\ SnapshotQueued'
  BY <1>6 DEF TimePasses
<1>7. ASSUME NEW r \in Runs, NEW how \in Crashed, WorkerDies(r, how)
      PROVE  OnePlace' /\ SnapshotQueued'
  BY <1>7 DEF WorkerDies, workerUnchanged, Crashed, InSession
<1> QED BY <1>1, <1>2, <1>3, <1>4, <1>5, <1>6, <1>7 DEF Environment

LEMMA PlaceInvariant == Spec => []PlaceInv
<1>1. Init => PlaceInv
  <2> SUFFICES ASSUME Init PROVE PlaceInv
    OBVIOUS
  <2>1. OnePlace /\ SnapshotQueued
    BY ConstantsAssumption DEF Init, OnePlace, Tokens, SnapshotQueued
  <2> QED BY <2>1, InitType DEF PlaceInv
<1>2. PlaceInv /\ TypeOK' /\ [Next]_vars => PlaceInv'
  <2> SUFFICES ASSUME PlaceInv, TypeOK', [Next]_vars PROVE OnePlace' /\ SnapshotQueued'
    BY DEF PlaceInv
  <2>1. CASE Next
    BY <2>1, EnginePlace, WorkerPlace, EnvironmentPlace DEF Next
  <2>2. CASE UNCHANGED vars
    BY <2>2 DEF PlaceInv, OnePlace, Tokens, SnapshotQueued, vars
  <2> QED BY <2>1, <2>2
<1> QED BY <1>1, <1>2, TypeCorrect, PTL DEF Spec

\* No run is duplicated or dropped: for any set of runs, an admitted run that
\* is not concluded is in the queue, in the hands of the engine thread or in
\* active_tasks, and in one of them only.
THEOREM EveryRunInOnePlace == Spec => []OnePlace
  BY PlaceInvariant, PTL DEF PlaceInv

(***************************************************************************)
(* The hot-cache entry.  That a run is in one place is what keeps the      *)
(* engine thread from rotating the entry of a run that has a worker.       *)
(***************************************************************************)
CacheInv == PlaceInv /\ CacheFollowsTask

\* A step that touches the entry of one run only, and starts no other
\* worker, is judged by that run.
LEMMA CacheFrame ==
    ASSUME CacheFollowsTask, NEW r,
           \A q \in Runs : q # r =>
              /\ meta'[q] = meta[q] /\ keys'[q] = keys[q] /\ worker'[q] = worker[q]
              /\ cur' = q /\ pc' = "apply" => cur = q /\ pc = "apply",
           r \in Runs =>
              /\ worker'[r] = "submitted" => HasEntry(r, "DISPATCHED")'
              /\ worker'[r] \in InSession \cup Finished => HasEntry(r, "RUNNING")'
              /\ (cur' = r /\ pc' = "apply") => HasEntry(r, "RUNNING")'
    PROVE  CacheFollowsTask'
  BY DEF CacheFollowsTask, HasEntry

\* The steps of the engine thread leave every entry its reader needs.
LEMMA EngineCache ==
    ASSUME CacheInv, Engine
    PROVE  CacheFollowsTask'
<1> USE ConstantsAssumption DEF CacheInv, PlaceInv, OnePlace, Tokens, CacheFollowsTask,
        HasEntry, TypeOK
<1>1. CASE EndCommands
  BY <1>1 DEF EndCommands
<1>2. CASE StartReap
  BY <1>2 DEF StartReap
<1>3. CASE Apply
  <2>1. cur \in Runs /\ worker[cur] = "none"
    BY <1>3 DEF Apply
  <2>2. \A q \in Runs : q # cur => meta'[q] = meta[q] /\ keys'[q] = keys[q]
    BY <1>3 DEF Apply, transition_state, Rotate
  <2>3. worker' = worker /\ cur' = NoRun
    BY <1>3 DEF Apply
  <2> QED BY <2>1, <2>2, <2>3 DEF Finished, InSession
<1>4. CASE ApplyFailed
  BY <1>4 DEF ApplyFailed
<1>5. CASE EndReap
  BY <1>5 DEF EndReap
<1>6. CASE EndScan
  BY <1>6 DEF EndScan, Visited
<1>7. CASE dispatch_task
  <2>1. meta[cur] \in MetaType /\ cur \in Runs
    BY <1>7 DEF dispatch_task
  <2>2. meta'[cur] = [meta[cur] EXCEPT !.status = "DISPATCHED"]
        /\ <<"DISPATCHED", meta[cur].step>> \in keys'[cur]
        /\ worker'[cur] = "submitted" /\ cur' = NoRun
    BY <1>7, <2>1 DEF dispatch_task, transition_state, Rotate, MetaType
  <2>3. \A q \in Runs : q # cur =>
           meta'[q] = meta[q] /\ keys'[q] = keys[q] /\ worker'[q] = worker[q]
    BY <1>7, <2>1 DEF dispatch_task, transition_state, Rotate
  <2>4. meta'[cur].step = meta[cur].step
    BY <2>1, <2>2 DEF MetaType
  <2>5. CacheFollowsTask /\ NoRun \notin Runs
    OBVIOUS
  <2> HIDE DEF CacheInv, CacheFollowsTask
  <2> QED BY <2>1, <2>2, <2>3, <2>4, <2>5, CacheFrame DEF Finished, InSession
<1>8. CASE DrainExit
  BY <1>8 DEF DrainExit, GoDown, Finished, InSession
<1>9. ASSUME NEW r \in Runs, NEW ext \in {"sync", "done", "fail"}, ProcessSignal(r, ext)
      PROVE  CacheFollowsTask'
  BY <1>9 DEF ProcessSignal, engineVars
<1>10. ASSUME NEW r \in Runs, Conclude(r)
       PROVE  CacheFollowsTask'
  <2>1. ASSUME NEW results, NEW d, results \subseteq Finished, Reap(r, results), Resolve(r, d)
        PROVE  CacheFollowsTask'
    <3>1. meta' = meta /\ keys' = keys /\ cur' = r /\ worker' = [worker EXCEPT ![r] = "none"]
      BY <2>1 DEF Reap, Resolve
    <3>2. HasEntry(r, "RUNNING")
      BY <2>1 DEF Reap
    <3>3. worker'[r] = "none" /\ \A q \in Runs : q # r => worker'[q] = worker[q]
      BY <3>1
    <3>4. CacheFollowsTask /\ HasEntry(r, "RUNNING")'
      BY <3>1, <3>2
    <3> HIDE DEF CacheInv, CacheFollowsTask, HasEntry
    <3> QED BY <3>1, <3>3, <3>4, CacheFrame DEF Finished, InSession
  <2>2. CASE ReconcileError(r)
    <3>1. PICK results : Reap(r, results)
      BY <2>2 DEF ReconcileError
    <3> QED BY <2>2, <3>1 DEF ReconcileError, Dropped, Reap, Finished, InSession
  <2>3. ASSUME NEW late \in BOOLEAN, UnrecordedError(r, late) PROVE CacheFollowsTask'
    <3>1. PICK results : Reap(r, results)
      BY <2>3 DEF UnrecordedError
    <3> QED BY <2>3, <3>1 DEF UnrecordedError, Dropped, Reap, Finished, InSession
  <2> HIDE DEF CacheInv, PlaceInv, OnePlace, Tokens, CacheFollowsTask, HasEntry, TypeOK
  <2> QED BY <1>10, <2>1, <2>2, <2>3 DEF Conclude, SuccessOutcome, ProgressOutcome,
          FatalError, RetryOutcome, RetryRefused, BlockedOutcome, FailedOutcome, Finished
<1>11. ASSUME NEW r \in Runs, NEW diskOk \in BOOLEAN, NEW svcOk \in BOOLEAN,
              NotReady(r, diskOk, svcOk)
       PROVE  CacheFollowsTask'
  BY <1>11 DEF NotReady
<1>12. ASSUME NEW r \in Runs, NEW diskOk \in BOOLEAN, NEW svcOk \in BOOLEAN,
              PopByKey(r, diskOk, svcOk)
       PROVE  CacheFollowsTask'
  BY <1>12 DEF PopByKey, Visited
<1> HIDE DEF CacheInv, PlaceInv, OnePlace, Tokens, CacheFollowsTask, HasEntry, TypeOK
<1> QED BY <1>1, <1>2, <1>3, <1>4, <1>5, <1>6, <1>7, <1>8, <1>9, <1>10, <1>11, <1>12
        DEF Engine, Pop

\* A worker finds the DISPATCHED entry and leaves a RUNNING one.
LEMMA WorkerCache ==
    ASSUME CacheInv, NEW r \in Runs, Worker(r)
    PROVE  CacheFollowsTask'
<1> USE DEF CacheInv, PlaceInv, OnePlace, Tokens, CacheFollowsTask, HasEntry, TypeOK,
        workerUnchanged, engineVars, InSession
<1>1. CASE WorkerStart(r)
  <2>1. meta[r] \in MetaType /\ CacheFollowsTask /\ cur # r
    BY <1>1 DEF WorkerStart
  <2>2. meta'[r] = [meta[r] EXCEPT !.status = "RUNNING"]
        /\ <<"RUNNING", meta[r].step>> \in keys'[r] /\ worker'[r] = "entering"
        /\ cur' = cur /\ pc' = pc
    BY <1>1, <2>1 DEF WorkerStart, transition_state, Rotate, MetaType
  <2>3. \A q \in Runs : q # r =>
           meta'[q] = meta[q] /\ keys'[q] = keys[q] /\ worker'[q] = worker[q]
    BY <1>1 DEF WorkerStart, transition_state, Rotate
  <2>4. meta'[r].step = meta[r].step
    BY <2>1, <2>2 DEF MetaType
  <2> HIDE DEF CacheInv, CacheFollowsTask, PlaceInv, OnePlace, Tokens, TypeOK
  <2> QED BY <2>1, <2>2, <2>3, <2>4, CacheFrame
<1>2. CASE CountRetry(r) \/ RemoveRetryMarker(r) \/ BeginStage(r)
  BY <1>2 DEF CountRetry, RemoveRetryMarker, BeginStage
<1>3. CASE SavePayload(r) \/ WorkerSucceeds(r) \/ WorkerHasNoConfig(r)
  BY <1>3 DEF SavePayload, WorkerSucceeds, WorkerHasNoConfig, Finished
<1>4. ASSUME NEW kind \in ExceptionKinds, NEW recorded \in BOOLEAN,
             WorkerErrors(r, kind, recorded)
      PROVE  CacheFollowsTask'
  BY <1>4 DEF WorkerErrors, ExceptionKinds, Finished
<1> HIDE DEF CacheInv, PlaceInv, OnePlace, Tokens, CacheFollowsTask, HasEntry, TypeOK
<1> QED BY <1>1, <1>2, <1>3, <1>4 DEF Worker

\* A worker that dies needs no entry any more, and takes none away.
LEMMA DyingWorkerCache ==
    ASSUME CacheInv, NEW r \in Runs, NEW how \in Crashed, WorkerDies(r, how)
    PROVE  CacheFollowsTask'
<1>1. meta' = meta /\ keys' = keys /\ cur' = cur /\ pc' = pc
  BY DEF WorkerDies, workerUnchanged, engineVars
<1>2. worker'[r] = how /\ \A q \in Runs : q # r => worker'[q] = worker[q]
  BY DEF WorkerDies, CacheInv, PlaceInv, TypeOK
<1>3. how \notin {"submitted"} \cup InSession \cup Finished
  BY DEF Crashed, InSession, Finished
<1>4. CacheFollowsTask
  BY DEF CacheInv
<1> QED BY <1>1, <1>2, <1>3, <1>4 DEF CacheFollowsTask, HasEntry

\* Only runs without a worker are started or resumed.
LEMMA EnvironmentCache ==
    ASSUME CacheInv, Environment
    PROVE  CacheFollowsTask'
<1> USE ConstantsAssumption DEF CacheInv, PlaceInv, OnePlace, Tokens, CacheFollowsTask,
        HasEntry, TypeOK, engineVars
<1>1. CASE Drain
  BY <1>1 DEF Drain
<1>2. CASE Crash
  BY <1>2 DEF Crash, GoDown, Finished, InSession
<1>3. CASE Restart
  BY <1>3 DEF Restart
<1>a. ASSUME NEW r \in Runs, verdict[r] # "live" PROVE worker[r] = "none" /\ cur # r
  BY <1>a
<1>b. CacheFollowsTask
  OBVIOUS
<1>4. ASSUME NEW r \in Runs, StartJob(r) PROVE CacheFollowsTask'
  <2>1. verdict[r] # "live" /\ keys' = keys /\ worker' = worker /\ cur' = cur /\ pc' = pc
    BY <1>4 DEF StartJob
  <2>2. \A q \in Runs : q # r => meta'[q] = meta[q]
    BY <1>4 DEF StartJob
  <2> HIDE DEF CacheInv, PlaceInv, OnePlace, Tokens, CacheFollowsTask, HasEntry, TypeOK
  <2> QED BY <1>a, <1>b, <2>1, <2>2, CacheFrame DEF Finished, InSession
<1>5. ASSUME NEW r \in Runs, Resume(r) PROVE CacheFollowsTask'
  <2>1. verdict[r] # "live" /\ keys' = keys /\ worker' = worker /\ cur' = cur /\ pc' = pc
    BY <1>5 DEF Resume
  <2>2. \A q \in Runs : q # r => meta'[q] = meta[q]
    BY <1>5 DEF Resume
  <2> HIDE DEF CacheInv, PlaceInv, OnePlace, Tokens, CacheFollowsTask, HasEntry, TypeOK
  <2> QED BY <1>a, <1>b, <2>1, <2>2, CacheFrame DEF Finished, InSession
<1>6. ASSUME NEW r \in Runs, TimePasses(r) PROVE CacheFollowsTask'
  BY <1>6 DEF TimePasses
<1>7. ASSUME NEW r \in Runs, NEW how \in Crashed, WorkerDies(r, how) PROVE CacheFollowsTask'
  BY <1>7, DyingWorkerCache
<1> HIDE DEF CacheInv, PlaceInv, OnePlace, Tokens, CacheFollowsTask, HasEntry, TypeOK
<1> QED BY <1>1, <1>2, <1>3, <1>4, <1>5, <1>6, <1>7 DEF Environment

\* The hot cache follows the task: no worker and no reconciliation ever
\* looks up an entry that is not there, whatever crashes and resumes occur.
THEOREM CacheAlwaysFollows == Spec => []CacheFollowsTask
<1>1. Init => CacheFollowsTask
  BY DEF Init, CacheFollowsTask, Finished, InSession
<1>2. CacheInv /\ [Next]_vars => CacheFollowsTask'
  <2> SUFFICES ASSUME CacheInv, [Next]_vars PROVE CacheFollowsTask'
    OBVIOUS
  <2>1. CASE Next
    BY <2>1, EngineCache, WorkerCache, EnvironmentCache DEF Next
  <2>2. CASE UNCHANGED vars
    BY <2>2 DEF CacheInv, CacheFollowsTask, HasEntry, vars
  <2> QED BY <2>1, <2>2
<1> QED BY <1>1, <1>2, PlaceInvariant, PTL DEF Spec, CacheInv

\* A run that a worker or the engine thread has is live, and has one holder.
LEMMA HeldIsLive ==
    ASSUME PlaceInv, NEW r \in Runs
    PROVE  /\ worker[r] # "none" => verdict[r] = "live" /\ cur # r /\ r \notin queued
           /\ cur = r => verdict[r] = "live" /\ worker[r] = "none" /\ r \notin queued
<1>1. Tokens(r) = IF verdict[r] = "live" THEN 1 ELSE 0
  BY DEF PlaceInv, OnePlace
<1> QED BY <1>1 DEF Tokens

(***************************************************************************)
(* The retry budget.  A marker that outlives its run is harmless because   *)
(* a resume starts the count again, and a run is admitted without markers. *)
(***************************************************************************)
RetryOf(r) ==
    /\ manifest[r].retry =< RetryLimit
    /\ "RETRY" \in markers[r] /\ verdict[r] = "live" /\ worker[r] \notin {"counted", "dead"} =>
          manifest[r].retry < RetryLimit
    /\ "RETRY" \in markers[r] => 0 < RetryLimit
    /\ verdict[r] = "new" => markers[r] = {}

\* A step that writes no marker, adds nothing to the count and ends no death
\* leaves the budget of a run as it was.
LEMMA RetryFrame ==
    ASSUME TypeOK, NEW q \in Runs, RetryOf(q),
           manifest'[q].retry \in {manifest[q].retry, 0}, markers'[q] \subseteq markers[q],
           verdict'[q] \in {verdict[q], "SUCCESS", "FAILED", "lost"},
           verdict'[q] = "live" => worker'[q] = worker[q] \/ worker[q] \notin {"counted", "dead"}
    PROVE  RetryOf(q)'
<1>1. manifest[q].retry \in Nat /\ RetryLimit \in Nat
  BY ConstantsAssumption DEF TypeOK, ManifestType
<1>2. manifest'[q].retry =< manifest[q].retry
  BY <1>1
<1>3. manifest'[q].retry \in Nat
  BY <1>1
<1> QED BY <1>1, <1>2, <1>3 DEF RetryOf

\* An outcome counts nothing, and lets a run retry only below the limit.
LEMMA ConcludeRetry ==
    ASSUME PlaceInv, \A q \in Runs : RetryOf(q), NEW r \in Runs, Conclude(r)
    PROVE  \A q \in Runs : RetryOf(q)'
<1> TAKE q \in Runs
<1>0. /\ TypeOK /\ manifest \in [Runs -> ManifestType] /\ manifest[r] \in ManifestType
      /\ manifest[q].retry \in Nat /\ RetryLimit \in Nat
  BY ConstantsAssumption DEF PlaceInv, TypeOK, ManifestType
<1>1. ASSUME NEW results, results \subseteq Finished, Reap(r, results), UNCHANGED verdict,
             manifest'[q].retry = manifest[q].retry, markers'[q] \subseteq markers[q]
      PROVE  RetryOf(q)'
  <2>1. worker'[q] = worker[q] \/ worker[q] \in Finished
    BY <1>0, <1>1 DEF Reap, TypeOK
  <2> QED BY <1>0, <1>1, <2>1, RetryFrame DEF Finished
<1>2. CASE SuccessOutcome(r)
  <2>1. manifest'[q].retry = manifest[q].retry
    BY <1>0, <1>2 DEF SuccessOutcome, ManifestType
  <2> QED BY <1>1, <1>2, <2>1 DEF SuccessOutcome, Resolve, Finished
<1>3. CASE ProgressOutcome(r)
  <2>1. manifest'[q].retry = manifest[q].retry
    BY <1>0, <1>3 DEF ProgressOutcome, ManifestType
  <2> QED BY <1>1, <1>3, <2>1 DEF ProgressOutcome, Resolve, Finished
<1>4. CASE ReconcileError(r)
  <2>1. /\ UNCHANGED <<manifest, markers>> /\ verdict' = [verdict EXCEPT ![r] = "lost"]
        /\ worker' = [worker EXCEPT ![r] = "none"]
    BY <1>4 DEF ReconcileError, Dropped, Reap
  <2>2. verdict'[q] \in {verdict[q], "lost"} /\ (q # r => worker'[q] = worker[q])
        /\ (q = r => verdict'[q] = "lost")
    BY <1>0, <2>1 DEF TypeOK
  <2> QED BY <1>0, <2>1, <2>2, RetryFrame
<1>5. ASSUME NEW results, results \subseteq Finished, Reap(r, results), FailedOutcome(r)
      PROVE  RetryOf(q)'
  <2>1. manifest'[q].retry = manifest[q].retry
    BY <1>0, <1>5 DEF FailedOutcome, ManifestType
  <2> QED BY <1>1, <1>5, <2>1 DEF FailedOutcome, Resolve
<1>6. ASSUME NEW late \in BOOLEAN, RetryOutcome(r, late) PROVE RetryOf(q)'
  <2>1. manifest'[q].retry = manifest[q].retry
    BY <1>0, <1>6 DEF RetryOutcome, ManifestType
  <2>2. CASE q # r
    <3>1. markers'[q] = markers[q]
      BY <1>0, <1>6, <2>2 DEF RetryOutcome, TypeOK
    <3> QED BY <1>1, <1>6, <2>1, <3>1 DEF RetryOutcome, Resolve, Finished
  <2>3. CASE q = r
    <3>1. manifest[q].retry < RetryLimit /\ verdict' = verdict /\ verdict[q] = "live"
      BY <1>6, <2>3, HeldIsLive DEF RetryOutcome, Retryable, Resolve, Reap
    <3> QED BY <1>0, <2>1, <3>1 DEF RetryOf
  <2> QED BY <2>2, <2>3
<1>7. ASSUME NEW svc \in Services, BlockedOutcome(r, svc) PROVE RetryOf(q)'
  <2>1. manifest'[q].retry = manifest[q].retry
    BY <1>0, <1>7 DEF BlockedOutcome, ManifestType
  <2>2. CASE q # r
    <3>1. markers'[q] = markers[q]
      BY <1>0, <1>7, <2>2 DEF BlockedOutcome, TypeOK
    <3> QED BY <1>1, <1>7, <2>1, <3>1 DEF BlockedOutcome, Resolve, Finished
  <2>3. CASE q = r
    <3>1. markers'[q] = {"BLOCKED"} /\ verdict' = verdict /\ verdict[q] = "live"
      BY <1>0, <1>7, <2>3, HeldIsLive DEF BlockedOutcome, Resolve, Reap, TypeOK
    <3> QED BY <2>1, <3>1 DEF RetryOf
  <2> QED BY <2>2, <2>3
<1>8. ASSUME NEW late \in BOOLEAN, UnrecordedError(r, late) PROVE RetryOf(q)'
  <2>1. /\ UNCHANGED manifest /\ verdict' = [verdict EXCEPT ![r] = "lost"]
        /\ worker' = [worker EXCEPT ![r] = "none"]
    BY <1>8 DEF UnrecordedError, Dropped, Reap
  <2>2. CASE q # r
    <3>1. verdict'[q] = verdict[q] /\ worker'[q] = worker[q] /\ markers'[q] = markers[q]
      BY <1>0, <1>8, <2>1, <2>2 DEF UnrecordedError, TypeOK
    <3> QED BY <1>0, <2>1, <3>1, RetryFrame
  <2>3. CASE q = r
    <3>1. verdict'[q] = "lost"
      BY <1>0, <2>1, <2>3 DEF TypeOK
    <3>2. "RETRY" \in markers'[q] => manifest[q].retry < RetryLimit
      BY <1>0, <1>8, <2>3 DEF UnrecordedError, Retryable, TypeOK
    <3> QED BY <1>0, <2>1, <3>1, <3>2 DEF RetryOf
  <2> QED BY <2>2, <2>3
<1> QED BY <1>2, <1>3, <1>4, <1>5, <1>6, <1>7, <1>8
        DEF Conclude, FatalError, RetryRefused, Finished

\* A worker counts a retry only where the marker stands for one.
LEMMA WorkerRetry ==
    ASSUME PlaceInv, \A q \in Runs : RetryOf(q), NEW r \in Runs, Worker(r)
    PROVE  \A q \in Runs : RetryOf(q)'
<1> TAKE q \in Runs
<1>0. /\ TypeOK /\ manifest \in [Runs -> ManifestType] /\ manifest[r] \in ManifestType
      /\ manifest[r].retry \in Nat /\ RetryLimit \in Nat
  BY ConstantsAssumption DEF PlaceInv, TypeOK, ManifestType
<1>1. UNCHANGED verdict
  BY DEF Worker, WorkerStart, CountRetry, RemoveRetryMarker, BeginStage, SavePayload,
     WorkerSucceeds, WorkerErrors, WorkerHasNoConfig, workerUnchanged
<1>2. CASE q # r
  <2>1. manifest'[q] = manifest[q] /\ markers'[q] = markers[q] /\ worker'[q] = worker[q]
    BY <1>0, <1>2 DEF Worker, WorkerStart, CountRetry, RemoveRetryMarker, BeginStage, SavePayload,
       WorkerSucceeds, WorkerErrors, WorkerHasNoConfig, TypeOK
  <2> QED BY <1>0, <1>1, <2>1, RetryFrame
<1>3. CASE q = r
  <2>1. CASE WorkerStart(r)
    <3>1. meta[r].step \in StepsToLast
      BY <1>0 DEF TypeOK, MetaType
    <3>2. LoadManifest(r, meta[r].step).retry \in {manifest[r].retry, 0}
      BY <1>0, <3>1 DEF LoadManifest, Skeleton, NoManifest
    <3>3. /\ manifest'[r] = LoadManifest(r, meta[r].step) /\ worker[r] = "submitted"
          /\ UNCHANGED markers
      BY <1>0, <2>1 DEF WorkerStart
    <3> QED BY <1>0, <1>1, <1>3, <3>2, <3>3, RetryFrame
  <2>2. CASE CountRetry(r)
    <3>1. "RETRY" \in markers[r] /\ worker[r] = "entering" /\ UNCHANGED markers
      BY <2>2 DEF CountRetry
    <3>2. verdict[r] = "live"
      BY <3>1, HeldIsLive
    <3>3. manifest'[r].retry = manifest[r].retry + 1 /\ worker'[r] = "counted"
      BY <1>0, <2>2 DEF CountRetry, ManifestType, TypeOK
    <3>4. manifest[r].retry < RetryLimit /\ 0 < RetryLimit
      BY <3>1, <3>2 DEF RetryOf
    <3> QED BY <1>0, <1>1, <1>3, <3>2, <3>3, <3>4 DEF RetryOf
  <2>3. CASE RemoveRetryMarker(r) \/ BeginStage(r)
    <3>1. /\ "RETRY" \notin markers'[r] /\ UNCHANGED manifest /\ markers'[r] \subseteq markers[r]
          /\ worker[r] # "none"
      BY <1>0, <2>3 DEF RemoveRetryMarker, BeginStage, TypeOK
    <3>2. verdict[r] = "live"
      BY <3>1, HeldIsLive
    <3> QED BY <1>1, <1>3, <3>1, <3>2 DEF RetryOf
  <2>4. CASE SavePayload(r)
    <3>1. manifest'[r].retry = manifest[r].retry /\ worker[r] = "running" /\ UNCHANGED markers
      BY <1>0, <2>4 DEF SavePayload, ManifestType
    <3> QED BY <1>0, <1>1, <1>3, <3>1, RetryFrame
  <2>5. CASE WorkerSucceeds(r) \/ WorkerHasNoConfig(r)
    <3>1. UNCHANGED <<manifest, markers>> /\ worker[r] \in {"running", "saved"}
      BY <2>5 DEF WorkerSucceeds, WorkerHasNoConfig
    <3> QED BY <1>0, <1>1, <1>3, <3>1, RetryFrame
  <2>6. ASSUME NEW kind \in ExceptionKinds, NEW recorded \in BOOLEAN,
               WorkerErrors(r, kind, recorded)
        PROVE  RetryOf(q)'
    <3>1. manifest'[r].retry = manifest[r].retry /\ worker[r] \in {"running", "saved"}
          /\ UNCHANGED markers
      BY <1>0, <2>6 DEF WorkerErrors, ManifestType
    <3> QED BY <1>0, <1>1, <1>3, <3>1, RetryFrame
  <2> QED BY <2>1, <2>2, <2>3, <2>4, <2>5, <2>6 DEF Worker
<1> QED BY <1>2, <1>3

\* The other steps count nothing and write no marker.
LEMMA OtherRetry ==
    ASSUME PlaceInv, \A q \in Runs : RetryOf(q), Engine \/ Environment
    PROVE  \A q \in Runs : RetryOf(q)'
<1> TAKE q \in Runs
<1>0. /\ TypeOK /\ manifest \in [Runs -> ManifestType] /\ manifest[q].retry \in Nat
      /\ RetryLimit \in Nat
  BY ConstantsAssumption DEF PlaceInv, TypeOK, ManifestType
<1>1. ASSUME UNCHANGED <<manifest, markers, verdict, worker>> PROVE RetryOf(q)'
  BY <1>0, <1>1, RetryFrame
<1>2. CASE Apply \/ ApplyFailed
  <2>1. UNCHANGED <<manifest, markers, worker>>
        /\ verdict'[q] \in {verdict[q], "SUCCESS", "FAILED"}
    BY <1>0, <1>2 DEF Apply, ApplyFailed, TypeOK, diskVars
  <2> QED BY <1>0, <2>1, RetryFrame
<1>3. CASE dispatch_task
  <2>1. cur \in Runs /\ worker' = [worker EXCEPT ![cur] = "submitted"]
        /\ UNCHANGED <<manifest, markers, verdict>>
    BY <1>0, <1>3 DEF dispatch_task, TypeOK, diskVars
  <2>2. worker[cur] = "none"
    BY <2>1, HeldIsLive
  <2>3. worker'[q] = worker[q] \/ worker[q] = "none"
    BY <1>0, <2>1, <2>2 DEF TypeOK
  <2> QED BY <1>0, <2>1, <2>3, RetryFrame
<1>4. ASSUME NEW r \in Runs, NEW ext \in {"sync", "done", "fail"}, ProcessSignal(r, ext)
      PROVE  RetryOf(q)'
  <2>1. UNCHANGED <<verdict, worker>> /\ markers'[q] \subseteq markers[q]
        /\ manifest'[q].retry \in {manifest[q].retry, 0}
    BY <1>0, <1>4 DEF ProcessSignal, TypeOK, diskVars, NoManifest
  <2> QED BY <1>0, <2>1, RetryFrame
<1>5. CASE DrainExit
  <2>1. UNCHANGED <<manifest, markers>> /\ verdict'[q] = verdict[q]
        /\ worker'[q] = "none" /\ worker[q] = "none"
    BY <1>0, <1>5 DEF DrainExit, Drained, GoDown, TypeOK, diskVars
  <2> QED BY <1>0, <2>1, RetryFrame
<1>6. CASE Crash
  <2>1. UNCHANGED <<manifest, markers>> /\ worker'[q] = "none"
        /\ verdict'[q] = IF worker[q] # "none" \/ cur = q THEN "lost" ELSE verdict[q]
    BY <1>0, <1>6 DEF Crash, GoDown, diskVars
  <2> QED BY <1>0, <2>1, RetryFrame
<1>7. ASSUME NEW r \in Runs, StartJob(r) PROVE RetryOf(q)'
  <2>1. UNCHANGED <<manifest, markers, worker>> /\ verdict' = [verdict EXCEPT ![r] = "live"]
        /\ verdict[r] = "new"
    BY <1>7 DEF StartJob
  <2>2. CASE q = r
    BY <1>0, <2>1, <2>2 DEF RetryOf, TypeOK
  <2>3. CASE q # r
    BY <1>0, <2>1, <2>3, RetryFrame DEF TypeOK
  <2> QED BY <2>2, <2>3
<1>8. ASSUME NEW r \in Runs, Resume(r) PROVE RetryOf(q)'
  <2>1. UNCHANGED <<markers, worker>> /\ verdict' = [verdict EXCEPT ![r] = "live"]
    BY <1>8 DEF Resume
  <2>2. CASE q = r
    <3>1. manifest'[q].retry = 0 /\ verdict'[q] = "live"
      BY <1>0, <1>8, <2>1, <2>2 DEF Resume, TypeOK, ManifestType
    <3> QED BY <1>0, <2>1, <3>1 DEF RetryOf
  <2>3. CASE q # r
    <3>1. verdict'[q] = verdict[q] /\ manifest'[q] = manifest[q]
      BY <1>0, <1>8, <2>3 DEF Resume, TypeOK
    <3> QED BY <1>0, <2>1, <3>1, RetryFrame
  <2> QED BY <2>2, <2>3
<1>9. ASSUME NEW r \in Runs, NEW how \in Crashed, WorkerDies(r, how) PROVE RetryOf(q)'
  <2>1. /\ UNCHANGED <<manifest, markers, verdict>> /\ worker' = [worker EXCEPT ![r] = how]
        /\ worker[r] = "counted" => how = "dead"
    BY <1>9 DEF WorkerDies, workerUnchanged, InSession
  <2>2. CASE worker[q] = "counted" /\ q = r
    BY <1>0, <2>1, <2>2 DEF RetryOf, TypeOK
  <2>3. CASE worker[q] # "counted" /\ q = r
    <3>1. worker[q] # "dead"
      BY <1>9, <2>3 DEF WorkerDies, InSession
    <3> QED BY <1>0, <2>1, <2>3, <3>1, RetryFrame
  <2>4. CASE q # r
    <3>1. worker'[q] = worker[q]
      BY <1>0, <2>1, <2>4 DEF TypeOK
    <3> QED BY <1>0, <2>1, <3>1, RetryFrame
  <2> QED BY <2>2, <2>3, <2>4
<1>10. CASE Engine
  BY <1>1, <1>2, <1>3, <1>4, <1>5, <1>10, ConcludeRetry
     DEF Engine, EndCommands, StartReap, EndReap, EndScan, NotReady, Pop, PopByKey, diskVars
<1>11. CASE Environment
  BY <1>1, <1>6, <1>7, <1>8, <1>9, <1>11
     DEF Environment, Drain, Restart, TimePasses, diskVars
<1> QED BY <1>10, <1>11

\* A run retries at most RetryLimit times between two resumes, however its
\* retries are spread over steps and workers, and wherever between the count
\* and the removal of the marker a worker or the engine dies.
THEOREM RetriesBounded == Spec => []RetryBudget
<1> DEFINE Inv == \A q \in Runs : RetryOf(q)
<1>1. Init => Inv
  BY ConstantsAssumption DEF Init, RetryOf, NoManifest
<1>2. PlaceInv /\ Inv /\ [Next]_vars => Inv'
  <2> SUFFICES ASSUME PlaceInv, Inv, [Next]_vars PROVE \A q \in Runs : RetryOf(q)'
    OBVIOUS
  <2>1. CASE Next
    BY <2>1, OtherRetry, WorkerRetry DEF Next
  <2>2. CASE UNCHANGED vars
    BY <2>2 DEF vars, RetryOf
  <2> QED BY <2>1, <2>2
<1>3. Inv => RetryBudget
  BY DEF RetryOf, RetryBudget
<1> QED BY <1>1, <1>2, <1>3, PlaceInvariant, PTL DEF Spec

(***************************************************************************)
(* The .done files.  While one is there its run is a success, or a success *)
(* that was resumed and still waits in the queue: signals are handled      *)
(* before anything is reaped or dispatched.                                *)
(***************************************************************************)
BeforeReap == {"commands", "signals", "down"}

DoneFile(r) ==
    <<r, "done">> \in signals =>
        \/ verdict[r] = "SUCCESS"
        \/ verdict[r] = "live" /\ r \in queued /\ pc \in BeforeReap

SignalInv == PlaceInv /\ \A r \in Runs : DoneFile(r)

\* Nobody holds a run whose .done file is there.
LEMMA DoneFileIdle ==
    ASSUME SignalInv, NEW r \in Runs, <<r, "done">> \in signals
    PROVE  worker[r] = "none" /\ cur # r
  BY HeldIsLive DEF SignalInv, DoneFile

\* A step that writes no .done file, takes no message and stays before the
\* reaping keeps what is known of the files.
LEMMA DoneFileFrame ==
    ASSUME NEW q \in Runs, DoneFile(q), <<q, "done">> \in signals' => <<q, "done">> \in signals,
           verdict'[q] = verdict[q], q \in queued => q \in queued',
           pc \in BeforeReap => pc' \in BeforeReap
    PROVE  DoneFile(q)'
  BY DEF DoneFile

\* Every step keeps what is known of the .done files.
LEMMA DoneFileStep ==
    ASSUME SignalInv, [Next]_vars
    PROVE  \A q \in Runs : DoneFile(q)'
<1> TAKE q \in Runs
<1>0. PlaceInv /\ TypeOK /\ DoneFile(q)
  BY DEF SignalInv, PlaceInv
<1> USE DEF BeforeReap
<1>1. CASE UNCHANGED <<signals, verdict, queued, pc>>
  BY <1>0, <1>1, DoneFileFrame
<1>2. CASE EndCommands \/ EndReap \/ EndScan \/ DrainExit \/ Restart
  <2>1. verdict'[q] = verdict[q]
    BY <1>0, <1>2 DEF EndCommands, EndReap, EndScan, DrainExit, GoDown, Restart, TypeOK
  <2> QED BY <1>0, <1>2, <2>1, DoneFileFrame
          DEF EndCommands, EndReap, EndScan, DrainExit, GoDown, Restart
<1>3. CASE StartReap
  BY <1>3 DEF StartReap, DoneFile
<1>4. CASE Apply
  <2>1. cur \in Runs /\ verdict[cur] = "live" /\ pc = "apply"
    BY <1>0, <1>4, HeldIsLive DEF Apply, TypeOK
  <2>2. CASE dir.action = "success"
    <3>1. signals' = signals \cup {<<cur, "done">>} /\ verdict' = [verdict EXCEPT ![cur] = "SUCCESS"]
      BY <1>4, <2>2 DEF Apply
    <3> QED BY <1>0, <2>1, <3>1 DEF DoneFile, TypeOK
  <2>3. CASE dir.action # "success"
    <3>1. signals' = signals \cup {<<cur, "sync">>} /\ verdict' = verdict
          /\ queued' = queued \cup {cur}
      BY <1>4, <2>3 DEF Apply
    <3> QED BY <1>0, <2>1, <3>1, DoneFileFrame
  <2> QED BY <2>2, <2>3
<1>5. CASE ApplyFailed
  <2>1. /\ cur \in Runs /\ verdict[cur] = "live" /\ pc = "apply"
        /\ signals' = signals \cup {<<cur, "fail">>} /\ queued' = queued
        /\ verdict' = [verdict EXCEPT ![cur] = "FAILED"]
    BY <1>0, <1>5, HeldIsLive DEF ApplyFailed, TypeOK
  <2> QED BY <1>0, <2>1 DEF DoneFile, TypeOK
<1>6. CASE dispatch_task
  BY <1>0, <1>6, DoneFileFrame DEF dispatch_task
<1>7. ASSUME NEW r \in Runs, NEW ext \in {"sync", "done", "fail"}, ProcessSignal(r, ext)
      PROVE  DoneFile(q)'
  BY <1>0, <1>7, DoneFileFrame DEF ProcessSignal, engineVars
<1>8. ASSUME NEW r \in Runs, Conclude(r) PROVE DoneFile(q)'
  <2>1. pc = "reap" /\ UNCHANGED <<signals, queued>>
        /\ (verdict' = verdict \/ verdict' = [verdict EXCEPT ![r] = "lost"]) /\ worker[r] # "none"
    BY <1>8 DEF Conclude, SuccessOutcome, ProgressOutcome, ReconcileError, FatalError,
       FailedOutcome, RetryOutcome, RetryRefused, BlockedOutcome, UnrecordedError, Dropped,
       Resolve, Reap, Crashed
  <2>2. verdict[r] = "live"
    BY <1>0, <2>1, HeldIsLive
  <2> QED BY <1>0, <2>1, <2>2 DEF DoneFile, TypeOK
<1>9. ASSUME NEW r \in Runs, NEW diskOk \in BOOLEAN, NEW svcOk \in BOOLEAN,
             NotReady(r, diskOk, svcOk) \/ PopByKey(r, diskOk, svcOk)
      PROVE  DoneFile(q)'
  <2>1. pc = "scan" /\ UNCHANGED <<signals, verdict>>
    BY <1>9 DEF NotReady, PopByKey, Visited
  <2> QED BY <1>0, <2>1 DEF DoneFile
<1>10. ASSUME NEW r \in Runs, Worker(r) PROVE DoneFile(q)'
  BY <1>1, <1>10 DEF Worker, WorkerStart, CountRetry, RemoveRetryMarker, BeginStage, SavePayload,
     WorkerSucceeds, WorkerErrors, WorkerHasNoConfig, workerUnchanged, engineVars
<1>11. CASE Crash
  <2>1. UNCHANGED <<signals, queued>> /\ pc' = "down"
        /\ verdict'[q] = IF worker[q] # "none" \/ cur = q THEN "lost" ELSE verdict[q]
    BY <1>11 DEF Crash, GoDown
  <2>2. <<q, "done">> \in signals => worker[q] = "none" /\ cur # q
    BY DoneFileIdle
  <2> QED BY <1>0, <2>1, <2>2 DEF DoneFile
<1>12. ASSUME NEW r \in Runs, StartJob(r) PROVE DoneFile(q)'
  <2>1. verdict[r] = "new" /\ verdict' = [verdict EXCEPT ![r] = "live"]
        /\ queued' = queued \cup {r} /\ UNCHANGED <<signals, pc>>
    BY <1>12 DEF StartJob, engineVars
  <2> QED BY <1>0, <2>1 DEF DoneFile, TypeOK
<1>13. ASSUME NEW r \in Runs, Resume(r) PROVE DoneFile(q)'
  <2>1. pc = "commands" /\ verdict' = [verdict EXCEPT ![r] = "live"]
        /\ queued' = queued \cup {r} /\ signals' = signals \cup {<<r, "sync">>} /\ pc' = pc
    BY <1>13 DEF Resume, engineVars
  <2> QED BY <1>0, <2>1 DEF DoneFile, TypeOK
<1>14. CASE Drain \/ \E r \in Runs : TimePasses(r) \/ \E how \in Crashed : WorkerDies(r, how)
  BY <1>1, <1>14 DEF Drain, TimePasses, WorkerDies, workerUnchanged, engineVars
<1>15. CASE Engine
  BY <1>2, <1>3, <1>4, <1>5, <1>6, <1>7, <1>8, <1>9, <1>15 DEF Engine, Pop
<1>16. CASE Environment
  BY <1>2, <1>11, <1>12, <1>13, <1>14, <1>16 DEF Environment
<1>17. CASE UNCHANGED vars
  BY <1>1, <1>17 DEF vars
<1> QED BY <1>10, <1>15, <1>16, <1>17 DEF Next

LEMMA SignalInvariant == Spec => []SignalInv
<1>1. Init /\ PlaceInv => SignalInv
  BY DEF Init, SignalInv, DoneFile
<1>2. SignalInv /\ PlaceInv' /\ [Next]_vars => SignalInv'
  BY DoneFileStep DEF SignalInv
<1> QED BY <1>1, <1>2, PlaceInvariant, PTL DEF Spec

(***************************************************************************)
(* The order of the steps.  The inductive invariant adds to StepOrder what *)
(* the directive in hand carries, that a worker in its session has a       *)
(* manifest to write to, and that a worker that has saved its payload has  *)
(* a workspace that nobody deletes.                                        *)
(***************************************************************************)
RunOrder(r) ==
    /\ folder[r] # "ACTIVE" => manifest[r].done = {}
    /\ ~ manifest[r].there => manifest[r].done = {}
    /\ verdict[r] = "new" => ~ manifest[r].there
    /\ worker[r] \in InSession \cup Finished => manifest[r].there
    /\ worker[r] \in {"saved", "ok"} =>
          folder[r] = "ACTIVE" /\ meta[r].step \in manifest[r].done
    /\ folder[r] = "ACTIVE" =>
          /\ DoneBefore(r, meta[r].step)
          /\ manifest[r].there => DoneBefore(r, manifest[r].step)

DirOrder ==
    pc = "apply" =>
        /\ dir.step # 0 => DoneBefore(cur, dir.step)
        /\ dir.action = "success" => get_step_ids \subseteq manifest[cur].done

OrderInv == SignalInv /\ (\A r \in Runs : RunOrder(r)) /\ DirOrder

\* A step that leaves folder, step and manifest of a run alone keeps its part
\* of the invariant.
LEMMA RunFrame ==
    ASSUME NEW q \in Runs, RunOrder(q), meta'[q].step = meta[q].step,
           manifest'[q] = manifest[q], folder'[q] = folder[q],
           worker'[q] \in {worker[q], "none", "submitted", "dead", "bootstrap"},
           verdict'[q] = "new" => verdict[q] = "new"
    PROVE  RunOrder(q)'
<1>1. /\ worker'[q] \in InSession \cup Finished => worker[q] \in InSession \cup Finished
      /\ worker'[q] \in {"saved", "ok"} => worker[q] \in {"saved", "ok"}
  BY DEF InSession, Finished
<1> QED BY <1>1 DEF RunOrder, DoneBefore

\* The directive in hand is not affected while the engine thread is elsewhere.
LEMMA DirFrame ==
    ASSUME DirOrder, pc' # "apply" \/ UNCHANGED <<pc, dir, cur, manifest>>
    PROVE  DirOrder'
  BY DEF DirOrder, DoneBefore

\* The step after a completed one may be entered next.
LEMMA SuccessorOrder ==
    ASSUME NEW r \in Runs, NEW s \in StepsToLast, DoneBefore(r, s), s \in manifest[r].done
    PROVE  get_next_step_id(s) # 0 => DoneBefore(r, get_next_step_id(s))
<1> SUFFICES ASSUME get_next_step_id(s) # 0, NEW q \in get_step_ids, q < get_next_step_id(s)
             PROVE  q \in manifest[r].done
  BY DEF DoneBefore
<1>1. get_next_step_id(s) = s + 1
  BY DEF get_next_step_id
<1>2. q \in Int /\ s \in Int
  BY ConstantsAssumption DEF get_step_ids
<1>3. q < s \/ q = s
  BY <1>1, <1>2
<1> QED BY <1>3 DEF DoneBefore

\* An outcome that moves the run within what is done keeps the order.
LEMMA ResolveOrder ==
    ASSUME OrderInv, NEW r \in Runs, NEW d \in DirType, NEW results,
           results \subseteq Finished, Reap(r, results), Resolve(r, d),
           \A q \in Runs : q # r => manifest'[q] = manifest[q],
           manifest'[r].done = manifest[r].done, manifest'[r].there = manifest[r].there,
           folder[r] = "ACTIVE" => manifest'[r].step = manifest[r].step \/ DoneBefore(r, manifest'[r].step),
           d.step # 0 => DoneBefore(r, d.step),
           d.action = "success" => get_step_ids \subseteq manifest[r].done
    PROVE  (\A q \in Runs : RunOrder(q))' /\ DirOrder'
<1> USE DEF OrderInv, SignalInv, PlaceInv, TypeOK
<1>1. ASSUME NEW q \in Runs, q # r PROVE RunOrder(q)'
  BY <1>1, RunFrame DEF Reap, Resolve
<1>2. RunOrder(r)'
  <2>1. RunOrder(r) /\ UNCHANGED <<meta, verdict, folder>> /\ worker'[r] = "none"
    BY DEF Reap, Resolve
  <2>3. worker'[r] \notin InSession \cup Finished /\ worker'[r] \notin {"saved", "ok"}
    BY <2>1 DEF InSession, Finished
  <2>4. /\ folder'[r] # "ACTIVE" => manifest'[r].done = {}
        /\ ~ manifest'[r].there => manifest'[r].done = {}
        /\ verdict'[r] = "new" => ~ manifest'[r].there
    BY <2>1 DEF RunOrder
  <2>5. folder'[r] = "ACTIVE" =>
           \A q \in get_step_ids : q < meta'[r].step => q \in manifest'[r].done
    BY <2>1 DEF RunOrder, DoneBefore
  <2>6. folder'[r] = "ACTIVE" /\ manifest'[r].there =>
           \A q \in get_step_ids : q < manifest'[r].step => q \in manifest'[r].done
    BY <2>1 DEF RunOrder, DoneBefore
  <2> QED BY <2>3, <2>4, <2>5, <2>6 DEF RunOrder, DoneBefore
<1>3. DirOrder'
  <2>1. \A s : DoneBefore(r, s)' <=> DoneBefore(r, s)
    BY DEF DoneBefore
  <2>2. dir' = d /\ cur' = r
    BY DEF Resolve
  <2> QED BY <2>1, <2>2 DEF DirOrder
<1> QED BY <1>1, <1>2, <1>3

\* Every outcome keeps the order of the steps.
LEMMA ConcludeOrder ==
    ASSUME OrderInv, NEW r \in Runs, Conclude(r)
    PROVE  (\A q \in Runs : RunOrder(q))' /\ DirOrder'
<1> DEFINE Goal == (\A q \in Runs : RunOrder(q))' /\ DirOrder'
<1>0. /\ manifest[r] \in ManifestType /\ meta[r] \in MetaType
      /\ manifest \in [Runs -> ManifestType] /\ TypeOK /\ RunOrder(r) /\ PlaceInv
  BY DEF OrderInv, SignalInv, PlaceInv, TypeOK
<1>d. NoDir \in DirType /\ NoDir.step = 0 /\ NoDir.action = "none"
  BY DEF NoDir, DirType, Status, LiveStatus, Actions
<1>s. ASSUME NEW results, results \subseteq Finished, Reap(r, results),
             manifest' = [manifest EXCEPT ![r] = manifest'[r]],
             manifest'[r].done = manifest[r].done, manifest'[r].there = manifest[r].there,
             manifest'[r].step = manifest[r].step,
             NEW d \in DirType, d.step = 0, Resolve(r, d),
             d.action = "success" => get_step_ids \subseteq manifest[r].done
      PROVE  Goal
  <2>1. \A q \in Runs : q # r => manifest'[q] = manifest[q]
    BY <1>0, <1>s
  <2> QED BY <1>s, <2>1, ResolveOrder
<1>1. CASE SuccessOutcome(r)
  <2> DEFINE d == [NoDir EXCEPT !.action = "success", !.status = "SUCCESS"]
  <2>1. d \in DirType /\ d.step = 0
    BY <1>d DEF DirType, Status, Actions
  <2>2. get_step_ids \subseteq manifest[r].done
    BY <1>1 DEF SuccessOutcome, is_complete
  <2>3. Resolve(r, d) /\ Reap(r, {"ok"}) /\ {"ok"} \subseteq Finished
        /\ manifest' = [manifest EXCEPT ![r].status = "SUCCESS"]
    BY <1>1 DEF SuccessOutcome, Finished
  <2>4. /\ manifest' = [manifest EXCEPT ![r] = manifest'[r]]
        /\ manifest'[r].done = manifest[r].done /\ manifest'[r].there = manifest[r].there
        /\ manifest'[r].step = manifest[r].step
    BY <1>0, <2>3 DEF ManifestType
  <2> HIDE DEF d
  <2> QED BY <1>s, <2>1, <2>2, <2>3, <2>4
<1>l. ASSUME worker' = [worker EXCEPT ![r] = "none"], worker[r] # "none", pc = "reap",
             verdict' = [verdict EXCEPT ![r] = "lost"],
             UNCHANGED <<manifest, meta, folder, pc, cur, dir>>
      PROVE  Goal
  <2>1. ASSUME NEW q \in Runs PROVE RunOrder(q)'
    <3>1. /\ worker'[q] \in {worker[q], "none"} /\ (verdict'[q] = "new" => verdict[q] = "new")
          /\ RunOrder(q)
      BY <1>0, <1>l DEF TypeOK, OrderInv
    <3> QED BY <1>l, <3>1, RunFrame
  <2>2. DirOrder'
    BY <1>l, DirFrame DEF OrderInv
  <2> QED BY <2>1, <2>2
<1>2. CASE ReconcileError(r)
  BY <1>2, <1>l DEF ReconcileError, Dropped, Reap, Crashed
<1>3. ASSUME NEW results, results \subseteq Finished, Reap(r, results), FailedOutcome(r)
      PROVE  Goal
  <2> DEFINE d == [NoDir EXCEPT !.action = "failed"]
  <2>1. d \in DirType /\ d.step = 0 /\ d.action = "failed"
    BY <1>d DEF DirType, Actions
  <2>2. Resolve(r, d) /\ manifest' = [manifest EXCEPT ![r].status = "FAILED", ![r].err = TRUE]
    BY <1>3 DEF FailedOutcome
  <2>3. /\ manifest' = [manifest EXCEPT ![r] = manifest'[r]]
        /\ manifest'[r].done = manifest[r].done /\ manifest'[r].there = manifest[r].there
        /\ manifest'[r].step = manifest[r].step
    BY <1>0, <2>2 DEF ManifestType
  <2> HIDE DEF d
  <2> QED BY <1>3, <1>s, <2>1, <2>2, <2>3
<1>4. ASSUME NEW late \in BOOLEAN, RetryOutcome(r, late) PROVE Goal
  <2> DEFINE d == [NoDir EXCEPT !.action = "retry", !.status = "RETRY"]
  <2>1. d \in DirType /\ d.step = 0 /\ d.action = "retry"
    BY <1>d DEF DirType, Status, LiveStatus, Actions
  <2>2. Resolve(r, d) /\ Reap(r, {"transient"}) /\ {"transient"} \subseteq Finished
        /\ manifest' = [manifest EXCEPT ![r].status = "RETRY"]
    BY <1>4 DEF RetryOutcome, Finished
  <2>3. /\ manifest' = [manifest EXCEPT ![r] = manifest'[r]]
        /\ manifest'[r].done = manifest[r].done /\ manifest'[r].there = manifest[r].there
        /\ manifest'[r].step = manifest[r].step
    BY <1>0, <2>2 DEF ManifestType
  <2> HIDE DEF d
  <2> QED BY <1>s, <2>1, <2>2, <2>3
<1>5. ASSUME NEW svc \in Services, BlockedOutcome(r, svc) PROVE Goal
  <2> DEFINE d == [NoDir EXCEPT !.action = "blocked", !.status = "BLOCKED", !.blocked = svc]
  <2>1. d \in DirType /\ d.step = 0 /\ d.action = "blocked"
    BY <1>d DEF DirType, Status, LiveStatus, Actions
  <2>2. Resolve(r, d) /\ Reap(r, {"blocked"}) /\ {"blocked"} \subseteq Finished
        /\ manifest' = [manifest EXCEPT ![r].status = "BLOCKED"]
    BY <1>5 DEF BlockedOutcome, Finished
  <2>3. /\ manifest' = [manifest EXCEPT ![r] = manifest'[r]]
        /\ manifest'[r].done = manifest[r].done /\ manifest'[r].there = manifest[r].there
        /\ manifest'[r].step = manifest[r].step
    BY <1>0, <2>2 DEF ManifestType
  <2> HIDE DEF d
  <2> QED BY <1>s, <2>1, <2>2, <2>3
<1>6. CASE ProgressOutcome(r)
  <2> DEFINE next == get_next_step_id(meta[r].step)
             d    == [NoDir EXCEPT !.action = "progress", !.step = next]
  <2>1. /\ Reap(r, {"ok"}) /\ {"ok"} \subseteq Finished /\ next # 0 /\ Resolve(r, d)
        /\ manifest' = [manifest EXCEPT ![r].status = "WAITING", ![r].step = next]
    BY <1>6 DEF ProgressOutcome, Finished
  <2>2. meta[r].step \in StepsToLast /\ next \in StepsToLast
    BY <1>0, <2>1, NextStepIdType DEF MetaType
  <2>3. DoneBefore(r, meta[r].step) /\ meta[r].step \in manifest[r].done
    BY <1>0, <2>1 DEF RunOrder, Reap
  <2>4. DoneBefore(r, next)
    BY <2>1, <2>2, <2>3, SuccessorOrder
  <2> HIDE DEF next
  <2>5. d \in DirType /\ d.step = next /\ d.action = "progress"
    BY <1>d, <2>2 DEF DirType, Actions
  <2>6. /\ \A q \in Runs : q # r => manifest'[q] = manifest[q]
        /\ manifest'[r].done = manifest[r].done /\ manifest'[r].there = manifest[r].there
        /\ manifest'[r].step = next
    BY <1>0, <2>1 DEF ManifestType
  <2> HIDE DEF d
  <2> QED BY <2>1, <2>4, <2>5, <2>6, ResolveOrder
<1>7. ASSUME NEW late \in BOOLEAN, UnrecordedError(r, late) PROVE Goal
  BY <1>7, <1>l DEF UnrecordedError, Dropped, Reap
<1> QED BY <1>1, <1>2, <1>3, <1>4, <1>5, <1>6, <1>7
        DEF Conclude, FatalError, RetryRefused, Finished

\* The other steps of the engine thread keep the order of the steps.
LEMMA EngineOrder ==
    ASSUME OrderInv, Engine
    PROVE  (\A q \in Runs : RunOrder(q))' /\ DirOrder'
<1> DEFINE Goal == (\A q \in Runs : RunOrder(q))' /\ DirOrder'
<1>0. TypeOK /\ PlaceInv /\ DirOrder /\ \A q \in Runs : RunOrder(q)
  BY DEF OrderInv, SignalInv, PlaceInv
<1>1. ASSUME UNCHANGED <<manifest, folder, verdict>>, pc' # "apply",
             \A q \in Runs : /\ meta'[q].step = meta[q].step
                             /\ worker'[q] \in {worker[q], "none", "submitted"}
      PROVE  Goal
  BY <1>0, <1>1, RunFrame, DirFrame
<1>2. CASE Apply
  <2>1. /\ pc = "apply" /\ cur \in Runs /\ dir \in DirType /\ meta \in [Runs -> MetaType]
    BY <1>0, <1>2 DEF Apply, TypeOK
  <2>2. verdict[cur] = "live" /\ worker[cur] = "none"
    BY <1>0, <2>1, HeldIsLive
  <2>3. /\ UNCHANGED <<manifest, worker, folder>> /\ pc' = "reap"
        /\ meta' = [meta EXCEPT ![cur] = Overridden(meta[cur])]
    BY <1>2 DEF Apply, transition_state, diskVars
  <2>v. \A q \in Runs : verdict'[q] \in {verdict[q], "SUCCESS"}
    BY <1>0, <1>2, <2>1 DEF Apply, TypeOK
  <2>4. ASSUME NEW q \in Runs, q # cur PROVE RunOrder(q)'
    <3>1. meta'[q] = meta[q]
      BY <2>1, <2>3, <2>4
    <3>2. verdict'[q] = "new" => verdict[q] = "new"
      BY <2>v
    <3> QED BY <1>0, <2>3, <3>1, <3>2, RunFrame
  <2>5. ASSUME NEW q \in Runs, q = cur PROVE RunOrder(q)'
    <3>1. meta'[q].step = IF dir.step # 0 THEN dir.step ELSE meta[q].step
      BY <2>1, <2>3, <2>5 DEF Overridden
    <3>2. RunOrder(q)
      BY <1>0
    <3>3. folder[q] = "ACTIVE" => DoneBefore(q, meta'[q].step)
      BY <1>0, <2>1, <2>5, <3>1, <3>2 DEF DirOrder, RunOrder
    <3>4. verdict'[q] # "new" /\ worker'[q] = "none"
      BY <2>2, <2>3, <2>5, <2>v
    <3>5. worker'[q] \notin InSession \cup Finished /\ worker'[q] \notin {"saved", "ok"}
      BY <3>4 DEF InSession, Finished
    <3> QED BY <2>3, <3>2, <3>3, <3>4, <3>5 DEF RunOrder, DoneBefore
  <2>6. DirOrder'
    BY <2>3 DEF DirOrder
  <2> QED BY <2>4, <2>5, <2>6
<1>3. CASE ApplyFailed
  <2>1. /\ pc' = "reap" /\ UNCHANGED <<meta, manifest, worker, folder>>
        /\ verdict' = [verdict EXCEPT ![cur] = "FAILED"]
    BY <1>3 DEF ApplyFailed, diskVars
  <2>2. ASSUME NEW q \in Runs PROVE RunOrder(q)'
    <3>1. verdict'[q] = "new" => verdict[q] = "new"
      BY <1>0, <2>1 DEF TypeOK
    <3> QED BY <1>0, <2>1, <3>1, RunFrame
  <2>3. DirOrder'
    BY <2>1 DEF DirOrder
  <2> QED BY <2>2, <2>3
<1>4. ASSUME NEW r \in Runs, NEW ext \in {"sync", "done", "fail"}, ProcessSignal(r, ext)
      PROVE  Goal
  <2>1. /\ pc' = "signals" /\ UNCHANGED <<meta, worker, verdict>> /\ <<r, ext>> \in signals
        /\ \/ UNCHANGED <<manifest, folder>>
           \/ /\ ext = "done" /\ manifest' = [manifest EXCEPT ![r] = NoManifest]
              /\ folder' = [folder EXCEPT ![r] = "none"]
    BY <1>4 DEF ProcessSignal, diskVars, engineVars
  <2>2. ASSUME NEW q \in Runs, manifest'[q] = manifest[q], folder'[q] = folder[q]
        PROVE  RunOrder(q)'
    BY <1>0, <2>1, <2>2, RunFrame
  <2>3. ASSUME ext = "done", manifest' = [manifest EXCEPT ![r] = NoManifest],
               folder' = [folder EXCEPT ![r] = "none"]
        PROVE  RunOrder(r)'
    <3>1. worker[r] = "none"
      BY <2>1, <2>3, DoneFileIdle DEF OrderInv
    <3>2. manifest'[r] = NoManifest /\ folder'[r] = "none"
      BY <1>0, <2>3 DEF TypeOK
    <3>3. worker'[r] \notin InSession \cup Finished /\ worker'[r] \notin {"saved", "ok"}
      BY <2>1, <3>1 DEF InSession, Finished
    <3>4. manifest'[r].done = {} /\ manifest'[r].there = FALSE /\ folder'[r] # "ACTIVE"
      BY <3>2 DEF NoManifest
    <3> QED BY <3>3, <3>4 DEF RunOrder
  <2>4. \A q \in Runs : q # r => manifest'[q] = manifest[q] /\ folder'[q] = folder[q]
    BY <1>0, <2>1 DEF TypeOK
  <2>5. DirOrder'
    BY <2>1 DEF DirOrder
  <2> QED BY <2>1, <2>2, <2>3, <2>4, <2>5
<1>5. ASSUME NEW r \in Runs, Conclude(r) PROVE Goal
  BY <1>5, ConcludeOrder
<1>6. CASE dispatch_task
  <2>1. /\ cur \in Runs /\ pc' = "scan" /\ UNCHANGED <<manifest, folder, verdict>>
        /\ meta' = [meta EXCEPT ![cur] = [meta[cur] EXCEPT !.status = "DISPATCHED"]]
        /\ worker' = [worker EXCEPT ![cur] = "submitted"]
    BY <1>0, <1>6 DEF dispatch_task, transition_state, TypeOK, diskVars
  <2>2. \A q \in Runs : meta[q] \in MetaType
    BY <1>0 DEF TypeOK
  <2>3. \A q \in Runs : /\ meta'[q].step = meta[q].step
                        /\ worker'[q] \in {worker[q], "none", "submitted"}
    BY <1>0, <2>1, <2>2 DEF TypeOK, MetaType
  <2> QED BY <1>1, <2>1, <2>3
<1>7. CASE EndCommands \/ StartReap \/ EndReap \/ EndScan
  BY <1>1, <1>7 DEF EndCommands, StartReap, EndReap, EndScan, diskVars
<1>8. CASE DrainExit
  <2>1. UNCHANGED <<manifest, folder, meta>> /\ pc' = "down"
        /\ verdict' = [q \in Runs |-> verdict[q]] /\ worker' = [q \in Runs |-> "none"]
    BY <1>8 DEF DrainExit, GoDown, diskVars
  <2>2. verdict' = verdict
    BY <1>0, <2>1 DEF TypeOK
  <2> QED BY <1>1, <2>1, <2>2
<1>9. ASSUME NEW r \in Runs, NEW diskOk \in BOOLEAN, NEW svcOk \in BOOLEAN,
             NotReady(r, diskOk, svcOk) \/ PopByKey(r, diskOk, svcOk)
      PROVE  Goal
  BY <1>1, <1>9 DEF NotReady, PopByKey, Visited, diskVars
<1> QED BY <1>2, <1>3, <1>4, <1>5, <1>6, <1>7, <1>8, <1>9 DEF Engine, Pop

\* A worker keeps the order of the steps.
LEMMA WorkerOrder ==
    ASSUME OrderInv, NEW r \in Runs, Worker(r)
    PROVE  (\A q \in Runs : RunOrder(q))' /\ DirOrder'
<1>0. TypeOK /\ PlaceInv /\ DirOrder /\ \A q \in Runs : RunOrder(q)
  BY DEF OrderInv, SignalInv, PlaceInv
<1>1. worker[r] \in {"submitted"} \cup InSession /\ UNCHANGED <<signals, verdict, pc, dir, cur>>
  BY DEF Worker, WorkerStart, CountRetry, RemoveRetryMarker, BeginStage, SavePayload,
     WorkerSucceeds, WorkerErrors, WorkerHasNoConfig, workerUnchanged, engineVars, InSession
<1>2. verdict[r] = "live" /\ cur # r
  BY <1>0, <1>1, HeldIsLive DEF InSession
<1>3. /\ \A q \in Runs : q # r => /\ manifest'[q] = manifest[q] /\ meta'[q] = meta[q]
                                  /\ worker'[q] = worker[q] /\ folder'[q] = folder[q]
  BY <1>0 DEF Worker, WorkerStart, CountRetry, RemoveRetryMarker, BeginStage, SavePayload,
     WorkerSucceeds, WorkerErrors, WorkerHasNoConfig, transition_state, TypeOK
<1>4. ASSUME NEW q \in Runs, q # r PROVE RunOrder(q)'
  BY <1>0, <1>1, <1>3, <1>4, RunFrame
<1>5. DirOrder'
  <2>1. CASE pc = "apply"
    <3>1. cur \in Runs /\ manifest'[cur] = manifest[cur]
      BY <1>0, <1>2, <1>3, <2>1 DEF TypeOK
    <3> QED BY <1>0, <1>1, <3>1 DEF DirOrder, DoneBefore
  <2>2. CASE pc # "apply"
    BY <1>1, <2>2 DEF DirOrder
  <2> QED BY <2>1, <2>2
<1>6. /\ meta[r] \in MetaType /\ manifest[r] \in ManifestType
      /\ meta \in [Runs -> MetaType] /\ manifest \in [Runs -> ManifestType]
  BY <1>0 DEF TypeOK
<1>7. ASSUME meta'[r].step = meta[r].step, manifest'[r].there,
             manifest[r].done \subseteq manifest'[r].done,
             manifest'[r].step \in {manifest[r].step, meta[r].step},
             folder'[r] = "ACTIVE" => folder[r] = "ACTIVE" /\ (manifest[r].there \/ manifest'[r].step = meta[r].step),
             folder'[r] # "ACTIVE" => manifest'[r].done = {},
             worker'[r] \in {"saved", "ok"} => folder'[r] = "ACTIVE" /\ meta[r].step \in manifest'[r].done
      PROVE  RunOrder(r)'
  <2>2. folder'[r] = "ACTIVE" => DoneBefore(r, meta[r].step) /\ DoneBefore(r, manifest'[r].step)
    BY <1>0, <1>7 DEF RunOrder
  <2>3. folder'[r] = "ACTIVE" =>
           \A q \in get_step_ids : q < meta'[r].step \/ q < manifest'[r].step => q \in manifest'[r].done
    BY <1>7, <2>2 DEF DoneBefore
  <2>4. verdict'[r] # "new"
    BY <1>1, <1>2
  <2> QED BY <1>7, <2>3, <2>4 DEF RunOrder, DoneBefore
<1>8. ASSUME WorkerStart(r) PROVE RunOrder(r)'
  <2> DEFINE mf == LoadManifest(r, meta[r].step)
  <2>1. mf \in ManifestType /\ mf.there
    BY <1>0, <1>6, LoadManifestType DEF MetaType, LoadManifest, Skeleton, NoManifest
  <2>2. \/ mf = manifest[r] /\ manifest[r].there
        \/ mf.done = manifest[r].done /\ mf.step = meta[r].step
    BY <1>0 DEF LoadManifest, Skeleton, NoManifest, RunOrder
  <2>3. manifest'[r] = mf /\ worker'[r] = "entering"
        /\ folder'[r] = IF folder[r] = "none" THEN "bare" ELSE folder[r]
    BY <1>0, <1>6, <1>8 DEF WorkerStart, TypeOK
  <2> HIDE DEF mf
  <2>4. meta'[r].step = meta[r].step
    BY <1>0, <1>6, <1>8 DEF WorkerStart, transition_state, MetaType, TypeOK
  <2>5. folder[r] # "ACTIVE" => mf.done = {}
    BY <1>0, <2>2 DEF RunOrder
  <2> QED BY <1>7, <2>1, <2>2, <2>3, <2>4, <2>5
<1>9. ASSUME CountRetry(r) PROVE RunOrder(r)'
  <2>1. /\ manifest'[r].done = manifest[r].done /\ manifest'[r].there = manifest[r].there
        /\ manifest'[r].step = meta[r].step /\ UNCHANGED <<meta, folder>> /\ worker'[r] = "counted"
    BY <1>0, <1>6, <1>9 DEF CountRetry, ManifestType, TypeOK
  <2>2. manifest[r].there /\ (folder[r] # "ACTIVE" => manifest[r].done = {})
    BY <1>0, <1>9 DEF CountRetry, RunOrder, InSession
  <2> QED BY <1>7, <2>1, <2>2
<1>10. ASSUME RemoveRetryMarker(r) \/ BeginStage(r) \/ WorkerSucceeds(r) \/ WorkerHasNoConfig(r)
       PROVE  RunOrder(r)'
  <2>1. UNCHANGED <<meta, folder, manifest>> /\ worker[r] \in InSession
        /\ (worker'[r] \in {"saved", "ok"} => worker[r] = "saved")
    BY <1>0, <1>10 DEF RemoveRetryMarker, BeginStage, WorkerSucceeds, WorkerHasNoConfig, InSession, TypeOK
  <2>2. /\ manifest[r].there /\ (folder[r] # "ACTIVE" => manifest[r].done = {})
        /\ worker[r] = "saved" => folder[r] = "ACTIVE" /\ meta[r].step \in manifest[r].done
    BY <1>0, <2>1 DEF RunOrder
  <2> QED BY <1>7, <2>1, <2>2
<1>11. ASSUME SavePayload(r) PROVE RunOrder(r)'
  <2>1. /\ manifest'[r].done = manifest[r].done \cup {meta[r].step}
        /\ manifest'[r].there = manifest[r].there
        /\ manifest'[r].step = manifest[r].step /\ UNCHANGED <<meta, folder>>
        /\ folder[r] = "ACTIVE" /\ worker[r] = "running"
    BY <1>6, <1>11 DEF SavePayload, ManifestType
  <2>2. manifest[r].there
    BY <1>0, <2>1 DEF RunOrder, InSession
  <2> QED BY <1>7, <2>1, <2>2
<1>12. ASSUME NEW kind \in ExceptionKinds, NEW recorded \in BOOLEAN, WorkerErrors(r, kind, recorded)
       PROVE  RunOrder(r)'
  <2>1. /\ manifest'[r].done = manifest[r].done
        /\ manifest'[r].there = manifest[r].there
        /\ manifest'[r].step = manifest[r].step /\ UNCHANGED <<meta, folder>>
    BY <1>6, <1>12 DEF WorkerErrors, ManifestType
  <2>2. manifest[r].there /\ folder[r] = "ACTIVE"
    BY <1>0, <1>12 DEF RunOrder, WorkerErrors, InSession
  <2>3. worker'[r] \notin {"saved", "ok"}
    BY <1>0, <1>12 DEF WorkerErrors, ExceptionKinds, TypeOK
  <2> QED BY <1>7, <2>1, <2>2, <2>3
<1> QED BY <1>4, <1>5, <1>8, <1>9, <1>10, <1>11, <1>12 DEF Worker

\* Admission, resume, death, crash and restart keep the order of the steps.
LEMMA EnvironmentOrder ==
    ASSUME OrderInv, Environment
    PROVE  (\A q \in Runs : RunOrder(q))' /\ DirOrder'
<1> DEFINE Goal == (\A q \in Runs : RunOrder(q))' /\ DirOrder'
<1>0. /\ TypeOK /\ PlaceInv /\ DirOrder /\ \A q \in Runs : RunOrder(q)
      /\ meta \in [Runs -> MetaType] /\ manifest \in [Runs -> ManifestType]
  BY DEF OrderInv, SignalInv, PlaceInv, TypeOK
<1>1. ASSUME UNCHANGED <<meta, manifest, folder, verdict>>,
             pc' # "apply" \/ UNCHANGED <<pc, dir, cur>>,
             \A q \in Runs : worker'[q] \in {worker[q], "none", "dead", "bootstrap"}
      PROVE  Goal
  BY <1>0, <1>1, RunFrame, DirFrame
<1>2. CASE Drain \/ Restart \/ \E r \in Runs : TimePasses(r)
  BY <1>1, <1>2 DEF Drain, Restart, TimePasses, diskVars, engineVars
<1>3. ASSUME NEW r \in Runs, NEW how \in Crashed, WorkerDies(r, how) PROVE Goal
  <2>1. \A q \in Runs : worker'[q] \in {worker[q], "none", "dead", "bootstrap"}
    BY <1>0, <1>3 DEF WorkerDies, TypeOK, Crashed
  <2> QED BY <1>1, <1>3, <2>1 DEF WorkerDies, workerUnchanged, engineVars
<1>4. CASE Crash
  <2>1. /\ UNCHANGED <<meta, manifest, folder>> /\ pc' = "down"
        /\ worker' = [q \in Runs |-> "none"]
        /\ \A q \in Runs : verdict'[q] \in {verdict[q], "lost"}
    BY <1>4 DEF Crash, GoDown, diskVars
  <2>2. ASSUME NEW q \in Runs PROVE RunOrder(q)'
    <3>1. verdict'[q] = "new" => verdict[q] = "new"
      BY <2>1
    <3> QED BY <1>0, <2>1, <3>1, RunFrame
  <2>3. DirOrder'
    BY <2>1 DEF DirOrder
  <2> QED BY <2>2, <2>3
<1>5. ASSUME NEW r \in Runs, StartJob(r) PROVE Goal
  <2>1. /\ UNCHANGED <<manifest, worker, pc, dir, cur>>
        /\ verdict[r] = "new" /\ verdict'[r] = "live"
        /\ \A q \in Runs : q # r => /\ meta'[q] = meta[q] /\ verdict'[q] = verdict[q]
                                   /\ folder'[q] = folder[q]
        /\ meta'[r] = FreshMeta(FromStep) /\ folder'[r] = "ACTIVE"
    BY <1>0, <1>5 DEF StartJob, engineVars, TypeOK
  <2>2. ASSUME NEW q \in Runs, q # r PROVE RunOrder(q)'
    BY <1>0, <2>1, <2>2, RunFrame
  <2>3. \A q \in get_step_ids : ~ (q < FromStep)
    BY ConstantsAssumption DEF get_step_ids
  <2>4. worker[r] = "none"
    BY <1>0, <2>1, HeldIsLive
  <2>5. worker'[r] \notin InSession \cup Finished /\ worker'[r] \notin {"saved", "ok"}
    BY <2>1, <2>4 DEF InSession, Finished
  <2>6. ~ manifest[r].there /\ manifest[r].done = {} /\ meta'[r].step = FromStep
    BY <1>0, <2>1 DEF RunOrder, FreshMeta
  <2>7. RunOrder(r)'
    BY <2>1, <2>3, <2>5, <2>6 DEF RunOrder, DoneBefore
  <2> QED BY <1>0, <2>1, <2>2, <2>7, DirFrame
<1>6. ASSUME NEW r \in Runs, Resume(r) PROVE Goal
  <2>a. /\ manifest' = [manifest EXCEPT ![r].status = "PENDING", ![r].retry = 0, ![r].err = FALSE]
        /\ meta' = [meta EXCEPT ![r] = FreshMeta(manifest[r].step)]
        /\ verdict' = [verdict EXCEPT ![r] = "live"]
    BY <1>6 DEF Resume
  <2>b. \A q \in Runs : q # r => /\ meta'[q] = meta[q] /\ verdict'[q] = verdict[q]
                                /\ manifest'[q] = manifest[q]
    BY <1>0, <2>a DEF TypeOK
  <2>c. /\ manifest'[r].done = manifest[r].done /\ manifest'[r].there = manifest[r].there
        /\ manifest'[r].step = manifest[r].step
    BY <1>0, <2>a DEF ManifestType
  <2>d. meta'[r].step = manifest[r].step /\ verdict'[r] = "live"
    BY <1>0, <2>a DEF FreshMeta, TypeOK
  <2>e. /\ UNCHANGED <<worker, pc, dir, cur, folder>> /\ pc = "commands"
        /\ verdict[r] \notin {"new", "live"} /\ manifest[r].there
    BY <1>6 DEF Resume, engineVars
  <2>1. /\ UNCHANGED <<worker, pc, dir, cur, folder>> /\ pc = "commands"
        /\ verdict[r] \notin {"new", "live"} /\ verdict'[r] = "live" /\ manifest[r].there
        /\ \A q \in Runs : q # r => /\ meta'[q] = meta[q] /\ verdict'[q] = verdict[q]
                                   /\ manifest'[q] = manifest[q]
        /\ meta'[r].step = manifest[r].step
        /\ manifest'[r].done = manifest[r].done /\ manifest'[r].there = manifest[r].there
        /\ manifest'[r].step = manifest[r].step
    BY <2>b, <2>c, <2>d, <2>e
  <2>2. ASSUME NEW q \in Runs, q # r PROVE RunOrder(q)'
    BY <1>0, <2>1, <2>2, RunFrame
  <2>3. worker[r] = "none"
    BY <1>0, <2>1, HeldIsLive
  <2>4. worker'[r] \notin InSession \cup Finished /\ worker'[r] \notin {"saved", "ok"}
    BY <2>1, <2>3 DEF InSession, Finished
  <2>5. RunOrder(r)
    BY <1>0
  <2>6. RunOrder(r)'
    BY <2>1, <2>4, <2>5 DEF RunOrder, DoneBefore
  <2>7. DirOrder'
    BY <2>1 DEF DirOrder
  <2> QED BY <2>2, <2>6, <2>7
<1> QED BY <1>2, <1>3, <1>4, <1>5, <1>6 DEF Environment

\* The invariant behind StepOrder is inductive.
LEMMA OrderInvariant == Spec => []OrderInv
<1>1. Init /\ SignalInv => OrderInv
  BY DEF Init, OrderInv, RunOrder, DirOrder, NoManifest, Finished, InSession
<1>2. OrderInv /\ SignalInv' /\ [Next]_vars => OrderInv'
  <2> SUFFICES ASSUME OrderInv, SignalInv', [Next]_vars
               PROVE  (\A q \in Runs : RunOrder(q))' /\ DirOrder'
    BY DEF OrderInv
  <2>1. CASE UNCHANGED vars
    <3>1. ASSUME NEW q \in Runs PROVE RunOrder(q)'
      BY <2>1, RunFrame DEF vars, OrderInv
    <3>2. DirOrder'
      BY <2>1, DirFrame DEF vars, OrderInv
    <3> QED BY <3>1, <3>2
  <2> QED BY <2>1, EngineOrder, WorkerOrder, EnvironmentOrder DEF Next
<1> QED BY <1>1, <1>2, SignalInvariant, PTL DEF Spec

\* No retry, crash or resume makes a run skip a step: the outcomes of
\* outcome.py, applied by _apply_outcome_resolution, and the resumes of
\* recover_task only move a run to a step whose predecessors have left their
\* payload in the manifest; a run whose workspace is gone completes nothing.
THEOREM StepsInOrder == Spec => []StepOrder
<1>1. OrderInv => StepOrder
  BY DEF OrderInv, RunOrder, StepOrder
<1> QED BY <1>1, OrderInvariant, PTL

(***************************************************************************)
(* The refinement of PipelineContract.                                     *)
(***************************************************************************)
\* What the contract sees of the verdicts and of the manifests.
View(r) == IF Reopened(r) THEN "SUCCESS" ELSE verdict[r]
Views == [r \in Runs |-> View(r)]
Done == [r \in Runs |-> manifest[r].done]

\* A step that touches neither the verdict nor the .done file of a run does not
\* change what the contract sees of its verdict.
LEMMA ViewFrame ==
    ASSUME NEW q \in Runs, verdict'[q] = verdict[q],
           <<q, "done">> \in signals' <=> <<q, "done">> \in signals
    PROVE  View(q)' = View(q)
  BY DEF View, Reopened

\* The contract does not see a step that leaves verdicts and payloads alone.
LEMMA Unseen ==
    ASSUME \A q \in Runs : View(q)' = View(q),
           \A q \in Runs : manifest'[q].done = manifest[q].done
    PROVE  UNCHANGED Contract!cvars
<1>1. Done' = Done /\ Views' = Views
  BY DEF Done, Views
<1> QED BY <1>1 DEF Contract!cvars, Done, Views, View

\* A verdict that changes alone is seen as one.
LEMMA SeenVerdict ==
    ASSUME NEW r \in Runs, NEW v, View(r)' = v, \A q \in Runs : q # r => View(q)' = View(q),
           \A q \in Runs : manifest'[q].done = manifest[q].done
    PROVE  Contract!Become(r, v)
<1>1. Done' = Done
  BY DEF Done
<1>2. Views' = [Views EXCEPT ![r] = v]
  BY DEF Views
<1> QED BY <1>1, <1>2 DEF Contract!Become, Done, Views, View

\* A held run is seen as live.
LEMMA HeldView ==
    ASSUME OrderInv, NEW r \in Runs, worker[r] # "none" \/ cur = r
    PROVE  View(r) = "live" /\ <<r, "done">> \notin signals
<1>1. verdict[r] = "live"
  BY HeldIsLive DEF OrderInv, SignalInv
<1>2. <<r, "done">> \notin signals
  BY DoneFileIdle DEF OrderInv
<1> QED BY <1>1, <1>2 DEF View, Reopened

\* Every outcome leaves the payloads alone; one that raises loses the run.
LEMMA ConcludeSeen ==
    ASSUME OrderInv, NEW r \in Runs, Conclude(r)
    PROVE  [Contract!CNext]_(Contract!cvars)
<1>0. TypeOK /\ PlaceInv /\ manifest \in [Runs -> ManifestType]
  BY DEF OrderInv, SignalInv, PlaceInv, TypeOK
<1>1. ASSUME Dropped(r), worker[r] # "none", UNCHANGED manifest
      PROVE  Contract!CNext
  <2>1. View(r) = "live"
    BY <1>1, HeldView
  <2>2. verdict' = [verdict EXCEPT ![r] = "lost"] /\ UNCHANGED signals
    BY <1>1 DEF Dropped
  <2>3. View(r)' = "lost"
    BY <1>0, <2>2 DEF View, Reopened, TypeOK
  <2>4. \A q \in Runs : q # r => View(q)' = View(q)
    BY <1>0, <2>2, ViewFrame DEF TypeOK
  <2>5. Views' = [q \in Runs |-> IF q \in {r} THEN "lost" ELSE Views[q]]
    BY <2>3, <2>4 DEF Views
  <2>6. Done' = Done
    BY <1>1 DEF Done
  <2>7. Contract!Lose({r})
    BY <2>1, <2>5, <2>6 DEF Contract!Lose, Done, Views, View
  <2> QED BY <2>7 DEF Contract!CNext
<1>2. ASSUME UNCHANGED <<verdict, signals>>,
             \/ \E st, err : manifest' = [manifest EXCEPT ![r].status = st, ![r].err = err]
             \/ \E st : manifest' = [manifest EXCEPT ![r].status = st]
             \/ \E st, step : manifest' = [manifest EXCEPT ![r].status = st, ![r].step = step]
      PROVE  UNCHANGED Contract!cvars
  <2>1. ASSUME NEW q \in Runs PROVE manifest'[q].done = manifest[q].done
    <3>1. CASE \E st, err : manifest' = [manifest EXCEPT ![r].status = st, ![r].err = err]
      BY <1>0, <3>1 DEF ManifestType
    <3>2. CASE \E st : manifest' = [manifest EXCEPT ![r].status = st]
      BY <1>0, <3>2 DEF ManifestType
    <3>3. CASE \E st, step : manifest' = [manifest EXCEPT ![r].status = st, ![r].step = step]
      BY <1>0, <3>3 DEF ManifestType
    <3> QED BY <1>2, <3>1, <3>2, <3>3
  <2> QED BY <1>2, <2>1, ViewFrame, Unseen
<1>3. CASE ReconcileError(r)
  BY <1>1, <1>3 DEF ReconcileError, Reap, Crashed
<1>4. ASSUME NEW late \in BOOLEAN, UnrecordedError(r, late) PROVE Contract!CNext
  BY <1>1, <1>4 DEF UnrecordedError, Reap
<1>5. CASE SuccessOutcome(r)
  BY <1>2, <1>5 DEF SuccessOutcome, Resolve
<1>6. CASE ProgressOutcome(r)
  BY <1>2, <1>6 DEF ProgressOutcome, Resolve
<1>7. CASE FailedOutcome(r)
  BY <1>2, <1>7 DEF FailedOutcome, Resolve
<1>8. ASSUME NEW late \in BOOLEAN, RetryOutcome(r, late) PROVE UNCHANGED Contract!cvars
  BY <1>2, <1>8 DEF RetryOutcome, Resolve
<1>9. ASSUME NEW svc \in Services, BlockedOutcome(r, svc) PROVE UNCHANGED Contract!cvars
  BY <1>2, <1>9 DEF BlockedOutcome, Resolve
<1> QED BY <1>3, <1>4, <1>5, <1>6, <1>7, <1>8, <1>9 DEF Conclude, FatalError, RetryRefused

\* The engine thread fails and completes runs, and deletes their record only
\* after their success.
LEMMA EngineSeen ==
    ASSUME OrderInv, Engine
    PROVE  [Contract!CNext]_(Contract!cvars)
<1>0. TypeOK /\ PlaceInv /\ manifest \in [Runs -> ManifestType]
  BY DEF OrderInv, SignalInv, PlaceInv, TypeOK
<1>1. ASSUME NEW r \in Runs, r = cur, ApplyFailed PROVE Contract!CFail(r)
  <2>1. /\ verdict' = [verdict EXCEPT ![r] = "FAILED"] /\ UNCHANGED manifest
        /\ signals' = signals \cup {<<r, "fail">>}
    BY <1>1 DEF ApplyFailed, diskVars
  <2>2. View(r) = "live" /\ <<r, "done">> \notin signals
    BY <1>1, HeldView
  <2>3. View(r)' = "FAILED"
    BY <1>0, <2>1 DEF View, Reopened, TypeOK
  <2>4. \A q \in Runs : q # r => View(q)' = View(q)
    BY <1>0, <2>1, ViewFrame DEF TypeOK
  <2> QED BY <2>1, <2>2, <2>3, <2>4, SeenVerdict DEF Contract!CFail, View
<1>2. ASSUME NEW r \in Runs, r = cur, Apply
      PROVE  Contract!CSucceed(r) \/ UNCHANGED Contract!cvars
  <2>1. pc = "apply" /\ UNCHANGED manifest
    BY <1>2 DEF Apply, diskVars
  <2>2. CASE dir.action = "success"
    <3>1. verdict' = [verdict EXCEPT ![r] = "SUCCESS"] /\ signals' = signals \cup {<<r, "done">>}
      BY <1>2, <2>2 DEF Apply
    <3>2. View(r) = "live" /\ get_step_ids \subseteq manifest[r].done
      BY <1>2, <2>1, <2>2, HeldView DEF OrderInv, DirOrder
    <3>3. View(r)' = "SUCCESS"
      BY <1>0, <3>1 DEF View, TypeOK
    <3>4. \A q \in Runs : q # r => View(q)' = View(q)
      BY <1>0, <3>1, ViewFrame DEF TypeOK
    <3> QED BY <2>1, <3>2, <3>3, <3>4, SeenVerdict DEF Contract!CSucceed, View
  <2>3. CASE dir.action # "success"
    <3>1. verdict' = verdict /\ signals' = signals \cup {<<r, "sync">>}
      BY <1>2, <2>3 DEF Apply
    <3>2. \A q \in Runs : View(q)' = View(q)
      BY <3>1, ViewFrame
    <3> QED BY <2>1, <3>2, Unseen
  <2> QED BY <2>2, <2>3
<1>a. Apply \/ ApplyFailed => \E r \in Runs : r = cur
  BY <1>0 DEF Apply, ApplyFailed, TypeOK
<1>3. ASSUME NEW r \in Runs, NEW ext \in {"sync", "done", "fail"}, ProcessSignal(r, ext)
      PROVE  [Contract!CNext]_(Contract!cvars)
  <2>1. /\ UNCHANGED verdict /\ <<r, ext>> \in signals /\ signals' = signals \ {<<r, ext>>}
        /\ \/ UNCHANGED manifest
           \/ ext = "done" /\ manifest' = [manifest EXCEPT ![r] = NoManifest]
    BY <1>3 DEF ProcessSignal, diskVars
  <2>2. \A q \in Runs : q # r => View(q)' = View(q)
    BY <2>1, ViewFrame
  <2>3. CASE ext = "done"
    <3>1. Done' \in {Done, [Done EXCEPT ![r] = {}]}
      <4>1. CASE UNCHANGED manifest
        BY <4>1 DEF Done
      <4>2. CASE manifest' = [manifest EXCEPT ![r] = NoManifest]
        <5>1. \A q \in Runs : manifest'[q].done = IF q = r THEN {} ELSE manifest[q].done
          BY <1>0, <4>2 DEF NoManifest
        <5> QED BY <5>1 DEF Done
      <4> QED BY <2>1, <4>1, <4>2
    <3>2. View(r) = "SUCCESS"
      BY <2>1, <2>3 DEF OrderInv, SignalInv, DoneFile, View, Reopened
    <3>3. View(r)' = verdict[r]
      BY <2>1, <2>3 DEF View, Reopened
    <3>4. CASE verdict[r] = "SUCCESS"
      <4>1. Views' = Views
        BY <2>2, <3>2, <3>3, <3>4 DEF Views
      <4>2. Contract!Reclaim(r) \/ UNCHANGED Contract!cvars
        BY <3>1, <3>2, <4>1 DEF Contract!Reclaim, Contract!cvars, Done, Views, View
      <4> QED BY <4>2 DEF Contract!CNext
    <3>5. CASE verdict[r] = "live"
      <4>1. Views' = [Views EXCEPT ![r] = "live"]
        BY <2>2, <3>3, <3>5 DEF Views
      <4>2. Contract!CReopen(r)
        BY <3>1, <3>2, <4>1 DEF Contract!CReopen, Done, Views, View
      <4> QED BY <4>2 DEF Contract!CNext
    <3> QED BY <2>1, <2>3, <3>4, <3>5 DEF OrderInv, SignalInv, DoneFile
  <2>4. CASE ext # "done"
    <3>1. View(r)' = View(r)
      BY <2>1, <2>4, ViewFrame
    <3> QED BY <2>1, <2>2, <2>4, <3>1, Unseen
  <2> QED BY <2>3, <2>4
<1>4. CASE DrainExit
  <2>1. UNCHANGED <<verdict, manifest, signals>>
    BY <1>0, <1>4 DEF DrainExit, GoDown, TypeOK, diskVars
  <2> QED BY <2>1, ViewFrame, Unseen
<1>5. CASE UNCHANGED <<verdict, manifest, signals>>
  BY <1>5, ViewFrame, Unseen
<1>b. CASE Apply \/ ApplyFailed
  BY <1>1, <1>2, <1>a, <1>b DEF Contract!CNext
<1> QED
  BY <1>b, <1>3, <1>4, <1>5, ConcludeSeen
     DEF Engine, EndCommands, StartReap, EndReap, EndScan, dispatch_task, NotReady, Pop, PopByKey,
         diskVars

\* A worker completes a step only after the ones before it.
LEMMA WorkerSeen ==
    ASSUME OrderInv, NEW r \in Runs, Worker(r)
    PROVE  [Contract!CNext]_(Contract!cvars)
<1>0. /\ TypeOK /\ PlaceInv /\ RunOrder(r) /\ manifest[r] \in ManifestType
      /\ manifest \in [Runs -> ManifestType] /\ meta[r] \in MetaType
  BY DEF OrderInv, SignalInv, PlaceInv, TypeOK
<1>1. UNCHANGED <<verdict, signals>>
  BY DEF Worker, WorkerStart, CountRetry, RemoveRetryMarker, BeginStage, SavePayload,
     WorkerSucceeds, WorkerErrors, WorkerHasNoConfig, workerUnchanged
<1>2. \A q \in Runs : View(q)' = View(q)
  BY <1>1, ViewFrame
<1>3. ASSUME \A q \in Runs : manifest'[q].done = manifest[q].done
      PROVE  UNCHANGED Contract!cvars
  BY <1>2, <1>3, Unseen
<1>4. CASE WorkerStart(r)
  <2>1. LoadManifest(r, meta[r].step).done = manifest[r].done
    BY <1>0 DEF LoadManifest, Skeleton, NoManifest, RunOrder
  <2>2. manifest' = [manifest EXCEPT ![r] = LoadManifest(r, meta[r].step)]
    BY <1>4 DEF WorkerStart
  <2>3. ASSUME NEW q \in Runs PROVE manifest'[q].done = manifest[q].done
    BY <1>0, <2>1, <2>2
  <2> QED BY <1>3, <2>3
<1>5. CASE CountRetry(r)
  <2>1. ASSUME NEW q \in Runs PROVE manifest'[q].done = manifest[q].done
    BY <1>0, <1>5 DEF CountRetry, ManifestType
  <2> QED BY <1>3, <2>1
<1>6. CASE RemoveRetryMarker(r) \/ BeginStage(r) \/ WorkerSucceeds(r) \/ WorkerHasNoConfig(r)
  BY <1>3, <1>6 DEF RemoveRetryMarker, BeginStage, WorkerSucceeds, WorkerHasNoConfig
<1>7. CASE SavePayload(r)
  <2> SUFFICES ASSUME NEW s \in Steps, s = meta[r].step
               PROVE  Contract!CNext
    BY <1>0, ConstantsAssumption DEF MetaType
  <2>1. /\ worker[r] = "running" /\ folder[r] = "ACTIVE"
        /\ manifest' = [manifest EXCEPT ![r].done = @ \cup {s}]
    BY <1>7 DEF SavePayload
  <2>2. View(r) = "live"
    BY <2>1, HeldView
  <2>3. DoneBefore(r, s)
    BY <1>0, <2>1 DEF RunOrder
  <2>4. Done' = [Done EXCEPT ![r] = @ \cup {s}]
    BY <1>0, <2>1 DEF Done, ManifestType
  <2>5. \A q \in get_step_ids : q < s => q \in Done[r]
    BY <2>3 DEF Done, DoneBefore
  <2>6. Views' = Views
    BY <1>2 DEF Views
  <2>7. Contract!CompleteStep(r, s)
    BY <2>2, <2>4, <2>5, <2>6 DEF Contract!CompleteStep, Done, Views, View
  <2> QED BY <2>7 DEF Contract!CNext
<1>8. ASSUME NEW kind \in ExceptionKinds, NEW recorded \in BOOLEAN, WorkerErrors(r, kind, recorded)
      PROVE  [Contract!CNext]_(Contract!cvars)
  <2>1. ASSUME NEW q \in Runs PROVE manifest'[q].done = manifest[q].done
    BY <1>0, <1>8 DEF WorkerErrors, ManifestType
  <2> QED BY <1>3, <2>1
<1> QED BY <1>4, <1>5, <1>6, <1>7, <1>8 DEF Worker

\* Starts, resumes and deaths are steps of the contract.
LEMMA EnvironmentSeen ==
    ASSUME OrderInv, Environment
    PROVE  [Contract!CNext]_(Contract!cvars)
<1>0. /\ TypeOK /\ PlaceInv /\ manifest \in [Runs -> ManifestType]
      /\ \A q \in Runs : DoneFile(q)
  BY DEF OrderInv, SignalInv, PlaceInv, TypeOK
<1>1. ASSUME NEW r \in Runs, StartJob(r) PROVE Contract!CStart(r)
  <2>1. /\ verdict' = [verdict EXCEPT ![r] = "live"] /\ UNCHANGED <<manifest, signals>>
        /\ verdict[r] = "new"
    BY <1>1 DEF StartJob
  <2>2. <<r, "done">> \notin signals
    BY <1>0, <2>1 DEF DoneFile
  <2>3. View(r) = "new" /\ View(r)' = "live"
    BY <1>0, <2>1, <2>2 DEF View, Reopened, TypeOK
  <2>4. \A q \in Runs : q # r => View(q)' = View(q)
    BY <1>0, <2>1, ViewFrame DEF TypeOK
  <2> QED BY <2>1, <2>3, <2>4, SeenVerdict DEF Contract!CStart, View
<1>2. ASSUME NEW r \in Runs, Resume(r) PROVE [Contract!CNext]_(Contract!cvars)
  <2>1. /\ verdict' = [verdict EXCEPT ![r] = "live"] /\ verdict[r] \notin {"new", "live"}
        /\ signals' = signals \cup {<<r, "sync">>}
        /\ manifest' = [manifest EXCEPT ![r].status = "PENDING", ![r].retry = 0, ![r].err = FALSE]
    BY <1>2 DEF Resume
  <2>2. ASSUME NEW q \in Runs PROVE manifest'[q].done = manifest[q].done
    BY <1>0, <2>1 DEF ManifestType
  <2>3. \A q \in Runs : q # r => View(q)' = View(q)
    BY <1>0, <2>1, ViewFrame DEF TypeOK
  <2>4. verdict'[r] = "live" /\ View(r) = verdict[r] /\ verdict[r] \in {"SUCCESS", "FAILED", "lost"}
    BY <1>0, <2>1 DEF View, Reopened, TypeOK
  <2>5. CASE <<r, "done">> \in signals
    <3>1. verdict[r] = "SUCCESS"
      BY <1>0, <2>1, <2>5 DEF DoneFile
    <3>2. View(r)' = View(r)
      BY <2>1, <2>4, <2>5, <3>1 DEF View, Reopened
    <3> QED BY <2>2, <2>3, <3>2, Unseen
  <2>6. CASE <<r, "done">> \notin signals
    <3>1. View(r)' = "live"
      BY <2>1, <2>4, <2>6 DEF View, Reopened
    <3>2. Contract!Become(r, "live")
      BY <2>2, <2>3, <3>1, SeenVerdict
    <3>3. CASE verdict[r] = "SUCCESS"
      BY <2>4, <3>2, <3>3 DEF Contract!CNext, Contract!CReopen, Contract!Become, View
    <3>4. CASE verdict[r] \in {"FAILED", "lost"}
      BY <2>4, <3>2, <3>4 DEF Contract!CNext, Contract!CResume, View
    <3> QED BY <2>4, <3>3, <3>4
  <2> QED BY <2>5, <2>6
<1>3. ASSUME Crash, NEW S \in SUBSET Runs, S = {r \in Runs : worker[r] # "none" \/ cur = r}
      PROVE  Contract!Lose(S)
  <2>1. /\ verdict' = [q \in Runs |-> IF q \in S THEN "lost" ELSE verdict[q]]
        /\ UNCHANGED <<manifest, signals>>
    BY <1>3 DEF Crash, GoDown, diskVars
  <2>2. \A q \in S : View(q) = "live"
    BY <1>3, HeldView
  <2>3. Done' = Done
    BY <2>1 DEF Done
  <2>4. ASSUME NEW q \in Runs, q \in S PROVE View(q)' = "lost"
    BY <2>1, <2>4 DEF View, Reopened
  <2>5. ASSUME NEW q \in Runs, q \notin S PROVE View(q)' = View(q)
    BY <2>1, <2>5, ViewFrame
  <2>6. Views' = [q \in Runs |-> IF q \in S THEN "lost" ELSE Views[q]]
    BY <2>4, <2>5 DEF Views
  <2> QED BY <2>2, <2>3, <2>6 DEF Contract!Lose, Done, Views, View
<1>a. \E S \in SUBSET Runs : S = {r \in Runs : worker[r] # "none" \/ cur = r}
  OBVIOUS
<1>b. CASE Crash
  BY <1>3, <1>a, <1>b DEF Contract!CNext
<1>4. CASE UNCHANGED <<verdict, manifest, signals>>
  BY <1>4, ViewFrame, Unseen
<1> QED
  BY <1>1, <1>2, <1>b, <1>4
     DEF Environment, Drain, Restart, TimePasses, WorkerDies, workerUnchanged, diskVars, Contract!CNext

\* The engine implements PipelineContract for every number of runs and steps:
\* queue, hot cache, workers, reconciling driver, signals, crashes and resumes
\* together complete the steps of a run in order, report a success only when
\* every step has its payload, delete a record only of a successful run, and
\* give a verdict that only a resume takes away.
THEOREM EngineImplementsContract == Spec => ImplementsContract
<1>1. Init => Contract!CInit
  BY DEF Init, Contract!CInit, NoManifest, Reopened
<1>2. OrderInv /\ [Next]_vars => [Contract!CNext]_(Contract!cvars)
  <2> SUFFICES ASSUME OrderInv, [Next]_vars PROVE [Contract!CNext]_(Contract!cvars)
    OBVIOUS
  <2>1. CASE UNCHANGED vars
    BY <2>1, ViewFrame, Unseen DEF vars
  <2> QED BY <2>1, EngineSeen, WorkerSeen, EnvironmentSeen DEF Next
<1> QED BY <1>1, <1>2, OrderInvariant, PTL DEF Spec, ImplementsContract, Contract!CSpec

(***************************************************************************)
(* How runs are dropped.  That ProgressOutcome finds a next step rests on  *)
(* OrderInv.                                                               *)
(***************************************************************************)
\* A run that began at "start" and is not complete after a step has another one.
LEMMA NoDeadEnd ==
    ASSUME OrderInv, FromStep = 1, NEW r \in Runs, worker[r] = "ok", ~ is_complete(manifest[r].done)
    PROVE  get_next_step_id(meta[r].step) # 0
<1> DEFINE s == meta[r].step
<1>1. s \in StepsToLast /\ manifest[r].done \subseteq StepsToLast
  BY DEF OrderInv, SignalInv, PlaceInv, TypeOK, MetaType, ManifestType
<1>2. s \in manifest[r].done /\ DoneBefore(r, s)
  BY DEF OrderInv, RunOrder
<1>3. get_step_ids = StepsToLast /\ {1} \cup get_step_ids = StepsToLast
  BY ConstantsAssumption DEF get_step_ids
<1>4. s # ToStep
  <2> SUFFICES ASSUME s = ToStep PROVE StepsToLast \subseteq manifest[r].done
    BY <1>1, <1>3 DEF is_complete
  <2>1. \A q \in StepsToLast : q < ToStep \/ q = ToStep
    BY ConstantsAssumption
  <2> QED BY <1>2, <1>3, <2>1 DEF DoneBefore
<1> QED BY <1>1, <1>4, ConstantsAssumption DEF get_next_step_id, get_step_ids

\* A run is dropped without a verdict only by a death, by one of the errors the
\* driver cannot reconcile, or after its workspace was deleted: the ValueError of
\* ProgressOutcome, which process_completed_steps swallows as well, cannot occur
\* to a run that began at "start", however retries and resumes moved it.
THEOREM DropsAreKnown == Spec => DroppedOnlyAsKnown
<1> DEFINE Known ==
      \A r \in Runs : verdict[r] # "lost" /\ verdict'[r] = "lost" =>
        \/ worker[r] \in Crashed
        \/ pc # "down" /\ pc' = "down"
        \/ worker[r] = "rollback"
        \/ worker[r] \in {"transient", "blocked"} /\ ~ manifest[r].err
        \/ folder[r] # "ACTIVE"
        \/ FromStep # 1
<1>1. OrderInv /\ [Next]_vars => [Known]_vars
  <2> SUFFICES ASSUME OrderInv, [Next]_vars, NEW r \in Runs,
                      verdict[r] # "lost", verdict'[r] = "lost"
               PROVE  \/ worker[r] \in Crashed
                      \/ pc # "down" /\ pc' = "down"
                      \/ worker[r] = "rollback"
                      \/ worker[r] \in {"transient", "blocked"} /\ ~ manifest[r].err
                      \/ folder[r] # "ACTIVE"
                      \/ FromStep # 1
    OBVIOUS
  <2>0. TypeOK
    BY DEF OrderInv, SignalInv, PlaceInv
  <2>1. ASSUME UNCHANGED verdict PROVE FALSE
    BY <2>1
  <2>2. ASSUME NEW q \in Runs, NEW v, v # "lost", verdict' = [verdict EXCEPT ![q] = v]
        PROVE  FALSE
    BY <2>0, <2>2 DEF TypeOK
  <2>3. ASSUME NEW q \in Runs, Dropped(q) PROVE q = r
    BY <2>0, <2>3 DEF Dropped, TypeOK
  <2>4. ASSUME NEW q \in Runs, Conclude(q)
        PROVE  ReconcileError(q) \/ \E late \in BOOLEAN : UnrecordedError(q, late)
    BY <2>1, <2>4 DEF Conclude, SuccessOutcome, ProgressOutcome, FatalError, FailedOutcome,
       RetryOutcome, RetryRefused, BlockedOutcome, Resolve
  <2>5. ASSUME NEW q \in Runs, ReconcileError(q)
        PROVE  \/ worker[r] \in Crashed \cup {"rollback"} \/ folder[r] # "ACTIVE" \/ FromStep # 1
    BY <2>3, <2>5, NoDeadEnd DEF ReconcileError, Reap
  <2>6. ASSUME NEW q \in Runs, NEW late \in BOOLEAN, UnrecordedError(q, late)
        PROVE  worker[r] \in {"transient", "blocked"} /\ ~ manifest[r].err
    BY <2>3, <2>6 DEF UnrecordedError, Reap
  <2>7. CASE Apply \/ ApplyFailed
    <3>1. cur \in Runs /\ (UNCHANGED verdict \/ \E v \in {"SUCCESS", "FAILED"} :
                                                 verdict' = [verdict EXCEPT ![cur] = v])
      BY <2>0, <2>7 DEF Apply, ApplyFailed, TypeOK
    <3> QED BY <2>1, <2>2, <3>1
  <2>8. CASE DrainExit
    BY <2>0, <2>8 DEF DrainExit, GoDown, TypeOK
  <2>9. CASE Engine
    BY <2>1, <2>4, <2>5, <2>6, <2>7, <2>8, <2>9
       DEF Engine, EndCommands, StartReap, EndReap, EndScan, dispatch_task, ProcessSignal,
           NotReady, Pop, PopByKey
  <2>10. ASSUME NEW q \in Runs, Worker(q) PROVE FALSE
    BY <2>1, <2>10 DEF Worker, WorkerStart, CountRetry, RemoveRetryMarker, BeginStage, SavePayload,
       WorkerSucceeds, WorkerErrors, WorkerHasNoConfig, workerUnchanged
  <2>11. ASSUME NEW q \in Runs, StartJob(q) \/ Resume(q) PROVE FALSE
    BY <2>2, <2>11 DEF StartJob, Resume
  <2>12. CASE Crash
    BY <2>12 DEF Crash, GoDown
  <2>13. CASE Environment
    BY <2>1, <2>11, <2>12, <2>13
       DEF Environment, Drain, Restart, TimePasses, WorkerDies, workerUnchanged
  <2> QED BY <2>1, <2>9, <2>10, <2>13 DEF Next, vars
<1> QED BY <1>1, OrderInvariant, PTL DEF Spec, DroppedOnlyAsKnown
=============================================================================
