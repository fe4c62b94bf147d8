----------------------------- MODULE StateSink -----------------------------
(***************************************************************************)
(* The disk stream between the engine and META.EXECUTION_LOG.  Threads     *)
(* append updates to execution_stream.jsonl; jobs rename the stream to a   *)
(* staged batch, convert it, load it and archive it.  No lock guards the   *)
(* files: an append may straddle a rename, two jobs may flush at once, the *)
(* load may fail, and the process may die anywhere.                        *)
(*                                                                         *)
(* Sources: orchestrator/common/state/{sink,hub}.py, bulk_load_parquet of  *)
(* services/repo/metadata.py, the scheduler jobs of daemon/runtime.py.     *)
(***************************************************************************)
EXTENDS Naturals, FiniteSets

CONSTANTS
    Updates,     \* the updates the store accepts, one TaskUpdate each
    Appenders,   \* threads that call StateSink.append
    Flushers,    \* jobs that call StateSink.flush_to_db
    MaxFaults,   \* bound: failed appends, conversions, loads and archivings
    MaxCrashes   \* bound: deaths of the engine process

Files == {"stream", "staging", "archive"} \cup Flushers
Threads == Appenders \cup Flushers

ASSUME SinkAssumption ==
    /\ MaxFaults \in Nat /\ MaxCrashes \in Nat
    /\ Flushers \cap {"stream", "staging", "archive"} = {}
    /\ "none" \notin Updates

VARIABLES
    pending,   \* updates not yet given to the sink
    content,   \* content[f]: updates in the stream, in the batch of a flush
               \* under way (f is the flusher), in abandoned batches, archived
    exists,    \* execution_stream.jsonl exists
    parquet,   \* parquet[t]: what the conversion of t has read from its batch
    loaded,    \* loaded[u]: rows of update u in META.EXECUTION_LOG
    late,      \* history: updates written to a batch after it was read
    lost,      \* history: accepted, but the append failed or the process died first
    pc,        \* next step of each thread
    item,      \* the update a thread is appending
    file,      \* the file a thread appends to, wherever it is moved
    faults,    \* failures so far
    crashes    \* deaths so far

fileVars == <<content, exists, late>>
vars == <<pending, fileVars, parquet, loaded, lost, pc, item, file, faults, crashes>>

Init ==
    /\ pending = Updates
    /\ content = [f \in Files |-> {}] /\ exists = FALSE
    /\ parquet = [t \in Flushers |-> {}]
    /\ loaded = [u \in Updates |-> 0]
    /\ late = {} /\ lost = {}
    /\ pc = [t \in Threads |-> "idle"]
    /\ item = [t \in Threads |-> "none"] /\ file = [t \in Threads |-> "stream"]
    /\ faults = 0 /\ crashes = 0

Goto(t, label) == pc' = [pc EXCEPT ![t] = label]

-----------------------------------------------------------------------------
\* StateHub.update_task and sync_manifest after the store has accepted
Accept(t, u) ==
    /\ t \in Appenders /\ pc[t] = "idle" /\ u \in pending
    /\ pending' = pending \ {u}
    /\ item' = [item EXCEPT ![t] = u]
    /\ Goto(t, "open")
    /\ UNCHANGED <<fileVars, parquet, loaded, lost, file, faults, crashes>>

\* StateSink.append opens the stream, which creates it ...
OpenStream(t) ==
    /\ pc[t] = "open"
    /\ exists' = TRUE
    /\ file' = [file EXCEPT ![t] = "stream"]
    /\ Goto(t, "write")
    /\ UNCHANGED <<pending, content, late, parquet, loaded, lost, item, faults, crashes>>

\* A flush has read this file already.
WasRead(f) == f \in {"staging", "archive"} \/ (f \in Flushers /\ pc[f] \in {"load", "archive"})

\* ... and the line reaches the opened file, under whatever name it has by now.
WriteLine(t) ==
    /\ pc[t] = "write"
    /\ content' = [content EXCEPT ![file[t]] = @ \cup {item[t]}]
    /\ late' = IF WasRead(file[t]) THEN late \cup {item[t]} ELSE late
    /\ item' = [item EXCEPT ![t] = "none"]
    /\ file' = [file EXCEPT ![t] = "stream"]
    /\ Goto(t, "idle")
    /\ UNCHANGED <<pending, exists, parquet, loaded, lost, faults, crashes>>

\* append logs any exception of the opening or the writing, and the update is
\* gone.  (What a failed write may leave of the line is not modelled: it makes
\* the conversion of its batch fail, as FlushFails may at any time.)
AppendFails(t) ==
    /\ pc[t] \in {"open", "write"} /\ faults < MaxFaults
    /\ faults' = faults + 1
    /\ lost' = lost \cup {item[t]}
    /\ item' = [item EXCEPT ![t] = "none"]
    /\ file' = [file EXCEPT ![t] = "stream"]
    /\ Goto(t, "idle")
    /\ UNCHANGED <<pending, fileVars, parquet, loaded, crashes>>

-----------------------------------------------------------------------------
\* A file gets another name, or joins the others of a folder; whoever has it
\* open goes on writing to it.
Move(from, to) ==
    /\ content' = [content EXCEPT ![to] = @ \cup content[from], ![from] = {}]
    /\ file' = [t \in Threads |-> IF pc[t] = "write" /\ file[t] = from THEN to ELSE file[t]]

\* Defect: a stream with a single line is not worth a flush.
CheckStreamThreshold(t) ==
    /\ t \in Flushers /\ pc[t] = "idle"
    /\ exists /\ Cardinality(content["stream"]) > 1
    /\ Goto(t, "rename")
    /\ UNCHANGED <<pending, fileVars, parquet, loaded, lost, item, file, faults, crashes>>

\* _rotate_and_stage: a missing or empty stream ends the flush.
CheckStream(t) ==
    /\ t \in Flushers /\ pc[t] = "idle"
    /\ exists /\ content["stream"] # {}
    /\ Goto(t, "rename")
    /\ UNCHANGED <<pending, fileVars, parquet, loaded, lost, item, file, faults, crashes>>

\* Defect: the stream is copied to the batch and deleted, so a line that is
\* written after the copy is gone.
RotateByCopy(t) ==
    /\ pc[t] = "rename"
    /\ exists' = FALSE
    /\ content' = [content EXCEPT ![t] = content["stream"], !["stream"] = {}]
    /\ item' = [x \in Threads |-> IF pc[x] = "write" THEN "none" ELSE item[x]]
    /\ pc' = [x \in Threads |-> IF x = t THEN "convert" ELSE IF pc[x] = "write" THEN "idle" ELSE pc[x]]
    /\ UNCHANGED <<pending, late, parquet, loaded, lost, file, faults, crashes>>

\* The rename.  Another flush may have been faster: FileNotFoundError, outside
\* the try, ends the job.
Rotate(t) ==
    /\ pc[t] = "rename"
    /\ exists' = FALSE
    /\ IF exists
       THEN Move("stream", t) /\ Goto(t, "convert")
       ELSE Goto(t, "idle") /\ UNCHANGED <<content, file>>
    /\ UNCHANGED <<pending, late, parquet, loaded, lost, item, faults, crashes>>

\* JSONHandler.to_df and ParquetHandler.from_df: the batch is read here.
Convert(t) ==
    /\ pc[t] = "convert"
    /\ parquet' = [parquet EXCEPT ![t] = content[t]]
    /\ Goto(t, "load")
    /\ UNCHANGED <<pending, fileVars, loaded, lost, item, file, faults, crashes>>

\* MetadataRepository.bulk_load_parquet
Load(t) ==
    /\ pc[t] = "load"
    /\ loaded' = [u \in Updates |-> IF u \in parquet[t] THEN loaded[u] + 1 ELSE loaded[u]]
    /\ Goto(t, "archive")
    /\ UNCHANGED <<pending, fileVars, parquet, lost, item, file, faults, crashes>>

\* Defect: the archiving step is taken although the load has failed.
FlushFailsArchived(t) ==
    /\ pc[t] \in {"convert", "load"} /\ faults < MaxFaults
    /\ faults' = faults + 1
    /\ Goto(t, "archive")
    /\ UNCHANGED <<pending, fileVars, parquet, loaded, lost, item, file, crashes>>

\* Defect: a failed batch is put back as the stream, also when the database
\* had taken the rows before the error.
FlushFailsRequeued(t) ==
    /\ pc[t] \in {"convert", "load"} /\ faults < MaxFaults
    /\ faults' = faults + 1
    /\ \/ loaded' = loaded
       \/ /\ pc[t] = "load"
          /\ loaded' = [u \in Updates |-> IF u \in parquet[t] THEN loaded[u] + 1 ELSE loaded[u]]
    /\ Move(t, "stream")
    /\ exists' = TRUE
    /\ parquet' = [parquet EXCEPT ![t] = {}]
    /\ Goto(t, "idle")
    /\ UNCHANGED <<pending, late, lost, item, crashes>>

\* The except clause: the batch stays in staging, where nothing looks again.
\* The database may have taken the rows before the error came back, and a batch
\* that was loaded may fail to be archived.
FlushFails(t) ==
    /\ pc[t] \in {"convert", "load", "archive"} /\ faults < MaxFaults
    /\ faults' = faults + 1
    /\ \/ loaded' = loaded
       \/ /\ pc[t] = "load"
          /\ loaded' = [u \in Updates |-> IF u \in parquet[t] THEN loaded[u] + 1 ELSE loaded[u]]
    /\ Move(t, "staging")
    /\ parquet' = [parquet EXCEPT ![t] = {}]
    /\ Goto(t, "idle")
    /\ UNCHANGED <<pending, exists, late, lost, item, crashes>>

\* The batch and its Parquet file go to the archive folder.
Archive(t) ==
    /\ pc[t] = "archive"
    /\ Move(t, "archive")
    /\ parquet' = [parquet EXCEPT ![t] = {}]
    /\ Goto(t, "idle")
    /\ UNCHANGED <<pending, exists, late, loaded, lost, item, faults, crashes>>

\* The process dies; files stay, memory and unwritten lines do not.  What a
\* flush had staged joins the abandoned batches.
Crash ==
    /\ crashes < MaxCrashes
    /\ crashes' = crashes + 1
    /\ lost' = lost \cup {item[t] : t \in {x \in Threads : pc[x] \in {"open", "write"}}}
    /\ content' = [f \in Files |->
                    IF f = "staging" THEN content["staging"] \cup UNION {content[t] : t \in Flushers}
                    ELSE IF f \in Flushers THEN {} ELSE content[f]]
    /\ parquet' = [t \in Flushers |-> {}]
    /\ pc' = [t \in Threads |-> "idle"]
    /\ item' = [t \in Threads |-> "none"] /\ file' = [t \in Threads |-> "stream"]
    /\ UNCHANGED <<pending, exists, late, loaded, faults>>

-----------------------------------------------------------------------------
Append(t) == OpenStream(t) \/ WriteLine(t) \/ AppendFails(t)
Flush(t) ==
    \/ CheckStream(t) \/ Rotate(t) \/ Convert(t)
    \/ Load(t) \/ FlushFails(t) \/ Archive(t)

Next ==
    \/ \E t \in Appenders, u \in Updates : Accept(t, u)
    \/ \E t \in Appenders : Append(t)
    \/ \E t \in Flushers : Flush(t)
    \/ Crash

\* The scheduler runs its jobs again and again, and no thread stops half-way.
\* Nothing obliges the store to accept another update.
Fairness ==
    /\ \A t \in Appenders : WF_vars(Append(t))
    /\ \A t \in Flushers : WF_vars(Flush(t))

Spec == Init /\ [][Next]_vars /\ Fairness

-----------------------------------------------------------------------------
\* Threads that have accepted update u and not written it yet
Holders(u) == {t \in Threads : item[t] = u}

\* An accepted update is in exactly one file, or still held by one thread, or
\* its own append has failed or was cut short by a death: nothing else (no
\* interleaving of StateSink.append with _rotate_and_stage, of two flushes, no
\* failed load and no death later on) drops or doubles a line.
InOneFile ==
    \A u \in Updates :
        Cardinality({f \in Files : u \in content[f]}) + Cardinality(Holders(u))
            = IF u \in pending \cup lost THEN 0 ELSE 1

\* No update is loaded twice, though two jobs flush, a load may fail after the
\* rows were taken, and the process may die between load and archive; and an
\* archived update is in the database, except one whose append was under way
\* when its batch was read (append holds no lock against flush_to_db).
ArchivedLoadedOnce ==
    /\ \A u \in Updates : loaded[u] <= 1
    /\ \A u \in content["archive"] : loaded[u] > 0 \/ u \in late

\* Accepted, and not yet in a batch.
Waiting(u) == u \in content["stream"] \/ Holders(u) # {}

\* While nothing fails, every accepted update is loaded in the end, unless its
\* append came too late for its batch; and once the failures are over, so is
\* every update that is not in a batch yet: the batches that had failed do not
\* hold up the stream.  (They themselves are never loaded.)
EventuallyLoaded ==
    /\ [](faults = 0 /\ crashes = 0) =>
          \A u \in Updates : u \notin pending ~> loaded[u] > 0 \/ u \in late
    /\ \A u \in Updates :
          Waiting(u) /\ faults = MaxFaults /\ crashes = MaxCrashes ~>
              loaded[u] > 0 \/ u \in late
=============================================================================
