----------------------------- MODULE RunFolders -----------------------------
(***************************************************************************)
(* The files of a run: the seed of its configuration, its folder (ACTIVE   *)
(* or FAILED) with manifest and configuration, and its data vault; and     *)
(* those who work on them at the same time: the engine that provisions and *)
(* cleans up, workers that update the manifest by reading and replacing    *)
(* it, and the janitor that an operator calls from another process.        *)
(*                                                                         *)
(* A manifest is [kind, step]: none, bad (not to be decoded, which takes   *)
(* someone else to bring about) or good.                                   *)
(***************************************************************************)
EXTENDS Naturals, FiniteSets

CONSTANTS
    Runs,
    Dates,          \* the partition dates a run may have
    MaxStarts,      \* bound: provisionings of all runs
    MaxCalls        \* bound: calls of the janitor

FolderAssumption == 0 \notin Runs /\ MaxStarts \in Nat /\ MaxCalls \in Nat

VARIABLES
    date,           \* [Runs -> Dates]
    seed,           \* runs whose configuration lies in the root of ACTIVE
    folder,         \* [Runs -> [category -> [there, manifest, config, below]]]
    vault,          \* [Runs -> steps with data]
    queued,         \* runs handed to the task queue
    worker,         \* [Runs -> [at, home, step]]
    janitor,        \* call under way: [op, todo, run]
    lock,           \* the lock file exists
    starts, calls,
    made,           \* history: [Runs -> steps that have saved data since data of the date were removed]
    asked           \* history: runs that were to be removed

foVars == <<date, seed, folder, vault, queued, worker, janitor, lock, starts, calls, made, asked>>

Categories == {"ACTIVE", "FAILED"}
Steps == {"extract", "write"}

NoManifest == [kind |-> "none", step |-> "start"]
Skeleton == [kind |-> "good", step |-> "start"]
Nowhere == [there |-> FALSE, manifest |-> NoManifest, config |-> FALSE, below |-> FALSE]
Off == [at |-> "off", home |-> "ACTIVE", step |-> "start"]
Resting == [op |-> "none", todo |-> {}, run |-> 0]

Folder(r, c) == folder[r][c]
SameDate(r) == {s \in Runs : date[s] = date[r]}

Put(f, r, c, new) == [f EXCEPT ![r][c] = new]

-----------------------------------------------------------------------------
(* TaskWorkspace and TaskManifestFile, on a state f of the folders *)

\* shutil.move: onto itself it does nothing; into a folder that exists it goes
\* below that folder, where nothing looks for it.
Relocate(f, r, from, to) ==
    IF from = to THEN f
    ELSE IF f[r][to].there
    THEN Put(Put(f, r, to, [f[r][to] EXCEPT !.below = @ \/ f[r][from].config]), r, from, Nowhere)
    ELSE Put(Put(f, r, to, f[r][from]), r, from, Nowhere)

\* load of a workspace: what it returns, where the workspace is afterwards and
\* the folders it leaves.
Load(f, r, c) ==
    CASE f[r][c].manifest.kind = "good" ->
           [got |-> f[r][c].manifest, home |-> c, folder |-> f]
      [] f[r][c].manifest.kind = "none" -> [got |-> Skeleton, home |-> c, folder |-> f]
      [] OTHER -> [got |-> Skeleton, home |-> "FAILED", folder |-> Relocate(f, r, c, "FAILED")]

\* save makes the folder if it has to.
Save(f, r, c, manifest) ==
    Put(f, r, c, [f[r][c] EXCEPT !.there = TRUE, !.manifest = manifest])

\* Task.from_path fails on a manifest that is missing or bad.
FromPath(r, c) == folder[r][c].manifest.kind = "good"

-----------------------------------------------------------------------------
(* The engine *)

\* start_job: the configuration is written as a seed and moved into the
\* folder, unless there is one.
StartJob(r) ==
    /\ starts < MaxStarts /\ starts' = starts + 1
    /\ lock' = TRUE
    /\ folder' = Put(folder, r, "ACTIVE", [Folder(r, "ACTIVE") EXCEPT !.there = TRUE, !.config = TRUE])
    /\ seed' = IF Folder(r, "ACTIVE").config THEN seed \cup {r} ELSE seed \ {r}
    /\ queued' = queued \cup {r}
    /\ asked' = asked \ {r}
    /\ UNCHANGED <<date, vault, worker, janitor, calls, made>>

\* Defect: the parent of the date goes, too.
EveryDate(r) == Runs

\* The folder that delete computes for the data of a run is its date's.
DataRoot(r) == SameDate(r)

DropFolder(r) ==
    /\ folder' = Put(folder, r, "ACTIVE", Nowhere)
    /\ seed' = seed \ {r}
    /\ asked' = asked \cup {r}

DropVault(r) ==
    /\ vault' = [s \in Runs |-> IF s \in DataRoot(r) THEN {} ELSE vault[s]]
    /\ made' = [s \in Runs |-> IF s \in SameDate(r) THEN {} ELSE made[s]]

\* A run that succeeded is cleaned up; without its configuration it cannot be.
Succeeded(r) ==
    /\ worker[r].at = "over"
    /\ worker' = [worker EXCEPT ![r] = Off]
    /\ IF FromPath(r, "ACTIVE") /\ Folder(r, "ACTIVE").config
       THEN DropFolder(r) /\ DropVault(r)
       ELSE UNCHANGED <<folder, seed, asked, vault, made>>
    /\ UNCHANGED <<date, queued, janitor, lock, starts, calls>>

-----------------------------------------------------------------------------
(* A worker *)

\* execute_stage: a manifest is made if there is none.
Begin(r) ==
    /\ r \in queued /\ worker[r].at = "off"
    /\ queued' = queued \ {r}
    /\ \E s \in Steps :
         LET fresh == Folder(r, "ACTIVE").manifest.kind = "none"
             found == Load(folder, r, "ACTIVE")
         IN /\ folder' = IF fresh THEN Save(folder, r, "ACTIVE", [kind |-> "good", step |-> s])
                         ELSE found.folder
            /\ worker' = [worker EXCEPT ![r] = [at |-> "work", home |-> found.home, step |-> s]]
    /\ UNCHANGED <<date, seed, vault, janitor, lock, starts, calls, made, asked>>

\* The session needs the folder, the step its configuration; the data are
\* written before the manifest.
Work(r) ==
    /\ worker[r].at = "work"
    /\ IF Folder(r, "ACTIVE").there /\ Folder(r, "ACTIVE").config
       THEN /\ vault' = [vault EXCEPT ![r] = @ \cup {worker[r].step}]
            /\ made' = [made EXCEPT ![r] = @ \cup {worker[r].step}]
       ELSE UNCHANGED <<vault, made>>
    /\ worker' = [worker EXCEPT ![r].at = "load"]
    /\ UNCHANGED <<date, seed, folder, queued, janitor, lock, starts, calls, asked>>

LoadManifest(r) ==
    /\ worker[r].at = "load"
    /\ LET found == Load(folder, r, worker[r].home) IN
       /\ folder' = found.folder
       /\ worker' = [worker EXCEPT ![r].at = "save", ![r].home = found.home]
    /\ UNCHANGED <<date, seed, vault, queued, janitor, lock, starts, calls, made, asked>>

\* What was loaded is merged and written, whatever happened since.
SaveManifest(r) ==
    /\ worker[r].at = "save"
    /\ folder' = Save(folder, r, worker[r].home, [kind |-> "good", step |-> worker[r].step])
    /\ worker' = [worker EXCEPT ![r].at = IF worker[r].step = "write" THEN "over" ELSE "off"]
    /\ UNCHANGED <<date, seed, vault, queued, janitor, lock, starts, calls, made, asked>>

\* A manifest that an older or newer version, or a person, has written.
Corrupt(r) ==
    /\ Folder(r, "ACTIVE").manifest.kind = "good"
    /\ folder' = [folder EXCEPT ![r]["ACTIVE"].manifest.kind = "bad"]
    /\ UNCHANGED <<date, seed, vault, queued, worker, janitor, lock, starts, calls, made, asked>>

-----------------------------------------------------------------------------
(* The operator: clean and resume *)

Call == calls < MaxCalls /\ calls' = calls + 1 /\ janitor = Resting

\* Purge of one run, in whichever folder it is.  --dry-run is not passed on,
\* and the active tasks of this process are none.
PurgeRun(r) ==
    /\ Call
    /\ janitor' = [op |-> "purge", run |-> 0,
                   todo |-> {<<r, c>> : c \in {d \in Categories : Folder(r, d).manifest.kind # "none"}}]
    /\ UNCHANGED <<date, seed, folder, vault, queued, worker, lock, starts, made, asked>>

\* Folders of ACTIVE that are old or expired; an option cannot be switched off,
\* so that FAILED is never swept.
PurgeTasks ==
    /\ Call
    /\ \E old \in SUBSET Runs :
         janitor' = [op |-> "sweep", run |-> 0,
                     todo |-> {<<r, "ACTIVE">> : r \in {s \in old : Folder(s, "ACTIVE").config}}]
    /\ UNCHANGED <<date, seed, folder, vault, queued, worker, lock, starts, made, asked>>

Purging == janitor.op \in {"purge", "sweep"} /\ janitor.run = 0

\* A folder whose manifest is bad is not purged, nor one whose configuration
\* is not in ACTIVE.  An expired run is marked before it is removed.
PurgeFolder(r, c) ==
    /\ Purging /\ <<r, c>> \in janitor.todo
    /\ IF FromPath(r, c)
       THEN LET found == Load(folder, r, "ACTIVE")
                marked == IF janitor.op = "sweep"
                          THEN Save(found.folder, r, found.home, found.got) ELSE found.folder
            IN IF marked[r]["ACTIVE"].config
               THEN DropFolder(r) /\ janitor' = [janitor EXCEPT !.todo = @ \ {<<r, c>>}, !.run = r]
               ELSE /\ folder' = marked /\ janitor' = [janitor EXCEPT !.todo = @ \ {<<r, c>>}]
                    /\ UNCHANGED <<seed, asked>>
       ELSE janitor' = [janitor EXCEPT !.todo = @ \ {<<r, c>>}] /\ UNCHANGED <<folder, seed, asked>>
    /\ UNCHANGED <<date, vault, queued, worker, lock, starts, calls, made>>

PurgeData ==
    /\ janitor.run # 0
    /\ DropVault(janitor.run)
    /\ janitor' = [janitor EXCEPT !.run = 0]
    /\ UNCHANGED <<date, seed, folder, queued, worker, lock, starts, calls, asked>>

EndPurge ==
    /\ Purging /\ janitor.todo = {}
    /\ janitor' = Resting
    /\ UNCHANGED <<date, seed, folder, vault, queued, worker, lock, starts, calls, made, asked>>

\* clean --all looks at the lock file, then asks, then removes.
AskToWipe ==
    /\ Call /\ ~lock
    /\ janitor' = [Resting EXCEPT !.op = "wipe"]
    /\ UNCHANGED <<date, seed, folder, vault, queued, worker, lock, starts, made, asked>>

WipeWorkspace ==
    /\ janitor.op = "wipe"
    /\ janitor' = Resting
    /\ \/ UNCHANGED <<seed, folder, vault, lock, asked, made>>
       \/ /\ folder' = [r \in Runs |-> [c \in Categories |-> Nowhere]]
          /\ seed' = {} /\ vault' = [r \in Runs |-> {}] /\ made' = vault'
          /\ lock' = FALSE /\ asked' = Runs
    /\ UNCHANGED <<date, queued, worker, starts, calls>>

\* Defect: the folder is moved to where it was found.
MovedBack(f, r, c) == Put(f, r, IF c = "ACTIVE" THEN "FAILED" ELSE "ACTIVE", f[r][c])

\* relocate("ACTIVE") of a workspace that was made for ACTIVE.
BackToActive(f, r, c) == Relocate(f, r, "ACTIVE", "ACTIVE")

\* resume finds some folder of that name, which may be in the vault (where
\* from_path fails).  The manifest is looked for in ACTIVE, wherever the folder
\* was found.
RecoverTask(r, c) ==
    /\ Call /\ UNCHANGED janitor
    /\ Folder(r, c).there
    /\ IF FromPath(r, c)
       THEN LET found == Load(folder, r, "ACTIVE")
                saved == Save(found.folder, r, found.home, found.got)
            IN folder' = BackToActive(saved, r, c) /\ queued' = queued \cup {r}
       ELSE UNCHANGED <<folder, queued>>
    /\ UNCHANGED <<date, seed, vault, worker, lock, starts, made, asked>>

Init ==
    /\ date \in [Runs -> Dates]
    /\ seed = {} /\ queued = {} /\ asked = Runs
    /\ folder = [r \in Runs |-> [c \in Categories |-> Nowhere]]
    /\ vault = [r \in Runs |-> {}] /\ made = [r \in Runs |-> {}]
    /\ worker = [r \in Runs |-> Off]
    /\ janitor = Resting /\ lock = FALSE
    /\ starts = 0 /\ calls = 0

Next ==
    \/ \E r \in Runs :
         \/ StartJob(r) \/ Succeeded(r) \/ Begin(r) \/ Work(r) \/ LoadManifest(r) \/ SaveManifest(r)
         \/ Corrupt(r) \/ PurgeRun(r)
         \/ \E c \in Categories : PurgeFolder(r, c) \/ RecoverTask(r, c)
    \/ PurgeTasks \/ PurgeData \/ EndPurge \/ AskToWipe \/ WipeWorkspace

-----------------------------------------------------------------------------
Configured(r) == {c \in Categories : Folder(r, c).config \/ Folder(r, c).below}

\* A run nobody has removed keeps its configuration in a folder (or in one
\* below that of an earlier quarantine), and the data its steps have saved stay until those of its date are removed, whatever
\* workers, purges and recoveries of other runs do meanwhile; a folder of
\* ACTIVE without configuration is one that was removed under a worker's
\* hands, or the shadow of a run that is quarantined in FAILED.
KeptUntilRemoved ==
    \A r \in Runs :
      /\ r \notin asked => Configured(r) # {}
      /\ made[r] \subseteq vault[r]
      /\ (Folder(r, "ACTIVE").there /\ ~Folder(r, "ACTIVE").config) =>
            r \in asked \/ "FAILED" \in Configured(r)
=============================================================================
