--------------------------- MODULE StorageProofs ----------------------------
(***************************************************************************)
(* What holds of the parts that keep files, rows and entries, for every    *)
(* value of their constants: the folders of the runs, the transform step,  *)
(* the caches, the extract step, the target table of a dataset, the hooks  *)
(* of a step.                                                              *)
(***************************************************************************)
EXTENDS CoreUnits, FiniteSetTheorems, SequenceTheorems, WellFoundedInduction, TLAPS

-----------------------------------------------------------------------------
(* RunFolders *)

Manifests == [kind : {"none", "bad", "good"}, step : FO!Steps \cup {"start"}]
Places == [there : BOOLEAN, manifest : Manifests, config : BOOLEAN, below : BOOLEAN]
Homes == [FO!Categories -> Places]

\* A folder that does not exist is empty, and nothing is ever moved below a
\* folder of ACTIVE.
Sound(g) ==
    /\ \A c \in FO!Categories : ~g[c].there => ~g[c].config /\ ~g[c].below
    /\ ~g["ACTIVE"].below

InFailed(g) == g["FAILED"].config \/ g["FAILED"].below

\* The configuration is somewhere, and ACTIVE without it is a shadow.
Safe(g) ==
    /\ g["ACTIVE"].config \/ InFailed(g)
    /\ g["ACTIVE"].there /\ ~g["ACTIVE"].config => InFailed(g)

FolderType ==
    /\ folder \in [Runs -> Homes]
    /\ worker \in [Runs -> [at : {"off", "work", "load", "save", "over"}, home : FO!Categories,
                            step : FO!Steps \cup {"start"}]]
    /\ vault \in [Runs -> SUBSET (FO!Steps \cup {"start"})]
    /\ made \in [Runs -> SUBSET (FO!Steps \cup {"start"})]

FolderInv ==
    /\ FolderType
    /\ \A r \in Runs : Sound(folder[r]) /\ (r \notin asked => Safe(folder[r]))
    /\ \A r \in Runs : made[r] \subseteq vault[r]

\* A change g of the folders of run r that keeps them sound, and safe if they were.
Keeps(f, g, r) ==
    /\ g \in [Runs -> Homes]
    /\ \A s \in Runs : s # r => g[s] = f[s]
    /\ Sound(g[r]) /\ (Safe(f[r]) => Safe(g[r]))

LEMMA PutKeeps ==
    ASSUME NEW f \in [Runs -> Homes], NEW r \in Runs, NEW c \in FO!Categories, NEW p \in Places
    PROVE  /\ FO!Put(f, r, c, p) \in [Runs -> Homes]
           /\ \A s \in Runs : s # r => FO!Put(f, r, c, p)[s] = f[s]
           /\ FO!Put(f, r, c, p)[r][c] = p
           /\ \A d \in FO!Categories : d # c => FO!Put(f, r, c, p)[r][d] = f[r][d]
BY DEF FO!Put, Homes

LEMMA PlaceTypes ==
    /\ FO!Nowhere \in Places /\ FO!NoManifest \in Manifests /\ FO!Skeleton \in Manifests
    /\ FO!Categories = {"ACTIVE", "FAILED"}
<1>1. FO!NoManifest \in Manifests /\ FO!Skeleton \in Manifests
  BY DEF FO!NoManifest, FO!Skeleton, Manifests
<1>2. FO!Nowhere \in Places
  BY <1>1 DEF FO!Nowhere, Places
<1> QED
  BY <1>1, <1>2 DEF FO!Categories

\* Saving a manifest makes a folder that has no configuration only where it
\* is in FAILED.
LEMMA SaveKeeps ==
    ASSUME NEW f \in [Runs -> Homes], NEW r \in Runs, NEW c \in FO!Categories,
           NEW man \in Manifests, Sound(f[r])
    PROVE  Keeps(f, FO!Save(f, r, c, man), r)
<1> DEFINE p == [f[r][c] EXCEPT !.there = TRUE, !.manifest = man]
           g == FO!Put(f, r, c, p)
<1>1. f[r][c] \in Places /\ f[r]["ACTIVE"] \in Places /\ f[r]["FAILED"] \in Places
  BY PlaceTypes DEF Homes
<1>2. p \in Places /\ p.there /\ p.config = f[r][c].config /\ p.below = f[r][c].below
  BY <1>1 DEF Places
<1> HIDE DEF p
<1>3. /\ g \in [Runs -> Homes]
      /\ \A s \in Runs : s # r => g[s] = f[s]
      /\ g[r][c] = p
      /\ \A d \in FO!Categories : d # c => g[r][d] = f[r][d]
  BY <1>2, PutKeeps
<1> HIDE DEF g
<1>4. \A d \in FO!Categories : g[r][d].config = f[r][d].config /\ g[r][d].below = f[r][d].below
                               /\ (f[r][d].there => g[r][d].there)
  BY <1>2, <1>3
<1>5. Sound(g[r])
  BY <1>2, <1>3, <1>4, PlaceTypes DEF Sound
<1>6. Safe(f[r]) => Safe(g[r])
  BY <1>4, PlaceTypes DEF Safe, InFailed
<1>7. g = FO!Save(f, r, c, man)
  BY DEF g, p, FO!Save
<1> QED
  BY <1>3, <1>5, <1>6, <1>7 DEF Keeps

\* Loading a manifest moves the folder to FAILED at most.
LEMMA LoadKeeps ==
    ASSUME NEW f \in [Runs -> Homes], NEW r \in Runs, NEW c \in FO!Categories, Sound(f[r])
    PROVE  /\ Keeps(f, FO!Load(f, r, c).folder, r)
           /\ FO!Load(f, r, c).home \in FO!Categories /\ FO!Load(f, r, c).got \in Manifests
<1> DEFINE a == f[r]["ACTIVE"]
           b == f[r]["FAILED"]
           k == f[r][c].manifest.kind
<1>1. a \in Places /\ b \in Places /\ f[r][c] \in Places /\ f[r][c].manifest \in Manifests
  BY PlaceTypes DEF Homes, Places
<1>2. Keeps(f, f, r)
  BY DEF Keeps
<1>3. CASE k = "good"
  <2>1. FO!Load(f, r, c) = [got |-> f[r][c].manifest, home |-> c, folder |-> f]
    BY <1>3 DEF FO!Load
  <2> QED
    BY <1>1, <1>2, <2>1
<1>4. CASE k = "none"
  <2>1. FO!Load(f, r, c) = [got |-> FO!Skeleton, home |-> c, folder |-> f]
    BY <1>4 DEF FO!Load
  <2> QED
    BY <1>2, <2>1, PlaceTypes
<1>5. CASE k # "good" /\ k # "none"
  <2> DEFINE g == FO!Relocate(f, r, c, "FAILED")
  <2>1. FO!Load(f, r, c) = [got |-> FO!Skeleton, home |-> "FAILED", folder |-> g]
    BY <1>5 DEF FO!Load
  <2>2. Keeps(f, g, r)
    <3>1. CASE c = "FAILED"
      BY <1>2, <3>1 DEF FO!Relocate
    <3>2. CASE c = "ACTIVE"
      <4> DEFINE p == IF b.there THEN [b EXCEPT !.below = b.below \/ a.config] ELSE a
                 h == FO!Put(f, r, "FAILED", p)
      <4>1. g = FO!Put(h, r, "ACTIVE", FO!Nowhere)
        BY <3>2 DEF FO!Relocate
      <4>2. p \in Places /\ (a.config => p.config \/ p.below) /\ (InFailed(f[r]) => p.config \/ p.below)
            /\ (~p.there => ~p.config /\ ~p.below)
        <5>1. CASE b.there
          <6>1. p = [b EXCEPT !.below = b.below \/ a.config]
            BY <5>1
          <6>2. p \in Places /\ p.there = b.there /\ p.config = b.config /\ p.below = (b.below \/ a.config)
            BY <1>1, <6>1 DEF Places
          <6> QED
            BY <5>1, <6>2 DEF InFailed
        <5>2. CASE ~b.there
          <6>1. p = a /\ ~b.config /\ ~b.below
            BY <5>2, PlaceTypes DEF Sound
          <6> QED
            BY <1>1, <6>1, PlaceTypes DEF Sound, InFailed
        <5> QED
          BY <5>1, <5>2
      <4> HIDE DEF p
      <4>3. h \in [Runs -> Homes] /\ h[r]["FAILED"] = p /\ \A s \in Runs : s # r => h[s] = f[s]
        BY <4>2, PutKeeps, PlaceTypes
      <4> HIDE DEF h
      <4>4. /\ g \in [Runs -> Homes] /\ \A s \in Runs : s # r => g[s] = h[s]
            /\ g[r]["ACTIVE"] = FO!Nowhere /\ g[r]["FAILED"] = h[r]["FAILED"]
        BY <4>1, <4>3, PutKeeps, PlaceTypes
      <4> HIDE DEF g
      <4>5. ~FO!Nowhere.there /\ ~FO!Nowhere.config /\ ~FO!Nowhere.below
        BY DEF FO!Nowhere
      <4>6. Sound(g[r])
        BY <4>2, <4>3, <4>4, <4>5, PlaceTypes DEF Sound
      <4>7. Safe(f[r]) => Safe(g[r])
        BY <4>2, <4>3, <4>4, <4>5 DEF Safe, InFailed
      <4> QED
        BY <4>3, <4>4, <4>6, <4>7 DEF Keeps
    <3> QED
      BY <3>1, <3>2, PlaceTypes
  <2> QED
    BY <2>1, <2>2, PlaceTypes
<1> QED
  BY <1>3, <1>4, <1>5

LEMMA KeepsBoth ==
    ASSUME NEW f, NEW g, NEW h, NEW r \in Runs, Keeps(f, g, r), Keeps(g, h, r)
    PROVE  Keeps(f, h, r)
BY DEF Keeps

LEMMA InitFolders ==
    ASSUME FO!Init
    PROVE  FolderInv
<1>1. FO!Off \in [at : {"off", "work", "load", "save", "over"}, home : FO!Categories,
                  step : FO!Steps \cup {"start"}]
  BY PlaceTypes DEF FO!Off
<1>2. FolderType
  BY <1>1, PlaceTypes DEF FO!Init, FolderType, Homes
<1>3. \A r \in Runs, c \in FO!Categories : folder[r][c] = FO!Nowhere
  BY DEF FO!Init
<1>4. \A r \in Runs : Sound(folder[r])
  BY <1>3, PlaceTypes DEF Sound, FO!Nowhere
<1> QED
  BY <1>2, <1>4 DEF FO!Init, FolderInv

\* A step that changes the folders of one run and removes nothing.
LEMMA FolderStep ==
    ASSUME FolderInv, NEW r \in Runs, Keeps(folder, folder', r),
           worker' \in [Runs -> [at : {"off", "work", "load", "save", "over"}, home : FO!Categories,
                                 step : FO!Steps \cup {"start"}]],
           UNCHANGED <<vault, made, asked>>
    PROVE  FolderInv'
<1>1. FolderType'
  BY DEF FolderInv, FolderType, Keeps, FO!Steps
<1>2. \A s \in Runs : Sound(folder'[s]) /\ (s \notin asked' => Safe(folder'[s]))
  BY DEF FolderInv, Keeps
<1>3. (\A s \in Runs : Sound(folder[s]) /\ (s \notin asked => Safe(folder[s])))'
  BY <1>2 DEF Sound, Safe, InFailed, FO!Categories
<1> QED
  BY <1>1, <1>3 DEF FolderInv

\* The folder of a run is removed, which somebody asked for.
LEMMA DropKeepsFolders ==
    ASSUME FolderInv, NEW r \in Runs, FO!DropFolder(r)
    PROVE  /\ folder' \in [Runs -> Homes]
           /\ \A s \in Runs : Sound(folder'[s]) /\ (s \notin asked' => Safe(folder'[s]))
<1>1. folder' = FO!Put(folder, r, "ACTIVE", FO!Nowhere) /\ asked' = asked \cup {r}
  BY DEF FO!DropFolder
<1>2. folder \in [Runs -> Homes]
  BY DEF FolderInv, FolderType
<1>3. /\ folder' \in [Runs -> Homes]
      /\ \A s \in Runs : s # r => folder'[s] = folder[s]
      /\ folder'[r]["ACTIVE"] = FO!Nowhere
      /\ folder'[r]["FAILED"] = folder[r]["FAILED"]
  BY <1>1, <1>2, PutKeeps, PlaceTypes
<1>4. Sound(folder'[r])
  BY <1>3, PlaceTypes DEF FolderInv, Sound, FO!Nowhere
<1> QED
  BY <1>1, <1>3, <1>4 DEF FolderInv

\* The data of a date go together with the record of having been made.
LEMMA DropKeepsVaults ==
    ASSUME FolderInv, NEW r, FO!DropVault(r)
    PROVE  /\ vault' \in [Runs -> SUBSET (FO!Steps \cup {"start"})]
           /\ made' \in [Runs -> SUBSET (FO!Steps \cup {"start"})]
           /\ \A s \in Runs : made'[s] \subseteq vault'[s]
<1>1. FO!DataRoot(r) = FO!SameDate(r)
  BY DEF FO!DataRoot
<1> QED
  BY <1>1 DEF FO!DropVault, FolderInv, FolderType

LEMMA EngineKeepsFolders ==
    ASSUME FolderInv, NEW r \in Runs, FO!StartJob(r) \/ FO!Succeeded(r)
    PROVE  FolderInv'
<1>1. CASE FO!StartJob(r)
  <2> DEFINE p == [folder[r]["ACTIVE"] EXCEPT !.there = TRUE, !.config = TRUE]
  <2>1. /\ folder' = FO!Put(folder, r, "ACTIVE", p) /\ asked' = asked \ {r}
        /\ UNCHANGED <<vault, worker, made>>
    BY <1>1 DEF FO!StartJob, FO!Folder
  <2>2. folder \in [Runs -> Homes] /\ folder[r]["ACTIVE"] \in Places
    BY PlaceTypes DEF FolderInv, FolderType, Homes
  <2>3. p \in Places /\ p.there /\ p.config /\ p.below = folder[r]["ACTIVE"].below
    BY <2>2 DEF Places
  <2> HIDE DEF p
  <2>4. /\ folder' \in [Runs -> Homes]
        /\ \A s \in Runs : s # r => folder'[s] = folder[s]
        /\ folder'[r]["ACTIVE"] = p
        /\ folder'[r]["FAILED"] = folder[r]["FAILED"]
    BY <2>1, <2>2, <2>3, PutKeeps, PlaceTypes
  <2>5. Sound(folder'[r]) /\ Safe(folder'[r])
    BY <2>3, <2>4, PlaceTypes DEF FolderInv, Sound, Safe
  <2>6. \A s \in Runs : Sound(folder'[s]) /\ (s \notin asked' => Safe(folder'[s]))
    BY <2>1, <2>4, <2>5 DEF FolderInv
  <2>7. FolderType'
    BY <2>1, <2>4 DEF FolderInv, FolderType
  <2> QED
    BY <2>1, <2>6, <2>7 DEF FolderInv, Sound, Safe, InFailed, FO!Categories
<1>2. CASE FO!Succeeded(r)
  <2>1. worker' \in [Runs -> [at : {"off", "work", "load", "save", "over"}, home : FO!Categories,
                              step : FO!Steps \cup {"start"}]]
    BY <1>2, PlaceTypes DEF FO!Succeeded, FO!Off, FolderInv, FolderType
  <2>2. CASE FO!DropFolder(r) /\ FO!DropVault(r)
    <3>1. /\ folder' \in [Runs -> Homes]
          /\ \A s \in Runs : Sound(folder'[s]) /\ (s \notin asked' => Safe(folder'[s]))
      BY <2>2, DropKeepsFolders
    <3>2. /\ vault' \in [Runs -> SUBSET (FO!Steps \cup {"start"})]
          /\ made' \in [Runs -> SUBSET (FO!Steps \cup {"start"})]
          /\ \A s \in Runs : made'[s] \subseteq vault'[s]
      BY <2>2, DropKeepsVaults
    <3>3. FolderType'
      BY <2>1, <3>1, <3>2 DEF FolderType
    <3> QED
      BY <3>1, <3>2, <3>3 DEF FolderInv, Sound, Safe, InFailed, FO!Categories
  <2>3. CASE UNCHANGED <<folder, seed, asked, vault, made>>
    <3>1. FolderType'
      BY <2>1, <2>3 DEF FolderInv, FolderType
    <3> QED
      BY <2>3, <3>1 DEF FolderInv, Sound, Safe, InFailed, FO!Categories
  <2> QED
    BY <1>2, <2>2, <2>3 DEF FO!Succeeded
<1> QED
  BY <1>1, <1>2

\* A step that leaves folders and data alone.
LEMMA FoldersRest ==
    ASSUME FolderInv, UNCHANGED <<folder, worker, vault, made, asked>>
    PROVE  FolderInv'
<1>1. FolderType'
  BY DEF FolderInv, FolderType
<1> QED
  BY <1>1 DEF FolderInv, Sound, Safe, InFailed, FO!Categories

LEMMA WorkerKeepsFolders ==
    ASSUME FolderInv, NEW r \in Runs,
           FO!Begin(r) \/ FO!Work(r) \/ FO!LoadManifest(r) \/ FO!SaveManifest(r) \/ FO!Corrupt(r)
    PROVE  FolderInv'
<1> DEFINE State == [at : {"off", "work", "load", "save", "over"}, home : FO!Categories,
                     step : FO!Steps \cup {"start"}]
<1>1. folder \in [Runs -> Homes] /\ worker \in [Runs -> State] /\ Sound(folder[r])
  BY DEF FolderInv, FolderType
<1>2. worker[r] \in State /\ folder[r]["ACTIVE"] \in Places
  BY <1>1, PlaceTypes DEF Homes
<1>3. "ACTIVE" \in FO!Categories
  BY PlaceTypes
<1>4. CASE FO!Begin(r)
  <2> DEFINE found == FO!Load(folder, r, "ACTIVE")
             fresh == FO!Folder(r, "ACTIVE").manifest.kind = "none"
  <2>1. PICK step \in FO!Steps :
          /\ folder' = IF fresh THEN FO!Save(folder, r, "ACTIVE", [kind |-> "good", step |-> step])
                       ELSE found.folder
          /\ worker' = [worker EXCEPT ![r] = [at |-> "work", home |-> found.home, step |-> step]]
    BY <1>4 DEF FO!Begin
  <2>2. Keeps(folder, found.folder, r) /\ found.home \in FO!Categories
    BY <1>1, <1>3, LoadKeeps
  <2> HIDE DEF found
  <2>3. [kind |-> "good", step |-> step] \in Manifests
    BY DEF Manifests
  <2>4. Keeps(folder, FO!Save(folder, r, "ACTIVE", [kind |-> "good", step |-> step]), r)
    BY <1>1, <1>3, <2>3, SaveKeeps
  <2>5. Keeps(folder, folder', r)
    BY <2>1, <2>2, <2>4
  <2>6. [at |-> "work", home |-> found.home, step |-> step] \in State
    BY <2>2
  <2>7. worker' \in [Runs -> State]
    BY <1>1, <2>1, <2>6
  <2>8. UNCHANGED <<vault, made, asked>>
    BY <1>4 DEF FO!Begin
  <2> QED
    BY <2>5, <2>7, <2>8, FolderStep
<1>5. CASE FO!Work(r)
  <2>1. worker' \in [Runs -> State]
    BY <1>1, <1>2, <1>5 DEF FO!Work
  <2>2. worker[r].step \in FO!Steps \cup {"start"}
    BY <1>2
  <2>3. /\ vault' \in [Runs -> SUBSET (FO!Steps \cup {"start"})]
        /\ made' \in [Runs -> SUBSET (FO!Steps \cup {"start"})]
        /\ \A s \in Runs : made'[s] \subseteq vault'[s]
    BY <1>5, <2>2 DEF FO!Work, FolderInv, FolderType
  <2>4. UNCHANGED <<folder, asked>>
    BY <1>5 DEF FO!Work
  <2>5. FolderType'
    BY <1>1, <2>1, <2>3, <2>4 DEF FolderType
  <2> QED
    BY <2>3, <2>4, <2>5 DEF FolderInv, Sound, Safe, InFailed, FO!Categories
<1>6. CASE FO!LoadManifest(r)
  <2> DEFINE found == FO!Load(folder, r, worker[r].home)
  <2>1. /\ folder' = found.folder
        /\ worker' = [worker EXCEPT ![r] = [worker[r] EXCEPT !.at = "save", !.home = found.home]]
        /\ UNCHANGED <<vault, made, asked>>
    BY <1>1, <1>6 DEF FO!LoadManifest
  <2>2. worker[r].home \in FO!Categories
    BY <1>2
  <2>3. Keeps(folder, found.folder, r) /\ found.home \in FO!Categories
    BY <1>1, <2>2, LoadKeeps
  <2> HIDE DEF found
  <2>4. [worker[r] EXCEPT !.at = "save", !.home = found.home] \in State
    BY <1>2, <2>3
  <2>5. worker' \in [Runs -> State]
    BY <1>1, <2>1, <2>4
  <2> QED
    BY <2>1, <2>3, <2>5, FolderStep
<1>7. CASE FO!SaveManifest(r)
  <2> DEFINE man == [kind |-> "good", step |-> worker[r].step]
  <2>1. folder' = FO!Save(folder, r, worker[r].home, man) /\ UNCHANGED <<vault, made, asked>>
    BY <1>7 DEF FO!SaveManifest
  <2>2. worker[r].home \in FO!Categories /\ man \in Manifests
    BY <1>2 DEF Manifests
  <2> HIDE DEF man
  <2>3. Keeps(folder, folder', r)
    BY <1>1, <2>1, <2>2, SaveKeeps
  <2>4. worker' \in [Runs -> State]
    BY <1>1, <1>2, <1>7 DEF FO!SaveManifest
  <2> QED
    BY <2>1, <2>3, <2>4, FolderStep
<1>8. CASE FO!Corrupt(r)
  <2> DEFINE a == folder[r]["ACTIVE"]
             man == [a.manifest EXCEPT !.kind = "bad"]
             p == [a EXCEPT !.manifest = man]
  <2>1. folder' = FO!Put(folder, r, "ACTIVE", p) /\ UNCHANGED <<worker, vault, made, asked>>
    BY <1>1, <1>2, <1>8, PlaceTypes DEF FO!Corrupt, FO!Put, Homes
  <2>2. man \in Manifests
    BY <1>2 DEF Places, Manifests
  <2> HIDE DEF man
  <2>3. p \in Places /\ p.there = a.there /\ p.config = a.config /\ p.below = a.below
    BY <1>2, <2>2 DEF Places
  <2> HIDE DEF p
  <2>4. /\ folder' \in [Runs -> Homes]
        /\ \A s \in Runs : s # r => folder'[s] = folder[s]
        /\ folder'[r]["ACTIVE"] = p
        /\ folder'[r]["FAILED"] = folder[r]["FAILED"]
    BY <1>1, <2>1, <2>3, PutKeeps, PlaceTypes
  <2>5. Sound(folder'[r]) /\ (Safe(folder[r]) => Safe(folder'[r]))
    BY <1>1, <2>3, <2>4, PlaceTypes DEF Sound, Safe, InFailed
  <2>6. Keeps(folder, folder', r)
    BY <2>4, <2>5 DEF Keeps
  <2>7. worker' \in [Runs -> State]
    BY <1>1, <2>1
  <2> QED
    BY <2>1, <2>6, <2>7, FolderStep
<1> QED
  BY <1>4, <1>5, <1>6, <1>7, <1>8

\* A purge moves, marks and removes the folder of the run it is at.
LEMMA PurgeKeepsFolders ==
    ASSUME FolderInv, NEW r \in Runs, NEW c \in FO!Categories, FO!PurgeFolder(r, c)
    PROVE  FolderInv'
<1>0. UNCHANGED <<vault, made, worker>>
  BY DEF FO!PurgeFolder
<1>1. /\ folder \in [Runs -> Homes] /\ Sound(folder[r]) /\ "ACTIVE" \in FO!Categories
      /\ worker' \in [Runs -> [at : {"off", "work", "load", "save", "over"}, home : FO!Categories,
                               step : FO!Steps \cup {"start"}]]
  BY <1>0, PlaceTypes DEF FolderInv, FolderType
<1> DEFINE found == FO!Load(folder, r, "ACTIVE")
           marked == IF janitor.op = "sweep"
                     THEN FO!Save(found.folder, r, found.home, found.got) ELSE found.folder
<1>2. /\ Keeps(folder, found.folder, r)
      /\ found.home \in FO!Categories /\ found.got \in Manifests
  BY <1>1, LoadKeeps
<1>3. Keeps(folder, marked, r)
  <2> HIDE DEF found
  <2>1. Keeps(found.folder, FO!Save(found.folder, r, found.home, found.got), r)
    BY <1>2, SaveKeeps DEF Keeps
  <2> QED
    BY <1>2, <2>1, KeepsBoth
<1>4. CASE FO!DropFolder(r)
  <2>1. /\ folder' \in [Runs -> Homes]
        /\ \A s \in Runs : Sound(folder'[s]) /\ (s \notin asked' => Safe(folder'[s]))
    BY <1>4, DropKeepsFolders
  <2>2. FolderType'
    BY <1>0, <2>1 DEF FolderInv, FolderType
  <2> QED
    BY <1>0, <2>1, <2>2 DEF FolderInv, Sound, Safe, InFailed, FO!Categories
<1>5. CASE folder' = marked /\ UNCHANGED asked
  <2> HIDE DEF marked
  <2> QED
    BY <1>0, <1>1, <1>3, <1>5, FolderStep
<1>6. CASE UNCHANGED <<folder, asked>>
  BY <1>0, <1>6, FoldersRest
<1> QED
  BY <1>4, <1>5, <1>6 DEF FO!PurgeFolder

\* resume saves the manifest it could load.
LEMMA RecoverKeepsFolders ==
    ASSUME FolderInv, NEW r \in Runs, NEW c \in FO!Categories, FO!RecoverTask(r, c)
    PROVE  FolderInv'
<1>0. UNCHANGED <<vault, made, asked, worker>>
  BY DEF FO!RecoverTask
<1>1. /\ folder \in [Runs -> Homes] /\ Sound(folder[r]) /\ "ACTIVE" \in FO!Categories
      /\ worker' \in [Runs -> [at : {"off", "work", "load", "save", "over"}, home : FO!Categories,
                               step : FO!Steps \cup {"start"}]]
  BY <1>0, PlaceTypes DEF FolderInv, FolderType
<1> DEFINE found == FO!Load(folder, r, "ACTIVE")
           saved == FO!Save(found.folder, r, found.home, found.got)
<1>2. /\ Keeps(folder, found.folder, r)
      /\ found.home \in FO!Categories /\ found.got \in Manifests
  BY <1>1, LoadKeeps
<1>3. Keeps(folder, saved, r)
  <2> HIDE DEF found
  <2>1. Keeps(found.folder, saved, r)
    BY <1>2, SaveKeeps DEF Keeps
  <2> QED
    BY <1>2, <2>1, KeepsBoth
<1>4. folder' = saved \/ UNCHANGED folder
  BY DEF FO!RecoverTask, FO!BackToActive, FO!Relocate
<1>5. CASE folder' = saved
  <2> HIDE DEF saved
  <2> QED
    BY <1>0, <1>1, <1>3, <1>5, FolderStep
<1>6. CASE UNCHANGED folder
  BY <1>0, <1>6, FoldersRest
<1> QED
  BY <1>4, <1>5, <1>6

LEMMA WipeKeepsFolders ==
    ASSUME FolderInv, FO!WipeWorkspace
    PROVE  FolderInv'
<1>1. UNCHANGED worker
  BY DEF FO!WipeWorkspace
<1>2. CASE UNCHANGED <<seed, folder, vault, lockFile, asked, made>>
  BY <1>1, <1>2, FoldersRest
<1>3. CASE /\ folder' = [r \in Runs |-> [c \in FO!Categories |-> FO!Nowhere]]
           /\ vault' = [r \in Runs |-> {}] /\ made' = vault' /\ asked' = Runs
  <2>1. FolderType'
    BY <1>1, <1>3, PlaceTypes DEF FolderInv, FolderType, Homes
  <2>2. \A r \in Runs, c \in FO!Categories : folder'[r][c] = FO!Nowhere
    BY <1>3
  <2>3. \A r \in Runs : Sound(folder'[r])
    BY <2>2, PlaceTypes DEF Sound, FO!Nowhere
  <2> QED
    BY <1>3, <2>1, <2>3 DEF FolderInv, Sound, Safe, InFailed, FO!Categories
<1> QED
  BY <1>2, <1>3 DEF FO!WipeWorkspace

\* The data of the run whose folder is gone.
LEMMA DataKeepsFolders ==
    ASSUME FolderInv, FO!PurgeData
    PROVE  FolderInv'
<1>1. FO!DropVault(janitor.run) /\ UNCHANGED <<folder, worker, asked>>
  BY DEF FO!PurgeData
<1>2. /\ vault' \in [Runs -> SUBSET (FO!Steps \cup {"start"})]
      /\ made' \in [Runs -> SUBSET (FO!Steps \cup {"start"})]
      /\ \A s \in Runs : made'[s] \subseteq vault'[s]
  BY <1>1, DropKeepsVaults
<1>3. FolderType'
  BY <1>1, <1>2 DEF FolderInv, FolderType
<1> QED
  BY <1>1, <1>2, <1>3 DEF FolderInv, Sound, Safe, InFailed, FO!Categories

\* A run nobody has removed keeps its configuration and its data, whatever
\* workers, quarantines, purges and recoveries do at the same time: for any
\* number of runs and dates.
THEOREM KeptUntilAsked == UnitsSpec => []KeptUntilRemoved
<1> DEFINE Inv == focus = "folders" => FolderInv
<1>1. UnitsInit => Inv
  BY InitFolders DEF UnitsInit
<1>2. Inv /\ [UnitsNext]_coreVars => Inv'
  <2> SUFFICES ASSUME Inv, [UnitsNext]_coreVars, focus' = "folders"
               PROVE  FolderInv'
    OBVIOUS
  <2>1. focus = "folders" /\ FolderInv
    BY DEF UnitsNext, coreVars
  <2>2. CASE FO!Next
    <3>1. ASSUME NEW r \in Runs, FO!StartJob(r) \/ FO!Succeeded(r)
          PROVE  FolderInv'
      BY <2>1, <3>1, EngineKeepsFolders
    <3>2. ASSUME NEW r \in Runs,
                 FO!Begin(r) \/ FO!Work(r) \/ FO!LoadManifest(r) \/ FO!SaveManifest(r) \/ FO!Corrupt(r)
          PROVE  FolderInv'
      BY <2>1, <3>2, WorkerKeepsFolders
    <3>3. ASSUME NEW r \in Runs, NEW c \in FO!Categories, FO!PurgeFolder(r, c)
          PROVE  FolderInv'
      BY <2>1, <3>3, PurgeKeepsFolders
    <3>4. ASSUME NEW r \in Runs, NEW c \in FO!Categories, FO!RecoverTask(r, c)
          PROVE  FolderInv'
      BY <2>1, <3>4, RecoverKeepsFolders
    <3>5. ASSUME NEW r \in Runs, FO!PurgeRun(r)
          PROVE  FolderInv'
      <4>1. UNCHANGED <<folder, worker, vault, made, asked>>
        BY <3>5 DEF FO!PurgeRun
      <4> QED
        BY <2>1, <4>1, FoldersRest
    <3>6. CASE FO!PurgeTasks \/ FO!EndPurge \/ FO!AskToWipe
      <4>1. UNCHANGED <<folder, worker, vault, made, asked>>
        BY <3>6 DEF FO!PurgeTasks, FO!EndPurge, FO!AskToWipe
      <4> QED
        BY <2>1, <4>1, FoldersRest
    <3>7. CASE FO!PurgeData
      BY <2>1, <3>7, DataKeepsFolders
    <3>8. CASE FO!WipeWorkspace
      BY <2>1, <3>8, WipeKeepsFolders
    <3> QED
      BY <2>2, <3>1, <3>2, <3>3, <3>4, <3>5, <3>6, <3>7, <3>8 DEF FO!Next
  <2>3. CASE UNCHANGED folderVars
    <3>1. UNCHANGED <<folder, worker, vault, made, asked>>
      BY <2>3 DEF folderVars
    <3> QED
      BY <2>1, <3>1, FoldersRest
  <2> QED
    BY <2>1, <2>2, <2>3 DEF UnitsNext, coreVars
<1>3. Inv => KeptUntilRemoved
  <2> SUFFICES ASSUME FolderInv, NEW r \in Runs
               PROVE  /\ r \notin asked => FO!Configured(r) # {}
                      /\ made[r] \subseteq vault[r]
                      /\ (FO!Folder(r, "ACTIVE").there /\ ~FO!Folder(r, "ACTIVE").config) =>
                            r \in asked \/ "FAILED" \in FO!Configured(r)
    BY DEF KeptUntilRemoved, FO!KeptUntilRemoved
  <2>1. InFailed(folder[r]) => "FAILED" \in FO!Configured(r)
    BY PlaceTypes DEF InFailed, FO!Configured, FO!Folder
  <2>2. folder[r]["ACTIVE"].config => "ACTIVE" \in FO!Configured(r)
    BY PlaceTypes DEF FO!Configured, FO!Folder
  <2>3. r \notin asked => Safe(folder[r])
    BY DEF FolderInv
  <2> QED
    BY <2>1, <2>2, <2>3 DEF Safe, FO!Folder, FolderInv
<1> QED
  BY <1>1, <1>2, <1>3, PTL DEF UnitsSpec

-----------------------------------------------------------------------------
(* TransformSteps *)

\* Data of the sub-step's folder were made of what its sources hold.
FromSources(i) ==
    \A d \in DOMAIN files[i] :
       /\ \A s \in TS!Steps[i].sources : d \in DOMAIN data[s]
       /\ files[i][d] \subseteq UNION {{<<s, r>> : r \in data[s][d]} : s \in TS!Steps[i].sources}

\* The sub-step is through: its sources are inputs without a nested folder.
Through(i) == \A s \in TS!Steps[i].sources : s \in plan.inputs /\ Nested \notin DOMAIN data[s]

TransformType ==
    /\ plan \in Plans /\ pos \in Nat /\ payload.saved \in BOOLEAN /\ emptyResult \in BOOLEAN
    /\ pos <= Len(plan.steps)
    /\ DOMAIN files = DOMAIN plan.steps

\* A nested folder has no files of its own.
NestedEmpty ==
    /\ DOMAIN data = plan.inputs
    /\ \A s \in plan.inputs : Nested \in DOMAIN data[s] => data[s][Nested] = {}

\* While the step runs its folder is of this attempt, and the metrics are
\* those of the last sub-step; a nested folder of a source is still ahead.
Attempt ==
    pos # 0 =>
      /\ ~payload.saved /\ ~emptyResult
      /\ metrics = files[Len(plan.steps)]
      /\ \A i \in DOMAIN plan.steps :
           /\ FromSources(i)
           /\ plan.steps[i].type = "custom" => files[i] = <<>>
           /\ i < pos => Through(i)
      /\ \A s \in TS!Steps[pos].sources \cap plan.inputs : Nested \in DOMAIN data[s] => Nested \in todo

\* What has been reported.
Reported ==
    /\ payload.saved /\ emptyResult => payload.partitions = <<>> /\ payload.folder = FALSE
    /\ payload.saved /\ ~emptyResult =>
         /\ payload.folder = TRUE /\ payload.partitions = files[Len(plan.steps)]
         /\ \A i \in DOMAIN plan.steps :
              /\ FromSources(i)
              /\ plan.steps[i].type = "custom" => files[i] = <<>>
              /\ Through(i)

TransformInv == TransformType /\ NestedEmpty /\ Attempt /\ Reported

\* The last sub-step is one of the steps, and the sources of a custom step are dropped.
LEMMA PlanShape ==
    ASSUME TS!PlanAssumption, plan \in Plans
    PROVE  /\ Len(plan.steps) \in Nat /\ Len(plan.steps) > 0
           /\ DOMAIN plan.steps = 1 .. Len(plan.steps)
           /\ Len(plan.steps) \in DOMAIN plan.steps
           /\ \A i \in DOMAIN plan.steps :
                /\ plan.steps[i].type \in {"sql", "custom"}
                /\ TS!Steps[i].sources = IF plan.steps[i].type = "sql" THEN plan.steps[i].sources ELSE {}
<1> DEFINE Sub == [id : STRING, type : {"sql", "custom"}, sources : SUBSET STRING]
<1>1. plan.steps \in Seq(Sub) /\ plan.steps # <<>>
  BY DEF TS!PlanAssumption
<1>2. Len(plan.steps) \in Nat /\ DOMAIN plan.steps = 1 .. Len(plan.steps) /\ Len(plan.steps) > 0
  <2> HIDE DEF Sub
  <2> QED
    BY <1>1, LenProperties, EmptySeq
<1>3. ASSUME NEW i \in DOMAIN plan.steps
      PROVE  /\ plan.steps[i].type \in {"sql", "custom"}
             /\ TS!Steps[i].sources = IF plan.steps[i].type = "sql" THEN plan.steps[i].sources ELSE {}
  <2>1. plan.steps[i] \in Sub
    <3> HIDE DEF Sub
    <3> QED
      BY <1>1, <1>2, ElementOfSeq
  <2>2. TS!Steps[i] = TS!Parse(plan.steps[i])
    BY DEF TS!Steps
  <2> QED
    BY <2>1, <2>2 DEF TS!Parse
<1> QED
  BY <1>1, <1>2, <1>3

LEMMA OutputsNested ==
    ASSUME TS!PlanAssumption, NEW f \in TS!Outputs, Nested \in DOMAIN f
    PROVE  f[Nested] = {}
<1>1. ASSUME f \in TS!Folder
      PROVE  FALSE
  <2>1. PICK S \in SUBSET TS!DateSet : f \in [S -> {{v} : v \in Versions}]
    BY <1>1 DEF TS!Folder
  <2> QED
    BY <2>1 DEF TS!PlanAssumption
<1>2. PICK g \in TS!Folder : f = TS!With(g, Nested, {})
  BY <1>1 DEF TS!Outputs
<1> QED
  BY <1>2 DEF TS!With

LEMMA InitTransform ==
    ASSUME TS!PlanAssumption, TS!Init
    PROVE  TransformInv
<1>1. plan \in Plans /\ pos = 0 /\ ~payload.saved /\ files = [i \in DOMAIN plan.steps |-> <<>>]
  BY DEF TS!Init, TS!NoPayload
<1>2. payload.saved = FALSE
  BY DEF TS!Init, TS!NoPayload
<1>3. TransformType
  <2>1. Len(plan.steps) \in Nat
    BY <1>1, PlanShape
  <2>2. pos \in Nat /\ pos <= Len(plan.steps)
    BY <1>1, <2>1
  <2>3. DOMAIN files = DOMAIN plan.steps
    BY <1>1
  <2>4. payload.saved \in BOOLEAN /\ emptyResult \in BOOLEAN
    BY <1>2 DEF TS!Init
  <2> QED
    BY <1>1, <2>2, <2>3, <2>4 DEF TransformType
<1>4. NestedEmpty
  <2>1. data \in [plan.inputs -> IF emptyResult THEN {<<>>} ELSE TS!Outputs]
    BY DEF TS!Init
  <2>2. ASSUME NEW i \in plan.inputs, Nested \in DOMAIN data[i]
        PROVE  data[i][Nested] = {}
    <3>1. data[i] # <<>>
      BY <2>2
    <3>2. data[i] \in TS!Outputs
      BY <2>1, <3>1
    <3> QED
      BY <2>2, <3>2, OutputsNested
  <2> QED
    BY <2>1, <2>2 DEF NestedEmpty
<1>5. Attempt /\ Reported
  BY <1>1 DEF Attempt, Reported
<1> QED
  BY <1>3, <1>4, <1>5 DEF TransformInv

\* The plan stays, and what is said of data and files with it.
LEMMA PlanStays ==
    ASSUME UNCHANGED plan
    PROVE  /\ TS!Steps' = TS!Steps
           /\ UNCHANGED data => \A i : Through(i)' = Through(i)
           /\ UNCHANGED <<data, files>> => \A i : FromSources(i)' = FromSources(i)
<1>1. TS!Steps' = TS!Steps
  BY DEF TS!Steps, TS!Parse
<1> QED
  BY <1>1 DEF Through, FromSources

\* An attempt that ends without a report.
LEMMA StopKeepsTransform ==
    ASSUME TransformInv, pos # 0, TS!Stop
    PROVE  TransformInv'
<1>1. pos' = 0 /\ UNCHANGED <<plan, emptyResult, data, files, payload, attempts>>
  BY DEF TS!Stop
<1>2. TransformType /\ NestedEmpty /\ ~payload.saved
  BY DEF TransformInv, Attempt, Reported
<1>3. TransformType'
  <2>1. plan.steps' = plan.steps /\ 0 <= Len(plan.steps)
    BY <1>1, <1>2 DEF TransformType
  <2> QED
    BY <1>1, <1>2, <2>1 DEF TransformType
<1>4. NestedEmpty' /\ Attempt' /\ Reported'
  BY <1>1, <1>2 DEF NestedEmpty, Attempt, Reported
<1> QED
  BY <1>3, <1>4 DEF TransformInv

LEMMA PreFlightKeepsTransform ==
    ASSUME TS!PlanAssumption, TransformInv, TS!PreFlight
    PROVE  TransformInv'
<1>1. /\ pos = 0 /\ ~payload.saved /\ ~emptyResult
      /\ pos' = 1 /\ todo' = UNION {DOMAIN data[i] : i \in plan.inputs}
      /\ files' = [i \in DOMAIN plan.steps |-> <<>>] /\ metrics' = <<>>
      /\ UNCHANGED <<plan, emptyResult, data, payload>>
  BY DEF TS!PreFlight, TS!ResetDataDir, TS!DiscoverPartitionDates
<1>2. TransformType /\ NestedEmpty
  BY DEF TransformInv
<1>3. /\ Len(plan.steps) \in Nat /\ Len(plan.steps) > 0 /\ Len(plan.steps) \in DOMAIN plan.steps
      /\ DOMAIN plan.steps = 1 .. Len(plan.steps)
  BY <1>2, PlanShape DEF TransformType
<1>4. TransformType'
  <2>1. 1 <= Len(plan.steps)
    BY <1>3
  <2> QED
    BY <1>1, <1>2, <2>1 DEF TransformType
<1>5. NestedEmpty' /\ Reported'
  BY <1>1, <1>2 DEF NestedEmpty, Reported
<1>6. \A i \in DOMAIN plan.steps : files'[i] = <<>> /\ DOMAIN files'[i] = {}
  BY <1>1
<1>7. \A i \in DOMAIN plan.steps : FromSources(i)' /\ ~(i < 1)
  BY <1>3, <1>6 DEF FromSources
<1>8. metrics' = files'[Len(plan.steps)]
  BY <1>1, <1>3, <1>6
<1>9. \A s \in plan.inputs : Nested \in DOMAIN data[s] => Nested \in todo'
  BY <1>1
<1>10. Attempt'
  BY <1>1, <1>6, <1>7, <1>8, <1>9 DEF Attempt
<1> QED
  BY <1>4, <1>5, <1>10 DEF TransformInv

LEMMA EmptyKeepsTransform ==
    ASSUME TS!PlanAssumption, TransformInv, TS!HandleEmptyManifest
    PROVE  TransformInv'
<1>1. /\ pos = 0 /\ emptyResult
      /\ payload' = [saved |-> TRUE, folder |-> FALSE, partitions |-> <<>>]
      /\ UNCHANGED <<plan, emptyResult, data, pos, todo, files, metrics>>
  BY DEF TS!HandleEmptyManifest
<1>2. TransformType /\ NestedEmpty
  BY DEF TransformInv
<1>3. payload'.saved = TRUE /\ payload'.partitions = <<>> /\ payload'.folder = FALSE
  BY <1>1
<1>4. TransformType' /\ NestedEmpty' /\ Attempt' /\ Reported'
  BY <1>1, <1>2, <1>3 DEF TransformType, NestedEmpty, Attempt, Reported
<1> QED
  BY <1>4 DEF TransformInv

\* A partition that no source of the sub-step has.
LEMMA PassOverKeepsTransform ==
    ASSUME TransformInv, NEW d, TS!PassOver(d)
    PROVE  TransformInv'
<1>1. /\ todo' = todo \ {d} /\ UNCHANGED <<plan, emptyResult, data, pos, files, metrics, payload>>
      /\ \A i \in TS!Steps[pos].sources : d \notin DOMAIN data[i]
  BY DEF TS!PassOver, TS!PartitionSources, TS!Current
<1>2. TransformType /\ NestedEmpty /\ Attempt /\ Reported
  BY DEF TransformInv
<1>3. TransformType' /\ NestedEmpty'
  BY <1>1, <1>2 DEF TransformType, NestedEmpty
<1>4. /\ TS!Steps' = TS!Steps /\ \A i : Through(i)' = Through(i)
      /\ \A i : FromSources(i)' = FromSources(i)
  BY <1>1, PlanStays
<1>5. Attempt'
  <2> SUFFICES ASSUME pos # 0 PROVE Attempt'
    BY <1>1 DEF Attempt
  <2>1. \A s \in TS!Steps[pos].sources \cap plan.inputs : Nested \in DOMAIN data[s] => Nested \in todo'
    BY <1>1, <1>2 DEF Attempt
  <2> QED
    BY <1>1, <1>2, <1>4, <2>1 DEF Attempt
<1>6. Reported'
  BY <1>1, <1>2, <1>4 DEF Reported
<1> QED
  BY <1>3, <1>5, <1>6 DEF TransformInv

\* A partition that all sources of the sub-step have, with files.
LEMMA ProcessKeepsTransform ==
    ASSUME TS!PlanAssumption, TransformInv, NEW d, TS!ProcessPartition(d)
    PROVE  TransformInv'
<1> DEFINE n == Len(plan.steps)
           sources == TS!Steps[pos].sources
<1>1. /\ pos \in DOMAIN plan.steps /\ sources \subseteq plan.inputs
      /\ TS!PartitionSources(d) # {} /\ TS!Answers(d)
      /\ todo' = todo \ {d} /\ UNCHANGED <<plan, emptyResult, data, pos, payload>>
  BY DEF TS!ProcessPartition, TS!AtPartition, TS!Running, TS!ResolveSources, TS!Current
<1>2. PICK kept \in SUBSET TS!Rows(d), written \in BOOLEAN :
        /\ files' = IF written THEN [files EXCEPT ![pos] = TS!With(files[pos], d, kept)] ELSE files
        /\ metrics' = IF written /\ pos = n THEN TS!With(metrics, d, kept) ELSE metrics
  BY DEF TS!ProcessPartition, TS!IsFinalStep
<1>3. TransformType /\ NestedEmpty /\ Attempt /\ Reported
  BY DEF TransformInv
<1>4. /\ n \in Nat /\ n > 0 /\ n \in DOMAIN plan.steps /\ DOMAIN plan.steps = 1 .. n
      /\ plan.steps[pos].type = "custom" => sources = {}
  BY <1>1, <1>3, PlanShape DEF TransformType
<1>5. pos # 0
  BY <1>1, <1>4
<1>6. \A i \in sources : d \in DOMAIN data[i] /\ data[i][d] # {}
  BY <1>1 DEF TS!Answers, TS!Current
<1>7. sources # {} /\ plan.steps[pos].type # "custom"
  BY <1>1, <1>4 DEF TS!PartitionSources, TS!Current
<1>8. d # Nested
  BY <1>1, <1>3, <1>6, <1>7 DEF NestedEmpty
<1>9. kept \subseteq UNION {{<<i, r>> : r \in data[i][d]} : i \in sources}
  BY DEF TS!Rows, TS!PartitionSources, TS!Current
<1>10. /\ TS!Steps' = TS!Steps /\ \A i : Through(i)' = Through(i)
  BY <1>1, PlanStays
<1>11. /\ DOMAIN files' = DOMAIN files /\ DOMAIN files = DOMAIN plan.steps
       /\ \A i \in DOMAIN plan.steps : i # pos => files'[i] = files[i]
       /\ files'[pos] = IF written THEN TS!With(files[pos], d, kept) ELSE files[pos]
  BY <1>1, <1>2, <1>3 DEF TransformType
<1>12. TransformType' /\ NestedEmpty'
  BY <1>1, <1>3, <1>11 DEF TransformType, NestedEmpty
<1>13. metrics = files[n] /\ \A i \in DOMAIN plan.steps : FromSources(i)
  BY <1>3, <1>5 DEF Attempt
<1>14. metrics' = files'[n]
  <2>1. CASE pos = n
    BY <1>2, <1>11, <1>13, <2>1
  <2>2. CASE pos # n
    BY <1>2, <1>4, <1>11, <1>13, <2>2
  <2> QED
    BY <2>1, <2>2
<1>15. ASSUME NEW i \in DOMAIN plan.steps
       PROVE  FromSources(i)'
  <2>1. CASE i # pos \/ ~written
    <3>1. files'[i] = files[i]
      BY <1>11, <2>1
    <3> QED
      BY <1>1, <1>10, <1>13, <3>1 DEF FromSources
  <2>2. CASE i = pos /\ written
    <3>1. /\ DOMAIN files'[pos] = DOMAIN files[pos] \cup {d}
          /\ files'[pos][d] = kept
          /\ \A e \in DOMAIN files[pos] : e # d => files'[pos][e] = files[pos][e]
      BY <1>11, <2>2 DEF TS!With
    <3>2. FromSources(pos)
      BY <1>1, <1>13
    <3>3. ASSUME NEW e \in DOMAIN files'[pos]
          PROVE  /\ \A j \in sources : e \in DOMAIN data[j]
                 /\ files'[pos][e] \subseteq UNION {{<<j, r>> : r \in data[j][e]} : j \in sources}
      <4>1. CASE e = d
        BY <1>6, <1>9, <3>1, <4>1
      <4>2. CASE e # d
        BY <3>1, <3>2, <4>2 DEF FromSources
      <4> QED
        BY <4>1, <4>2
    <3> QED
      BY <1>1, <1>10, <2>2, <3>3 DEF FromSources
  <2> QED
    BY <2>1, <2>2
<1>16. \A i \in DOMAIN plan.steps : plan.steps[i].type = "custom" => files'[i] = <<>>
  <2>1. \A i \in DOMAIN plan.steps : plan.steps[i].type = "custom" => files[i] = <<>>
    BY <1>3, <1>5 DEF Attempt
  <2> QED
    BY <1>7, <1>11, <2>1
<1>17. \A i \in DOMAIN plan.steps : i < pos => Through(i)
  BY <1>3, <1>5 DEF Attempt
<1>18. \A s \in sources \cap plan.inputs : Nested \in DOMAIN data[s] => Nested \in todo'
  BY <1>1, <1>3, <1>5, <1>8 DEF Attempt
<1>19. ~payload.saved /\ ~emptyResult
  BY <1>3, <1>5 DEF Attempt
<1>20. Attempt'
  BY <1>1, <1>10, <1>14, <1>15, <1>16, <1>17, <1>18, <1>19 DEF Attempt
<1>21. Reported'
  BY <1>1, <1>19 DEF Reported
<1> QED
  BY <1>12, <1>20, <1>21 DEF TransformInv

\* At the end of a sub-step no source of it has a nested folder.
LEMMA EndOfStep ==
    ASSUME TS!PlanAssumption, TransformInv, TS!AtEnd
    PROVE  pos \in DOMAIN plan.steps /\ pos # 0 /\ Through(pos)
<1>1. pos \in DOMAIN plan.steps /\ TS!Steps[pos].sources \subseteq plan.inputs /\ todo = {}
  BY DEF TS!AtEnd, TS!Running, TS!ResolveSources, TS!Current
<1>2. Len(plan.steps) \in Nat /\ DOMAIN plan.steps = 1 .. Len(plan.steps)
  BY PlanShape DEF TransformInv, TransformType
<1>3. pos # 0
  BY <1>1, <1>2
<1>4. \A s \in TS!Steps[pos].sources \cap plan.inputs : Nested \in DOMAIN data[s] => Nested \in todo
  BY <1>3 DEF TransformInv, Attempt
<1> QED
  BY <1>1, <1>3, <1>4 DEF Through

LEMMA NextStepKeepsTransform ==
    ASSUME TS!PlanAssumption, TransformInv, TS!NextSubStep
    PROVE  TransformInv'
<1>1. /\ TS!AtEnd /\ pos # Len(plan.steps) /\ pos' = pos + 1
      /\ todo' = UNION {DOMAIN data[i] : i \in plan.inputs}
      /\ UNCHANGED <<plan, emptyResult, data, files, metrics, payload>>
  BY DEF TS!NextSubStep, TS!IsFinalStep, TS!DiscoverPartitionDates
<1>2. TransformType /\ NestedEmpty /\ Attempt /\ Reported
  BY DEF TransformInv
<1>3. pos \in DOMAIN plan.steps /\ pos # 0 /\ Through(pos)
  BY <1>1, EndOfStep
<1>4. Len(plan.steps) \in Nat /\ DOMAIN plan.steps = 1 .. Len(plan.steps)
  BY <1>2, PlanShape DEF TransformType
<1>5. /\ TS!Steps' = TS!Steps /\ \A i : Through(i)' = Through(i)
      /\ \A i : FromSources(i)' = FromSources(i)
  BY <1>1, PlanStays
<1>6. TransformType' /\ NestedEmpty'
  <2>1. pos + 1 \in Nat /\ pos + 1 <= Len(plan.steps)
    BY <1>1, <1>3, <1>4
  <2> QED
    BY <1>1, <1>2, <2>1 DEF TransformType, NestedEmpty
<1>7. \A i \in DOMAIN plan.steps : i < pos' => Through(i)
  <2> SUFFICES ASSUME NEW i \in DOMAIN plan.steps, i < pos'
               PROVE  Through(i)
    OBVIOUS
  <2>1. i < pos \/ i = pos
    BY <1>1, <1>3, <1>4
  <2> QED
    BY <1>2, <1>3, <2>1 DEF Attempt
<1>8. \A s \in plan.inputs : Nested \in DOMAIN data[s] => Nested \in todo'
  BY <1>1
<1>9. Attempt'
  BY <1>1, <1>2, <1>3, <1>5, <1>7, <1>8 DEF Attempt
<1>10. Reported'
  BY <1>1, <1>2, <1>5 DEF Reported
<1> QED
  BY <1>6, <1>9, <1>10 DEF TransformInv

LEMMA SaveKeepsTransform ==
    ASSUME TS!PlanAssumption, TransformInv, TS!SaveOutcome
    PROVE  TransformInv'
<1>1. /\ TS!AtEnd /\ pos = Len(plan.steps) /\ pos' = 0
      /\ payload' = [saved |-> TRUE, folder |-> TRUE, partitions |-> metrics]
      /\ UNCHANGED <<plan, emptyResult, data, files>>
  BY DEF TS!SaveOutcome, TS!IsFinalStep
<1>2. TransformType /\ NestedEmpty /\ Attempt
  BY DEF TransformInv
<1>3. pos \in DOMAIN plan.steps /\ pos # 0 /\ Through(pos)
  BY <1>1, EndOfStep
<1>4. Len(plan.steps) \in Nat /\ DOMAIN plan.steps = 1 .. Len(plan.steps)
  BY <1>2, PlanShape DEF TransformType
<1>5. /\ \A i : Through(i)' = Through(i)
      /\ \A i : FromSources(i)' = FromSources(i)
  BY <1>1, PlanStays
<1>6. payload'.saved = TRUE /\ payload'.partitions = metrics /\ payload'.folder = TRUE
  BY <1>1
<1>7. TransformType' /\ NestedEmpty' /\ Attempt'
  <2>1. 0 <= Len(plan.steps)
    BY <1>4
  <2> QED
    BY <1>1, <1>2, <1>6, <2>1 DEF TransformType, NestedEmpty, Attempt
<1>8. \A i \in DOMAIN plan.steps : Through(i)
  <2> SUFFICES ASSUME NEW i \in DOMAIN plan.steps PROVE Through(i)
    OBVIOUS
  <2>1. i < pos \/ i = pos
    BY <1>1, <1>4
  <2> QED
    BY <1>2, <1>3, <2>1 DEF Attempt
<1>9. Reported'
  BY <1>1, <1>2, <1>3, <1>5, <1>6, <1>8 DEF Reported, Attempt
<1> QED
  BY <1>7, <1>9 DEF TransformInv

LEMMA InputsKeepTransform ==
    ASSUME TS!PlanAssumption, TransformInv, TS!InputsChange
    PROVE  TransformInv'
<1>1. pos = 0 /\ ~payload.saved /\ UNCHANGED <<plan, pos, todo, files, metrics, payload>>
  BY DEF TS!InputsChange
<1>2. PICK i \in plan.inputs, f \in TS!Outputs :
        data' = [data EXCEPT ![i] = f] /\ emptyResult' \in {emptyResult, emptyResult \/ f = <<>>}
  BY DEF TS!InputsChange
<1>3. TransformType /\ NestedEmpty /\ Reported
  BY DEF TransformInv
<1>4. NestedEmpty'
  <2>1. DOMAIN data' = plan.inputs
    BY <1>2, <1>3 DEF NestedEmpty
  <2>2. ASSUME NEW s \in plan.inputs, Nested \in DOMAIN data'[s]
        PROVE  data'[s][Nested] = {}
    <3>1. CASE s = i
      <4>1. data'[s] = f
        BY <1>2, <1>3, <3>1 DEF NestedEmpty
      <4> QED
        BY <2>2, <4>1, OutputsNested
    <3>2. CASE s # i
      <4>1. data'[s] = data[s]
        BY <1>2, <1>3, <3>2 DEF NestedEmpty
      <4> QED
        BY <1>3, <2>2, <4>1 DEF NestedEmpty
    <3> QED
      BY <3>1, <3>2
  <2> QED
    BY <1>1, <2>1, <2>2 DEF NestedEmpty
<1>5. emptyResult' \in BOOLEAN
  BY <1>2, <1>3 DEF TransformType
<1>6. TransformType' /\ Attempt' /\ Reported'
  BY <1>1, <1>3, <1>5 DEF TransformType, Attempt, Reported
<1> QED
  BY <1>4, <1>6 DEF TransformInv

\* What a transform reports is what lies in its folder, made of what its
\* inputs hold, with nothing of an earlier attempt, for any plan of sub-steps,
\* any inputs and any number of attempts that die or fail; one that is bypassed
\* reports nothing and no folder, also after attempts that left partitions.
THEOREM ReportsWhatItHas == UnitsSpec => []TransformReported
<1> DEFINE Inv == focus = "transform" => TransformInv
<1> USE UnitAssumption
<1>1. UnitsInit => Inv
  BY InitTransform DEF UnitsInit, UnitAssumption
<1>2. Inv /\ [UnitsNext]_coreVars => Inv'
  <2> SUFFICES ASSUME Inv, [UnitsNext]_coreVars, focus' = "transform"
               PROVE  TransformInv'
    OBVIOUS
  <2>1. focus = "transform" /\ TransformInv
    BY DEF UnitsNext, coreVars
  <2>p. TS!PlanAssumption
    BY DEF UnitAssumption
  <2>2. CASE TS!Next
    <3>1. CASE TS!PreFlight
      BY <2>1, <2>p, <3>1, PreFlightKeepsTransform
    <3>2. CASE TS!HandleEmptyManifest
      BY <2>1, <2>p, <3>2, EmptyKeepsTransform
    <3>3. ASSUME TS!Running, TS!Stop
          PROVE  TransformInv'
      <4>1. Len(plan.steps) \in Nat /\ DOMAIN plan.steps = 1 .. Len(plan.steps)
        BY <2>1, <2>p, PlanShape DEF TransformInv, TransformType
      <4>2. pos # 0
        BY <3>3, <4>1 DEF TS!Running
      <4> QED
        BY <2>1, <3>3, <4>2, StopKeepsTransform
    <3>4. CASE TS!Refused \/ TS!Crash
      BY <3>3, <3>4 DEF TS!Refused, TS!Crash
    <3>5. ASSUME NEW d \in todo, TS!PassOver(d)
          PROVE  TransformInv'
      BY <2>1, <3>5, PassOverKeepsTransform
    <3>6. ASSUME NEW d \in todo, TS!QueryFails(d)
          PROVE  TransformInv'
      BY <3>3, <3>6 DEF TS!QueryFails, TS!AtPartition
    <3>7. ASSUME NEW d \in todo, TS!ProcessPartition(d)
          PROVE  TransformInv'
      BY <2>1, <2>p, <3>7, ProcessKeepsTransform
    <3>8. CASE TS!NextSubStep
      BY <2>1, <2>p, <3>8, NextStepKeepsTransform
    <3>9. CASE TS!SaveOutcome
      BY <2>1, <2>p, <3>9, SaveKeepsTransform
    <3>10. CASE TS!InputsChange
      BY <2>1, <2>p, <3>10, InputsKeepTransform
    <3> QED
      BY <2>2, <3>1, <3>2, <3>4, <3>5, <3>6, <3>7, <3>8, <3>9, <3>10 DEF TS!Next
  <2>3. CASE UNCHANGED transformVars
    <3>1. UNCHANGED <<plan, emptyResult, data, pos, todo, files, metrics, payload>>
      BY <2>3 DEF transformVars
    <3>2. /\ TS!Steps' = TS!Steps /\ \A i : Through(i)' = Through(i)
          /\ \A i : FromSources(i)' = FromSources(i)
      BY <3>1, PlanStays
    <3>3. TransformType' /\ NestedEmpty'
      BY <2>1, <3>1 DEF TransformInv, TransformType, NestedEmpty
    <3>4. Attempt' /\ Reported'
      BY <2>1, <3>1, <3>2 DEF TransformInv, Attempt, Reported
    <3> QED
      BY <3>3, <3>4 DEF TransformInv
  <2> QED
    BY <2>1, <2>2, <2>3 DEF UnitsNext, coreVars
<1>3. Inv => TransformReported
  <2> SUFFICES ASSUME TransformInv, payload.saved, ~emptyResult
               PROVE  TS!TransformReported
    BY DEF TransformReported, TS!TransformReported, TransformInv, Reported
  <2>1. /\ payload.folder = TRUE /\ payload.partitions = files[Len(plan.steps)]
        /\ \A i \in DOMAIN plan.steps :
             /\ FromSources(i)
             /\ plan.steps[i].type = "custom" => files[i] = <<>>
             /\ Through(i)
    BY DEF TransformInv, Reported
  <2>2. DOMAIN files = DOMAIN plan.steps /\ plan \in Plans
    BY DEF TransformInv, TransformType
  <2>3. /\ Len(plan.steps) \in DOMAIN plan.steps
        /\ \A i \in DOMAIN plan.steps :
             plan.steps[i].type = "sql" => TS!Steps[i].sources = plan.steps[i].sources
    BY <2>2, PlanShape DEF UnitAssumption
  <2>4. \A i \in DOMAIN plan.steps : plan.steps[i].type = "sql" =>
          \A s \in plan.steps[i].sources : s \in plan.inputs /\ Nested \notin DOMAIN data[s]
    BY <2>1, <2>3 DEF Through
  <2>5. plan.steps[Len(plan.steps)].type = "custom" => payload.partitions = <<>>
    BY <2>1, <2>3
  <2>6. \A i \in DOMAIN files : FromSources(i)
    BY <2>1, <2>2
  <2> QED
    BY <2>1, <2>4, <2>5, <2>6 DEF TS!TransformReported, FromSources
<1> QED
  BY <1>1, <1>2, <1>3, PTL DEF UnitsSpec

-----------------------------------------------------------------------------
(* CacheBackends *)

Entries == {CA!Absent} \cup [value : Values, ttl : {"none", "running", "over"}]

CacheType ==
    /\ back \in {"memory", "disk", "redis"} /\ open \subseteq Handles
    /\ store \in [CA!Names -> Entries]

\* A method between two requests works on names of its own handle; only a
\* directory is asked twice by replace and delete.  A clear has still to delete
\* what it owes, but for what it misses.
Missed(h, m) == back = "disk" \/ (back = "redis" /\ CA!Own(h, Tail(m)))
Halfway ==
    /\ busy = [op |-> busy.op, by |-> busy.by, names |-> busy.names, value |-> busy.value,
               owed |-> busy.owed]
    /\ busy.op # "none" =>
       /\ busy.by \in Handles /\ busy.names \subseteq CA!OwnNames(busy.by)
       /\ busy.op \in {"replace", "delete"} => back = "disk"
       /\ busy.op = "replace" => busy.value.value \in Values
       /\ busy.op = "clear" =>
            /\ back # "memory" /\ busy.by # "" /\ busy.owed \subseteq CA!OwnNames(busy.by)
            /\ \A m \in busy.owed \ busy.names : CA!Live(store[m]) => Missed(busy.by, m)

\* What a request may answer, and leave of a store.
Allowed(old, new, op, by, key, n, v, reply) ==
    LET living == CA!Live(old[n])
        there == living \/ (back = "memory" /\ old[n].ttl = "over")
        mine == {m \in CA!OwnNames(by) : CA!Live(old[m])}
        became(now) == new[n] = now
        held(name) == IF CA!Live(old[name]) THEN old[name].value ELSE 0
        missed(m) == \/ back = "disk" /\ by # ""
                     \/ back = "redis" /\ by # "" /\ CA!Own(by, Tail(m))
    IN /\ \A m \in CA!Names \ (IF op = "clear" THEN CA!OwnNames(by) ELSE {n}) :
             CA!Live(old[m]) \/ CA!Live(new[m]) => new[m] = old[m]
       /\ \A m \in CA!Names \ CA!OwnNames(by) : CA!Live(old[m]) => new[m] = old[m]
       /\ CASE op = "get" -> reply = held(IF back = "redis" THEN key ELSE n)
            [] op = "pop" -> reply = held(n) /\ ~CA!Live(new[n])
            [] op = "exists" -> reply = living
            [] op = "set" -> became(v)
            [] op = "add" ->
                 /\ IF there THEN new[n] = old[n] ELSE became(v)
                 /\ reply = (back = "redis" \/ ~there)
            [] op = "replace" ->
                 IF back = "disk"
                 THEN IF reply THEN became(CA!Entry(v.value, "none")) ELSE ~living /\ ~CA!Live(new[n])
                 ELSE /\ IF there THEN became(v) ELSE ~CA!Live(new[n])
                      /\ reply = (back = "redis" \/ there)
            [] op = "delete" -> ~CA!Live(new[n]) /\ reply = there
            [] op = "size" ->
                 reply = CA!Cardinality(IF back = "disk" THEN {m \in CA!Names : old[m] # CA!Absent} ELSE mine)
            [] op = "iterkeys" -> reply = IF back = "disk" THEN 0 ELSE CA!Cardinality(mine)
            [] OTHER -> \A m \in v : CA!Live(new[m]) => missed(m)

Recorded == "op" \in DOMAIN last

CacheKept == CacheType /\ Halfway /\ Recorded /\ CA!Interchangeable

LEMMA RequestAllowed ==
    ASSUME NEW op, NEW h, NEW key, NEW n, NEW v, NEW reply, UNCHANGED back,
           CA!Request(op, h, key, n, v, reply), Allowed(store, store', op, h, key, n, v, reply)
    PROVE  Recorded' /\ CA!Interchangeable'
<1>1. /\ last'.op = op /\ last'.by = h /\ last'.key = key /\ last'.name = n /\ last'.value = v
      /\ last'.reply = reply /\ last'.before = store
  BY DEF CA!Request
<1>2. Allowed(last'.before, store', last'.op, last'.by, last'.key, last'.name, last'.value, last'.reply)
  BY <1>1
<1>n. CA!Names' = CA!Names /\ (\A x : CA!OwnNames(x)' = CA!OwnNames(x)) /\ back' = back
  BY DEF CA!Names, CA!Prefixed, CA!Own, CA!OwnNames
<1>3. CA!Interchangeable'
  BY <1>2, <1>n DEF Allowed, CA!Interchangeable, CA!Default
<1>4. Recorded'
  BY DEF CA!Request, Recorded
<1> QED
  BY <1>3, <1>4

\* The name under which a handle keeps a key is one of its own.
LEMMA PrefixedIsOwn ==
    ASSUME CA!CacheAssumption, NEW h \in Handles, NEW key \in UserKeys
    PROVE  CA!Prefixed(h, key) \in CA!Names /\ CA!Prefixed(h, key) \in CA!OwnNames(h)
<1>1. CA!Prefixed(h, key) \in CA!Names
  <2>1. CA!Prefixed(h, key) \in {CA!Prefixed(h, k) : k \in UserKeys}
    OBVIOUS
  <2>2. {CA!Prefixed(h, k) : k \in UserKeys} \in {{CA!Prefixed(g, k) : k \in UserKeys} : g \in Handles}
    OBVIOUS
  <2> QED
    BY <2>1, <2>2 DEF CA!Names
<1>2. CA!Own(h, CA!Prefixed(h, key))
  <2>1. CASE CA!Own(h, key)
    BY <2>1 DEF CA!Prefixed
  <2>2. CASE ~CA!Own(h, key)
    <3>1. CA!Prefixed(h, key) = <<h>> \o key
      BY <2>2 DEF CA!Prefixed
    <3>2. key \in Seq(STRING) /\ key # <<>> /\ h \in STRING
      BY DEF CA!CacheAssumption
    <3>3. Head(<<h>> \o key) = h /\ Len(<<h>> \o key) > 1
      BY <3>2
    <3> QED
      BY <3>1, <3>3 DEF CA!Own
  <2> QED
    BY <2>1, <2>2
<1> QED
  BY <1>1, <1>2 DEF CA!OwnNames

\* A name is its first part and the rest of it.
LEMMA PartsOfName ==
    ASSUME NEW S, NEW k \in Seq(S), k # <<>>
    PROVE  /\ <<Head(k)>> \o Tail(k) = k
           /\ \A g \in S : Head(<<g>> \o k) = g /\ Tail(<<g>> \o k) = k
<1>1. <<Head(k)>> \o Tail(k) = k
  <2>1. /\ Head(k) \in S /\ Tail(k) \in Seq(S) /\ Len(Tail(k)) = Len(k) - 1
        /\ Head(k) = k[1] /\ \A i \in 1..Len(Tail(k)) : Tail(k)[i] = k[i + 1]
    BY HeadTailProperties
  <2> DEFINE whole == <<Head(k)>> \o Tail(k)
  <2>2. whole \in Seq(S) /\ Len(whole) = Len(k)
    BY <2>1
  <2>3. \A i \in 1..Len(k) : whole[i] = k[i]
    BY <2>1
  <2> HIDE DEF whole
  <2> QED
    BY <2>2, <2>3, SeqEqual
<1>2. ASSUME NEW g \in S
      PROVE  Head(<<g>> \o k) = g /\ Tail(<<g>> \o k) = k
  <2> DEFINE longer == <<g>> \o k
  <2>a. <<g>> \in Seq(S) /\ Len(<<g>>) = 1 /\ <<g>>[1] = g
    <3>1. <<g>> \in Seq(S)
      OBVIOUS
    <3>2. Len(<<g>>) = 1
      OBVIOUS
    <3>3. <<g>>[1] = g
      OBVIOUS
    <3> QED
      BY <3>1, <3>2, <3>3
  <2>1. /\ longer \in Seq(S) /\ Len(longer) = Len(k) + 1 /\ longer[1] = g
        /\ \A i \in 1..Len(k) : longer[i + 1] = k[i]
    <3>1. /\ longer \in Seq(S) /\ Len(longer) = Len(<<g>>) + Len(k)
          /\ \A i \in 1 .. Len(<<g>>) + Len(k) :
                longer[i] = IF i <= Len(<<g>>) THEN <<g>>[i] ELSE k[i - Len(<<g>>)]
      BY <2>a, ConcatProperties
    <3> HIDE DEF longer
    <3>2. Len(k) \in Nat
      OBVIOUS
    <3>3. longer[1] = g
      <4>1. 1 \in 1 .. Len(<<g>>) + Len(k) /\ 1 <= Len(<<g>>)
        BY <2>a, <3>2
      <4>2. longer[1] = <<g>>[1]
        BY <3>1, <4>1
      <4> QED
        BY <2>a, <4>2
    <3>4. ASSUME NEW i \in 1..Len(k)
          PROVE  longer[i + 1] = k[i]
      <4>1. i + 1 \in 1 .. Len(<<g>>) + Len(k) /\ ~(i + 1 <= Len(<<g>>)) /\ i + 1 - Len(<<g>>) = i
        BY <2>a, <3>2
      <4> QED
        BY <3>1, <4>1
    <3> QED
      BY <2>a, <3>1, <3>2, <3>3, <3>4
  <2> HIDE DEF longer
  <2>b. longer \in Seq(S) /\ longer # <<>>
    BY <2>1
  <2>2. /\ Head(longer) = longer[1] /\ Tail(longer) \in Seq(S) /\ Len(Tail(longer)) = Len(longer) - 1
        /\ \A i \in 1..Len(Tail(longer)) : Tail(longer)[i] = longer[i + 1]
    BY <2>b, HeadTailProperties
  <2>3. Tail(longer) = k
    BY <2>1, <2>2, SeqEqual
  <2> QED
    BY <2>1, <2>2, <2>3 DEF longer
<1> QED
  BY <1>1, <1>2

\* A name that lost its prefix gets it back, unless it repeats it: then the
\* name that comes out is another one of the same handle.
LEMMA StrippedIsOwn ==
    ASSUME CA!CacheAssumption, NEW h \in Handles, h # "", NEW m \in CA!OwnNames(h)
    PROVE  LET n == CA!Prefixed(h, CA!Unprefixed(h, m)) IN
           /\ n \in CA!Names /\ n \in CA!OwnNames(h)
           /\ n # m => CA!Own(h, Tail(m))
<1>1. m \in CA!Names /\ Len(m) > 1 /\ Head(m) = h /\ CA!Unprefixed(h, m) = Tail(m)
  BY DEF CA!OwnNames, CA!Own, CA!Unprefixed
<1>2. CASE m \in UserKeys
  <2>1. Tail(m) \in UserKeys /\ m \in Seq(STRING) /\ m # <<>>
    BY <1>1, <1>2 DEF CA!CacheAssumption
  <2>2. <<h>> \o Tail(m) = m
    BY <1>1, <2>1, PartsOfName
  <2> QED
    BY <1>1, <2>1, <2>2, PrefixedIsOwn DEF CA!Prefixed
<1>3. CASE m \notin UserKeys
  <2>1. PICK g \in Handles, k \in UserKeys : m = CA!Prefixed(g, k)
    <3>1. m \in CA!Names
      BY <1>1
    <3>2. m \in UNION {{CA!Prefixed(g, k) : k \in UserKeys} : g \in Handles}
      BY <1>3, <3>1 DEF CA!Names
    <3>3. PICK S \in {{CA!Prefixed(g, k) : k \in UserKeys} : g \in Handles} : m \in S
      BY <3>2
    <3>4. PICK g \in Handles : S = {CA!Prefixed(g, k) : k \in UserKeys}
      BY <3>3
    <3> QED
      BY <3>3, <3>4
  <2>2. m = <<g>> \o k /\ k \in Seq(STRING) /\ k # <<>> /\ g \in STRING
    BY <1>3, <2>1 DEF CA!Prefixed, CA!CacheAssumption
  <2>3. Head(<<g>> \o k) = g /\ Tail(<<g>> \o k) = k
    BY <2>2, PartsOfName
  <2>4. g = h /\ Tail(m) = k
    BY <1>1, <2>2, <2>3
  <2> QED
    BY <1>1, <2>2, <2>4, PrefixedIsOwn DEF CA!Prefixed
<1> QED
  BY <1>2, <1>3

\* An entry is absent, alive or over.
LEMMA EntryKinds ==
    /\ ~CA!Live(CA!Absent) /\ CA!Absent \in Entries /\ CA!Absent.ttl = "absent"
    /\ \A e \in Entries : e # CA!Absent => CA!Live(e) \/ e.ttl = "over"
    /\ \A v \in Values, life \in {"none", "running"} :
         CA!Entry(v, life) \in Entries /\ CA!Live(CA!Entry(v, life)) /\ CA!Entry(v, life).value = v
BY DEF CA!Live, CA!Absent, Entries, CA!Entry

LEMMA InitCache ==
    ASSUME CA!Init
    PROVE  CacheKept
<1>1. CacheType
  BY EntryKinds DEF CA!Init, CacheType
<1>2. Halfway
  BY DEF CA!Init, CA!Idle, Halfway
<1>3. Recorded /\ CA!Interchangeable
  BY DEF CA!Init, CA!NoRequest, CA!Interchangeable, Recorded
<1> QED
  BY <1>1, <1>2, <1>3 DEF CacheKept

\* _clean_expired touches no entry that is alive.
LEMMA CleanedKeeps ==
    ASSUME CacheType
    PROVE  /\ CA!Cleaned \in [CA!Names -> Entries]
           /\ \A m \in CA!Names : CA!Live(store[m]) \/ CA!Live(CA!Cleaned[m]) => CA!Cleaned[m] = store[m]
BY EntryKinds DEF CacheType, CA!Cleaned

\* The names are the same in every state.
LEMMA NamesStay ==
    CA!Names' = CA!Names /\ Entries' = Entries /\ \A h : CA!OwnNames(h)' = CA!OwnNames(h)
BY DEF CA!Names, CA!Prefixed, CA!Own, Entries, CA!Absent, CA!OwnNames

\* A step that brings no name to life but one that the clear no longer owes.
LEMMA StoreStep ==
    ASSUME CacheType, Halfway, store' \in [CA!Names -> Entries], UNCHANGED <<back, open>>, NEW n,
           \A m \in CA!Names : CA!Live(store'[m]) => CA!Live(store[m]) \/ m = n,
           \/ busy' = [busy EXCEPT !.owed = busy.owed \ {n}]
           \/ busy' = busy /\ \A m \in CA!Names : CA!Live(store'[m]) => CA!Live(store[m])
    PROVE  CacheType' /\ Halfway'
<1>1. CacheType'
  BY NamesStay DEF CacheType
<1>2. /\ busy'.op = busy.op /\ busy'.by = busy.by /\ busy'.names = busy.names
      /\ busy'.value = busy.value /\ busy'.owed \subseteq busy.owed
      /\ busy' = [op |-> busy'.op, by |-> busy'.by, names |-> busy'.names, value |-> busy'.value,
                 owed |-> busy'.owed]
  BY DEF Halfway
<1>3. ASSUME busy.op = "clear"
      PROVE  \A m \in busy'.owed \ busy'.names : CA!Live(store'[m]) => Missed(busy.by, m)
  <2>1. /\ \A m \in busy.owed \ busy.names : CA!Live(store[m]) => Missed(busy.by, m)
        /\ busy.owed \subseteq CA!Names
    BY <1>3 DEF Halfway, CA!OwnNames
  <2>2. \A m \in busy'.owed : CA!Live(store'[m]) => CA!Live(store[m])
    <3>1. CASE busy' = [busy EXCEPT !.owed = busy.owed \ {n}]
      <4>1. busy'.owed = busy.owed \ {n}
        BY <3>1 DEF Halfway
      <4> QED
        BY <2>1, <4>1
    <3> QED
      BY <1>2, <2>1, <3>1
  <2> QED
    BY <1>2, <2>1, <2>2
<1>4. Halfway'
  <2>1. \A h, m : Missed(h, m)' <=> Missed(h, m)
    BY DEF Missed, CA!Own
  <2> QED
    BY <1>2, <1>3, <2>1, NamesStay DEF Halfway
<1> QED
  BY <1>1, <1>4

LEMMA SetsAsCached ==
    \A S : CA!Cardinality(S) = Cardinality(S)
BY Zenon DEF CA!Cardinality, Cardinality, CA!IsFiniteSet, IsFiniteSet

LEMMA CleaningRequests ==
    ASSUME CA!CacheAssumption, CacheKept, NEW h \in open,
           \/ CA!Iterkeys(h) \/ CA!Size(h)
           \/ \E key \in UserKeys : CA!Get(h, key) \/ CA!Exists(h, key)
    PROVE  CacheKept'
<1>1. CacheType /\ Halfway /\ h \in Handles
  BY DEF CacheKept, CacheType
<1>2. store' = CA!Cleaned /\ UNCHANGED <<back, open, busy>>
  BY DEF CA!Iterkeys, CA!Size, CA!Get, CA!Exists, CA!Done
<1>3. /\ store' \in [CA!Names -> Entries]
      /\ \A m \in CA!Names : CA!Live(store[m]) \/ CA!Live(store'[m]) => store'[m] = store[m]
  BY <1>1, <1>2, CleanedKeeps
<1>4. CacheType' /\ Halfway'
  BY <1>1, <1>2, <1>3, StoreStep
<1>5. CASE CA!Iterkeys(h)
  <2> DEFINE reply == CA!Cardinality(CA!Listed(h))
  <2>1. CA!Request("iterkeys", h, <<>>, <<>>, 0, reply)
    BY <1>5 DEF CA!Iterkeys, CA!Done
  <2>2. reply = IF back = "disk" THEN 0 ELSE CA!Cardinality({m \in CA!OwnNames(h) : CA!Live(store[m])})
    <3>1. CA!Cardinality({}) = 0
      BY SetsAsCached, FS_EmptySet
    <3> QED
      BY <3>1 DEF CA!Listed
  <2> HIDE DEF reply
  <2>3. Allowed(store, store', "iterkeys", h, <<>>, <<>>, 0, reply)
    BY <1>3, <2>2 DEF Allowed
  <2> QED
    BY <1>2, <1>4, <2>1, <2>3, RequestAllowed DEF CacheKept
<1>6. CASE CA!Size(h)
  <2> DEFINE reply == IF back = "disk" THEN CA!Cardinality({n \in CA!Names : store[n] # CA!Absent})
                      ELSE CA!Cardinality({n \in CA!OwnNames(h) : CA!Live(store[n])})
  <2>1. CA!Request("size", h, <<>>, <<>>, 0, reply)
    BY <1>6 DEF CA!Size, CA!Done
  <2>2. reply = CA!Cardinality(IF back = "disk" THEN {n \in CA!Names : store[n] # CA!Absent}
                               ELSE {m \in CA!OwnNames(h) : CA!Live(store[m])})
    OBVIOUS
  <2> HIDE DEF reply
  <2>3. Allowed(store, store', "size", h, <<>>, <<>>, 0, reply)
    BY <1>3, <2>2 DEF Allowed
  <2> QED
    BY <1>2, <1>4, <2>1, <2>3, RequestAllowed DEF CacheKept
<1>7. ASSUME NEW key \in UserKeys, CA!Get(h, key)
      PROVE  CacheKept'
  <2> DEFINE n == CA!Prefixed(h, key)
             name == IF back = "redis" THEN key ELSE n
             reply == IF CA!Live(store[name]) THEN store[name].value ELSE 0
  <2>1. CA!Request("get", h, key, n, 0, reply)
    BY <1>7 DEF CA!Get, CA!Done, CA!Default
  <2> HIDE DEF n
  <2>4. Allowed(store, store', "get", h, key, n, 0, reply)
    BY <1>3 DEF Allowed
  <2> HIDE DEF reply
  <2> QED
    BY <1>2, <1>4, <2>1, <2>4, RequestAllowed DEF CacheKept
<1>8. ASSUME NEW key \in UserKeys, CA!Exists(h, key)
      PROVE  CacheKept'
  <2> DEFINE n == CA!Prefixed(h, key)
  <2>1. CA!Request("exists", h, <<>>, n, 0, CA!Live(store[n]))
    BY <1>8 DEF CA!Exists, CA!Done
  <2> HIDE DEF n
  <2>2. Allowed(store, store', "exists", h, <<>>, n, 0, CA!Live(store[n]))
    BY <1>3 DEF Allowed
  <2> QED
    BY <1>2, <1>4, <2>1, <2>2, RequestAllowed DEF CacheKept
<1> QED
  BY <1>5, <1>6, <1>7, <1>8

\* What an operation with one request does to the entry it names.
LEMMA WritingRequests ==
    ASSUME CA!CacheAssumption, CacheKept, NEW h \in open, NEW key \in UserKeys,
           \/ CA!Pop(h, key)
           \/ \E v \in Values, life \in {"none", "running"} : CA!Set(h, key, v, life) \/ CA!Add(h, key, v, life)
    PROVE  CacheKept'
<1> DEFINE n == CA!Prefixed(h, key)
<1>1. CacheType /\ Halfway /\ h \in Handles /\ UNCHANGED <<back, open>>
  BY DEF CacheKept, CacheType, CA!Pop, CA!Set, CA!Add, CA!Done, CA!Written
<1>2. n \in CA!Names /\ n \in CA!OwnNames(h)
  BY <1>1, PrefixedIsOwn
<1>3. store \in [CA!Names -> Entries] /\ store[n] \in Entries
  BY <1>1, <1>2 DEF CacheType
<1>4. CASE CA!Pop(h, key)
  <2> DEFINE reply == IF CA!Live(store[n]) THEN store[n].value ELSE 0
  <2>1. /\ store' = [store EXCEPT ![n] = CA!Absent] /\ CA!Request("pop", h, <<>>, n, 0, reply)
        /\ busy' = busy
    BY <1>4 DEF CA!Pop, CA!Done, CA!Default
  <2> HIDE DEF n
  <2>2. /\ store' \in [CA!Names -> Entries] /\ \A m \in CA!Names : m # n => store'[m] = store[m]
        /\ ~CA!Live(store'[n])
    BY <1>2, <1>3, <2>1, EntryKinds
  <2>3. Allowed(store, store', "pop", h, <<>>, n, 0, reply)
    BY <1>2, <2>2 DEF Allowed
  <2> HIDE DEF reply
  <2>4. \A m \in CA!Names : CA!Live(store'[m]) => CA!Live(store[m])
    BY <2>2
  <2>5. CacheType' /\ Halfway'
    BY <1>1, <2>1, <2>2, <2>4, StoreStep
  <2> QED
    BY <1>1, <2>1, <2>3, <2>5, RequestAllowed DEF CacheKept
<1>5. ASSUME NEW v \in Values, NEW life \in {"none", "running"}, CA!Set(h, key, v, life)
      PROVE  CacheKept'
  <2> DEFINE e == CA!Entry(v, life)
  <2>1. /\ store' = [store EXCEPT ![n] = e] /\ CA!Request("set", h, <<>>, n, e, TRUE)
        /\ busy' = [busy EXCEPT !.owed = busy.owed \ {n}]
    BY <1>5 DEF CA!Set, CA!Written
  <2> HIDE DEF n
  <2>2. /\ store' \in [CA!Names -> Entries] /\ \A m \in CA!Names : m # n => store'[m] = store[m]
        /\ store'[n] = e
    BY <1>2, <1>3, <2>1, EntryKinds
  <2> HIDE DEF e
  <2>3. Allowed(store, store', "set", h, <<>>, n, e, TRUE)
    BY <1>2, <2>2 DEF Allowed
  <2>4. \A m \in CA!Names : CA!Live(store'[m]) => CA!Live(store[m]) \/ m = n
    BY <2>2
  <2>5. CacheType' /\ Halfway'
    BY <1>1, <2>1, <2>2, <2>4, StoreStep
  <2> QED
    BY <1>1, <2>1, <2>3, <2>5, RequestAllowed DEF CacheKept
<1>6. ASSUME NEW v \in Values, NEW life \in {"none", "running"}, CA!Add(h, key, v, life)
      PROVE  CacheKept'
  <2> DEFINE reply == back = "redis" \/ ~CA!Contains(n)
             there == CA!Live(store[n]) \/ (back = "memory" /\ store[n].ttl = "over")
             e == CA!Entry(v, life)
  <2>1. /\ store' = IF CA!Contains(n) THEN store ELSE [store EXCEPT ![n] = e]
        /\ CA!Request("add", h, <<>>, n, e, reply)
        /\ busy' = [busy EXCEPT !.owed = busy.owed \ {n}]
    BY <1>6 DEF CA!Add, CA!Written
  <2> HIDE DEF n
  <2>2. CA!Contains(n) <=> there
    BY <1>3, EntryKinds DEF CA!Contains
  <2>3. /\ store' \in [CA!Names -> Entries] /\ \A m \in CA!Names : m # n => store'[m] = store[m]
        /\ CA!Contains(n) => store'[n] = store[n]
        /\ ~CA!Contains(n) => store'[n] = e
    BY <1>2, <1>3, <2>1, EntryKinds
  <2> HIDE DEF e
  <2>4. /\ IF there THEN store'[n] = store[n] ELSE store'[n] = e
        /\ reply = (back = "redis" \/ ~there)
    <3>1. CASE CA!Contains(n)
      BY <2>2, <2>3, <3>1
    <3>2. CASE ~CA!Contains(n)
      BY <2>2, <2>3, <3>2
    <3> QED
      BY <3>1, <3>2
  <2> HIDE DEF reply
  <2>5. Allowed(store, store', "add", h, <<>>, n, e, reply)
    BY <1>2, <2>3, <2>4 DEF Allowed
  <2>6. \A m \in CA!Names : CA!Live(store'[m]) => CA!Live(store[m]) \/ m = n
    BY <2>3
  <2>7. CacheType' /\ Halfway'
    BY <1>1, <2>1, <2>3, <2>6, StoreStep
  <2> QED
    BY <1>1, <2>1, <2>5, <2>7, RequestAllowed DEF CacheKept
<1> QED
  BY <1>4, <1>5, <1>6

\* The first of two requests changes nothing.
LEMMA FirstRequest ==
    ASSUME CacheKept, UNCHANGED <<back, open, store>>, last' = last \/ last' = CA!NoRequest, Halfway'
    PROVE  CacheKept'
<1>1. CacheType'
  BY NamesStay DEF CacheKept, CacheType
<1>2. CA!Interchangeable'
  <2>1. CA!Interchangeable
    BY DEF CacheKept
  <2>2. last.op # "none" => 
          Allowed(last.before, store, last.op, last.by, last.key, last.name, last.value, last.reply)
    BY <2>1 DEF CA!Interchangeable, Allowed, CA!Default
  <2>3. CASE last' = last
    <3>1. last'.op # "none" =>
            Allowed(last'.before, store', last'.op, last'.by, last'.key, last'.name, last'.value, last'.reply)
      BY <2>2, <2>3
    <3> QED
      BY <3>1 DEF CA!Interchangeable, Allowed, CA!Default
  <2>4. CASE last' = CA!NoRequest
    <3>1. last'.op = "none"
      BY <2>4 DEF CA!NoRequest
    <3> QED
      BY <3>1 DEF CA!Interchangeable
  <2> QED
    BY <2>3, <2>4
<1>3. Recorded'
  <2>1. "op" \in DOMAIN CA!NoRequest
    BY DEF CA!NoRequest
  <2> QED
    BY <2>1 DEF CacheKept, Recorded
<1> QED
  BY <1>1, <1>2, <1>3 DEF CacheKept

LEMMA ReplaceKeepsCache ==
    ASSUME CA!CacheAssumption, CacheKept, NEW h \in open, NEW key \in UserKeys,
           NEW v \in Values, NEW life \in {"none", "running"}, CA!Replace(h, key, v, life)
    PROVE  CacheKept'
<1> DEFINE n == CA!Prefixed(h, key)
           e == CA!Entry(v, life)
<1>1. CacheType /\ Halfway /\ h \in Handles
  BY DEF CacheKept, CacheType
<1>2. n \in CA!Names /\ n \in CA!OwnNames(h)
  BY <1>1, PrefixedIsOwn
<1>3. store \in [CA!Names -> Entries] /\ store[n] \in Entries
  BY <1>1, <1>2 DEF CacheType
<1>4. CASE back = "disk" /\ CA!Contains(n)
  <2>1. busy' = CA!Begun("replace", h, {n}, e, {}) /\ last' = CA!NoRequest /\ UNCHANGED <<back, open, store>>
    BY <1>4 DEF CA!Replace
  <2> HIDE DEF n
  <2>2. /\ busy'.op = "replace" /\ busy'.by = h /\ busy'.names = {n} /\ busy'.value.value = v
        /\ busy' = [op |-> busy'.op, by |-> busy'.by, names |-> busy'.names, value |-> busy'.value,
                   owed |-> busy'.owed]
    BY <2>1 DEF CA!Begun, CA!Entry
  <2>3. Halfway'
    BY <1>1, <1>2, <1>4, <2>1, <2>2, NamesStay DEF Halfway
  <2> QED
    BY <2>1, <2>3, FirstRequest
<1>5. CASE ~(back = "disk" /\ CA!Contains(n))
  <2> DEFINE reply == back = "redis" \/ CA!Contains(n)
             there == CA!Live(store[n]) \/ (back = "memory" /\ store[n].ttl = "over")
  <2>1. /\ store' = IF CA!Contains(n) THEN [store EXCEPT ![n] = e] ELSE store
        /\ CA!Request("replace", h, <<>>, n, e, reply) /\ UNCHANGED <<back, open>>
        /\ busy' = [busy EXCEPT !.owed = busy.owed \ {n}]
    BY <1>5 DEF CA!Replace, CA!Written
  <2> HIDE DEF n
  <2>2. CA!Contains(n) <=> there
    BY <1>3, EntryKinds DEF CA!Contains
  <2>3. /\ store' \in [CA!Names -> Entries] /\ \A m \in CA!Names : m # n => store'[m] = store[m]
        /\ ~CA!Contains(n) => store'[n] = store[n]
        /\ CA!Contains(n) => store'[n] = e
    BY <1>2, <1>3, <2>1, EntryKinds
  <2> HIDE DEF e
  <2>4. IF back = "disk"
        THEN ~reply /\ ~CA!Live(store[n]) /\ ~CA!Live(store'[n])
        ELSE /\ IF there THEN store'[n] = e ELSE ~CA!Live(store'[n])
             /\ reply = (back = "redis" \/ there)
    <3>1. CASE CA!Contains(n)
      BY <1>5, <2>2, <2>3, <3>1
    <3>2. CASE ~CA!Contains(n)
      BY <2>2, <2>3, <3>2
    <3> QED
      BY <3>1, <3>2
  <2> HIDE DEF reply
  <2>5. Allowed(store, store', "replace", h, <<>>, n, e, reply)
    BY <1>2, <2>3, <2>4 DEF Allowed
  <2>6. \A m \in CA!Names : CA!Live(store'[m]) => CA!Live(store[m]) \/ m = n
    BY <2>3
  <2>7. CacheType' /\ Halfway'
    BY <1>1, <2>1, <2>3, <2>6, StoreStep
  <2> QED
    BY <1>1, <2>1, <2>5, <2>7, RequestAllowed DEF CacheKept
<1> QED
  BY <1>4, <1>5

LEMMA DeleteKeepsCache ==
    ASSUME CA!CacheAssumption, CacheKept, NEW h \in open, NEW key \in UserKeys, CA!Delete(h, key)
    PROVE  CacheKept'
<1> DEFINE n == CA!Prefixed(h, key)
<1>1. CacheType /\ Halfway /\ h \in Handles
  BY DEF CacheKept, CacheType
<1>2. n \in CA!Names /\ n \in CA!OwnNames(h)
  BY <1>1, PrefixedIsOwn
<1>3. store \in [CA!Names -> Entries] /\ store[n] \in Entries
  BY <1>1, <1>2 DEF CacheType
<1>4. CASE back = "disk" /\ CA!Contains(n)
  <2>1. busy' = CA!Begun("delete", h, {n}, 0, {}) /\ last' = CA!NoRequest /\ UNCHANGED <<back, open, store>>
    BY <1>4 DEF CA!Delete
  <2> HIDE DEF n
  <2>2. /\ busy'.op = "delete" /\ busy'.by = h /\ busy'.names = {n}
        /\ busy' = [op |-> busy'.op, by |-> busy'.by, names |-> busy'.names, value |-> busy'.value,
                   owed |-> busy'.owed]
    BY <2>1 DEF CA!Begun
  <2>3. Halfway'
    BY <1>1, <1>2, <1>4, <2>1, <2>2, NamesStay DEF Halfway
  <2> QED
    BY <2>1, <2>3, FirstRequest
<1>5. CASE ~(back = "disk" /\ CA!Contains(n))
  <2> DEFINE reply == CA!Contains(n)
             there == CA!Live(store[n]) \/ (back = "memory" /\ store[n].ttl = "over")
  <2>1. /\ store' = IF back = "disk" THEN store ELSE [store EXCEPT ![n] = CA!Absent]
        /\ CA!Request("delete", h, <<>>, n, 0, reply) /\ UNCHANGED <<back, open, busy>>
    BY <1>5 DEF CA!Delete, CA!Done
  <2> HIDE DEF n
  <2>2. reply = there /\ (back = "disk" => ~CA!Live(store[n]))
    BY <1>3, <1>5, EntryKinds DEF CA!Contains, CA!Live
  <2>3. /\ store' \in [CA!Names -> Entries] /\ \A m \in CA!Names : m # n => store'[m] = store[m]
        /\ back = "disk" \/ store'[n] = CA!Absent
        /\ back = "disk" => store'[n] = store[n]
    BY <1>2, <1>3, <2>1, EntryKinds
  <2>4. ~CA!Live(store'[n])
    BY <2>2, <2>3, EntryKinds
  <2> HIDE DEF reply
  <2>5. Allowed(store, store', "delete", h, <<>>, n, 0, reply)
    BY <1>2, <2>2, <2>3, <2>4 DEF Allowed
  <2>6. \A m \in CA!Names : CA!Live(store'[m]) => CA!Live(store[m])
    BY <2>3, <2>4
  <2>7. CacheType' /\ Halfway'
    BY <1>1, <2>1, <2>3, <2>6, StoreStep
  <2> QED
    BY <1>1, <2>1, <2>5, <2>7, RequestAllowed DEF CacheKept
<1> QED
  BY <1>4, <1>5

LEMMA ClearKeepsCache ==
    ASSUME CacheKept, NEW h \in open, CA!Clear(h)
    PROVE  CacheKept'
<1> DEFINE living == {n \in CA!OwnNames(h) : CA!Live(store[n])}
<1>1. CacheType /\ Halfway /\ h \in Handles
  BY DEF CacheKept, CacheType
<1>2. CASE /\ store' = [n \in CA!Names |-> IF n \in CA!OwnNames(h) THEN CA!Absent ELSE store[n]]
           /\ CA!Done("clear", h, <<>>, <<>>, living, TRUE)
  <2>1. CA!Request("clear", h, <<>>, <<>>, living, TRUE) /\ UNCHANGED <<back, open, busy>>
    BY <1>2 DEF CA!Done
  <2>2. store' \in [CA!Names -> Entries]
    BY <1>1, <1>2, EntryKinds DEF CacheType
  <2>3. /\ \A m \in CA!Names \ CA!OwnNames(h) : store'[m] = store[m]
        /\ \A m \in CA!OwnNames(h) : ~CA!Live(store'[m])
    BY <1>2, EntryKinds DEF CA!OwnNames
  <2>4. Allowed(store, store', "clear", h, <<>>, <<>>, living, TRUE)
    BY <2>3 DEF Allowed
  <2>5. \A m \in CA!Names : CA!Live(store'[m]) => CA!Live(store[m])
    BY <2>3
  <2>6. CacheType' /\ Halfway'
    BY <1>1, <2>1, <2>2, <2>5, StoreStep
  <2> HIDE DEF living
  <2> QED
    BY <1>1, <2>1, <2>4, <2>6, RequestAllowed DEF CacheKept
<1>3. CASE /\ h # "" /\ back # "memory"
           /\ busy' = CA!Begun("clear", h, CA!Listed(h), 0, living)
           /\ last' = CA!NoRequest /\ UNCHANGED <<back, open, store>>
  <2>1. /\ busy'.op = "clear" /\ busy'.by = h /\ busy'.names = CA!Listed(h) /\ busy'.owed = living
        /\ busy' = [op |-> busy'.op, by |-> busy'.by, names |-> busy'.names, value |-> busy'.value,
                   owed |-> busy'.owed]
    BY <1>3 DEF CA!Begun
  <2>2. /\ CA!Listed(h) \subseteq CA!OwnNames(h) /\ living \subseteq CA!OwnNames(h)
        /\ \A m \in living \ CA!Listed(h) : Missed(h, m)
    BY DEF CA!Listed, Missed
  <2>3. \A x, m : Missed(x, m)' <=> Missed(x, m)
    BY <1>3 DEF Missed, CA!Own
  <2>4. Halfway'
    BY <1>1, <1>3, <2>1, <2>2, <2>3, NamesStay DEF Halfway
  <2> QED
    BY <1>3, <2>4, FirstRequest
<1> QED
  BY <1>2, <1>3 DEF CA!Clear

\* The second request of replace and delete, and the later ones of clear.
LEMMA SecondRequest ==
    ASSUME CA!CacheAssumption, CacheKept, CA!FinishReplace \/ CA!FinishDelete \/ CA!ClearNext
    PROVE  CacheKept'
<1>1. CacheType /\ Halfway /\ UNCHANGED <<back, open>>
  BY DEF CacheKept, CA!FinishReplace, CA!FinishDelete, CA!ClearNext
<1>2. store \in [CA!Names -> Entries]
  BY <1>1 DEF CacheType
<1>i. CA!Idle.op = "none" /\ CA!Idle = [op |-> CA!Idle.op, by |-> CA!Idle.by, names |-> CA!Idle.names,
                                       value |-> CA!Idle.value, owed |-> CA!Idle.owed]
  BY DEF CA!Idle
<1>3. CASE CA!FinishReplace
  <2> DEFINE e == CA!Entry(busy.value.value, "none")
  <2>1. PICK n \in busy.names :
          /\ store' = [store EXCEPT ![n] = e]
          /\ CA!Request("replace", busy.by, <<>>, n, busy.value, TRUE)
    BY <1>3 DEF CA!FinishReplace
  <2>2. busy.op = "replace" /\ busy' = CA!Idle
    BY <1>3 DEF CA!FinishReplace
  <2>3. back = "disk" /\ n \in CA!OwnNames(busy.by) /\ n \in CA!Names /\ busy.value.value \in Values
    BY <1>1, <2>1, <2>2 DEF Halfway, CA!OwnNames
  <2>4. /\ store' \in [CA!Names -> Entries] /\ \A m \in CA!Names : m # n => store'[m] = store[m]
        /\ store'[n] = e
    BY <1>2, <2>1, <2>3, EntryKinds
  <2>5. Allowed(store, store', "replace", busy.by, <<>>, n, busy.value, TRUE)
    BY <2>3, <2>4 DEF Allowed
  <2>6. CacheType' /\ Halfway'
    BY <1>1, <1>i, <2>2, <2>4, NamesStay DEF CacheType, Halfway
  <2> QED
    BY <1>1, <2>1, <2>5, <2>6, RequestAllowed DEF CacheKept
<1>4. CASE CA!FinishDelete
  <2>1. PICK n \in busy.names :
          /\ store' = IF CA!Contains(n) THEN [store EXCEPT ![n] = CA!Absent] ELSE store
          /\ CA!Request("delete", busy.by, <<>>, n, 0, CA!Contains(n))
    BY <1>4 DEF CA!FinishDelete
  <2>2. busy.op = "delete" /\ busy' = CA!Idle
    BY <1>4 DEF CA!FinishDelete
  <2>3. back = "disk" /\ n \in CA!OwnNames(busy.by) /\ n \in CA!Names
    BY <1>1, <2>1, <2>2 DEF Halfway, CA!OwnNames
  <2>4. CA!Contains(n) = CA!Live(store[n])
    BY <2>3 DEF CA!Contains
  <2>5. /\ store' \in [CA!Names -> Entries] /\ \A m \in CA!Names : m # n => store'[m] = store[m]
        /\ ~CA!Live(store'[n])
    BY <1>2, <2>1, <2>3, <2>4, EntryKinds
  <2> DEFINE reply == CA!Contains(n)
  <2>r. /\ reply = (CA!Live(store[n]) \/ (back = "memory" /\ store[n].ttl = "over"))
        /\ CA!Request("delete", busy.by, <<>>, n, 0, reply)
    BY <2>1, <2>3, <2>4 DEF CA!Live
  <2> HIDE DEF reply
  <2>6. Allowed(store, store', "delete", busy.by, <<>>, n, 0, reply)
    BY <2>3, <2>r, <2>5 DEF Allowed
  <2>7. CacheType' /\ Halfway'
    BY <1>1, <1>i, <2>2, <2>5, NamesStay DEF CacheType, Halfway
  <2> QED
    BY <1>1, <2>r, <2>6, <2>7, RequestAllowed DEF CacheKept
<1>5. CASE CA!ClearNext /\ busy.names = {}
  <2>1. /\ busy' = CA!Idle /\ store' = store /\ busy.op = "clear"
        /\ CA!Request("clear", busy.by, <<>>, <<>>, busy.owed, TRUE)
    BY <1>5 DEF CA!ClearNext
  <2>2. CacheType' /\ Halfway'
    BY <1>1, <1>i, <2>1, NamesStay DEF CacheType, Halfway
  <2>3. busy.by # "" /\ \A m \in busy.owed : CA!Live(store[m]) => Missed(busy.by, m)
    BY <1>1, <1>5, <2>1 DEF Halfway
  <2>4. Allowed(store, store', "clear", busy.by, <<>>, <<>>, busy.owed, TRUE)
    BY <2>1, <2>3 DEF Allowed, Missed
  <2> QED
    BY <1>1, <2>1, <2>2, <2>4, RequestAllowed DEF CacheKept
<1>6. CASE CA!ClearNext /\ busy.names # {}
  <2>1. PICK listed \in busy.names :
          LET n == CA!Prefixed(busy.by, CA!Unprefixed(busy.by, listed)) IN
          /\ store' = [store EXCEPT ![n] = CA!Absent]
          /\ busy' = [busy EXCEPT !.names = busy.names \ {listed}]
          /\ CA!Request("delete", busy.by, <<>>, n, 0, CA!Contains(n))
    BY <1>6 DEF CA!ClearNext
  <2> DEFINE n == CA!Prefixed(busy.by, CA!Unprefixed(busy.by, listed))
  <2>2. busy.op = "clear"
    BY <1>6 DEF CA!ClearNext
  <2>3. /\ back # "memory" /\ busy.by \in Handles /\ busy.by # "" /\ listed \in CA!OwnNames(busy.by)
        /\ busy.owed \subseteq CA!OwnNames(busy.by) /\ busy.names \subseteq CA!OwnNames(busy.by)
        /\ \A m \in busy.owed \ busy.names : CA!Live(store[m]) => Missed(busy.by, m)
    BY <1>1, <2>1, <2>2 DEF Halfway
  <2>4. n \in CA!Names /\ n \in CA!OwnNames(busy.by) /\ (n # listed => CA!Own(busy.by, Tail(listed)))
    BY <2>3, StrippedIsOwn
  <2>5. /\ store' = [store EXCEPT ![n] = CA!Absent]
        /\ busy' = [busy EXCEPT !.names = busy.names \ {listed}]
        /\ CA!Request("delete", busy.by, <<>>, n, 0, CA!Contains(n))
    BY <2>1
  <2> HIDE DEF n
  <2>6. CA!Contains(n) = CA!Live(store[n])
    BY <2>3 DEF CA!Contains
  <2>7. /\ store' \in [CA!Names -> Entries] /\ \A m \in CA!Names : m # n => store'[m] = store[m]
        /\ ~CA!Live(store'[n])
    BY <1>2, <2>4, <2>5, EntryKinds
  <2> DEFINE reply == CA!Contains(n)
  <2>q. reply = (CA!Live(store[n]) \/ (back = "memory" /\ store[n].ttl = "over"))
    <3>1. back # "memory"
      BY <2>3
    <3> QED
      BY <2>6, <3>1 DEF CA!Live
  <2>r. CA!Request("delete", busy.by, <<>>, n, 0, reply)
    BY <2>5
  <2> HIDE DEF reply
  <2>8. Allowed(store, store', "delete", busy.by, <<>>, n, 0, reply)
    BY <2>3, <2>4, <2>q, <2>7 DEF Allowed
  <2>9. /\ busy'.op = "clear" /\ busy'.by = busy.by /\ busy'.names = busy.names \ {listed}
        /\ busy'.owed = busy.owed
        /\ busy' = [op |-> busy'.op, by |-> busy'.by, names |-> busy'.names, value |-> busy'.value,
                   owed |-> busy'.owed]
    BY <1>1, <2>2, <2>5 DEF Halfway
  <2>10. \A m \in busy'.owed \ busy'.names : CA!Live(store'[m]) => Missed(busy.by, m)
    <3> SUFFICES ASSUME NEW m \in busy.owed, m \notin busy.names \ {listed}, CA!Live(store'[m])
                 PROVE  Missed(busy.by, m)
      BY <2>9
    <3>1. m # n /\ m \in CA!Names /\ store'[m] = store[m]
      BY <2>3, <2>7 DEF CA!OwnNames
    <3>2. CASE m = listed
      BY <1>1, <2>3, <2>4, <3>1, <3>2 DEF Missed, CacheType
    <3>3. CASE m \notin busy.names
      BY <2>3, <3>1, <3>3
    <3> QED
      BY <3>2, <3>3
  <2>11. Halfway'
    <3>1. \A x, m : Missed(x, m)' <=> Missed(x, m)
      BY <1>1 DEF Missed, CA!Own
    <3> QED
      BY <1>1, <2>3, <2>9, <2>10, <3>1, NamesStay DEF Halfway
  <2>12. CacheType'
    BY <1>1, <2>7, NamesStay DEF CacheType
  <2> QED
    BY <1>1, <2>r, <2>8, <2>11, <2>12, RequestAllowed DEF CacheKept
<1> QED
  BY <1>3, <1>4, <1>5, <1>6

LEMMA ExpireKeepsCache ==
    ASSUME CacheKept, NEW n \in CA!Names, CA!Expire(n)
    PROVE  CacheKept'
<1>1. CacheType /\ Halfway /\ UNCHANGED <<back, open, busy>>
  BY DEF CacheKept, CA!Expire
<1>2. store \in [CA!Names -> Entries] /\ store[n] \in Entries /\ store[n].ttl = "running"
  BY <1>1 DEF CacheType, CA!Expire
<1>3. [store[n] EXCEPT !.ttl = "over"] \in Entries /\ CA!Absent \in Entries
  BY <1>2, EntryKinds DEF Entries
<1>4. store' \in [CA!Names -> Entries]
  BY <1>2, <1>3 DEF CA!Expire
<1>5. last' = CA!NoRequest
  BY DEF CA!Expire
<1>6. last'.op = "none" /\ Recorded'
  BY <1>5 DEF Recorded, CA!NoRequest
<1>7. CA!Interchangeable'
  BY <1>6 DEF CA!Interchangeable
<1>8. \A m \in CA!Names : CA!Live(store'[m]) => CA!Live(store[m])
  BY <1>2, EntryKinds DEF CA!Expire, CA!Live
<1>9. CacheType' /\ Halfway'
  BY <1>1, <1>4, <1>8, StoreStep
<1> QED
  BY <1>6, <1>7, <1>9 DEF CacheKept

\* What one request through the interface answers and leaves behind does not
\* depend on the store behind it, but for the listed departures, whatever the
\* other handles and processes do between the two requests of a replace, a
\* delete or a clear (memory.py, diskcache.py and redis.py of storage/cache).  The
\* invariant adds what a method that is halfway knows: the names it is about
\* to write are its own handle's.
THEOREM CachesStandIn == UnitsSpec => []Interchangeable
<1> DEFINE Inv == focus = "cache" => CacheKept
<1> USE UnitAssumption
<1>1. UnitsInit => Inv
  BY InitCache DEF UnitsInit
<1>2. Inv /\ [UnitsNext]_coreVars => Inv'
  <2> SUFFICES ASSUME Inv, [UnitsNext]_coreVars, focus' = "cache"
               PROVE  CacheKept'
    OBVIOUS
  <2>1. focus = "cache" /\ CacheKept
    BY DEF UnitsNext, coreVars
  <2>c. CA!CacheAssumption
    BY DEF UnitAssumption
  <2>2. CASE CA!Next
    <3>1. ASSUME NEW h \in open, CA!Iterkeys(h) \/ CA!Size(h)
          PROVE  CacheKept'
      BY <2>1, <2>c, <3>1, CleaningRequests
    <3>2. ASSUME NEW h \in open, CA!Clear(h)
          PROVE  CacheKept'
      BY <2>1, <3>2, ClearKeepsCache
    <3>3. ASSUME NEW h \in open, NEW key \in UserKeys, CA!Keyed(h, key)
          PROVE  CacheKept'
      <4>1. CASE CA!Get(h, key) \/ CA!Exists(h, key)
        BY <2>1, <2>c, <4>1, CleaningRequests
      <4>2. CASE CA!Pop(h, key)
        BY <2>1, <2>c, <4>2, WritingRequests
      <4>3. CASE CA!Delete(h, key)
        BY <2>1, <2>c, <4>3, DeleteKeepsCache
      <4>4. ASSUME NEW v \in Values, NEW life \in {"none", "running"},
                   CA!Set(h, key, v, life) \/ CA!Add(h, key, v, life)
            PROVE  CacheKept'
        BY <2>1, <2>c, <4>4, WritingRequests
      <4>5. ASSUME NEW v \in Values, NEW life \in {"none", "running"}, CA!Replace(h, key, v, life)
            PROVE  CacheKept'
        BY <2>1, <2>c, <4>5, ReplaceKeepsCache
      <4> QED
        BY <3>3, <4>1, <4>2, <4>3, <4>4, <4>5 DEF CA!Keyed
    <3>4. CASE CA!FinishReplace \/ CA!FinishDelete \/ CA!ClearNext
      BY <2>1, <2>c, <3>4, SecondRequest
    <3>5. ASSUME NEW n \in CA!Names, CA!Expire(n)
          PROVE  CacheKept'
      BY <2>1, <3>5, ExpireKeepsCache
    <3> QED
      BY <2>2, <3>1, <3>2, <3>3, <3>4, <3>5 DEF CA!Next
  <2>3. CASE UNCHANGED cacheVars
    <3>1. UNCHANGED <<back, open, store, last, busy>>
      BY <2>3 DEF cacheVars
    <3>2. Halfway'
      <4>1. \A x, m : Missed(x, m)' <=> Missed(x, m)
        BY <3>1 DEF Missed, CA!Own
      <4> QED
        BY <2>1, <3>1, <4>1, NamesStay DEF CacheKept, Halfway
    <3> QED
      BY <2>1, <3>1, <3>2, FirstRequest
  <2> QED
    BY <2>1, <2>2, <2>3 DEF UnitsNext, coreVars
<1>3. Inv => Interchangeable
  BY DEF CacheKept, Interchangeable
<1> QED
  BY <1>1, <1>2, <1>3, PTL DEF UnitsSpec

-----------------------------------------------------------------------------
(* The extract step *)

ExtractType ==
    /\ setting \in Settings
    /\ recorded \in Nat /\ since \in Nat /\ until \in {0, since} /\ firstDay \in Nat
    /\ partitions \in Seq(EP!Days) /\ length \in Nat /\ Len(partitions) <= length
    /\ clause \subseteq EP!Days
    /\ streaming \in BOOLEAN
    /\ streaming => partitions # <<>>

\* The first day of a database run has the clause of the step to itself; a
\* later one is left what Left says, and once it is planned that is the clause.
Fresh ==
    partitions # <<>> /\ ~streaming /\ setting.source = "database" =>
        /\ Len(partitions) = length => clause = setting.kept
        /\ Len(partitions) < length =>
              clause \cap EP!Predicate(Head(partitions)) = EP!Owed(Head(partitions)) \cap EP!Left
Planned ==
    streaming /\ setting.source = "database" =>
        clause = EP!Owed(Head(partitions)) \cap EP!Left

\* What has been written and what is still with the workers are the rows the
\* day owes, or some of them, within the limit.
Due == EP!RowsOf(EP!Owed(Head(partitions)) \cap EP!Left)
InWindow ==
    /\ extracted \cup UNION units \subseteq Due
    /\ setting.limit = EP!Unlimited => Due \subseteq extracted \cup UNION units
    /\ setting.limit # EP!Unlimited => Cardinality(extracted) <= setting.limit
    /\ \A u, v \in split : u # v => u \cap v = {}

\* One worker has the limit, or all rows, in a single unit.
AsMany(n) == n = IF Cardinality(Due) < setting.limit THEN Cardinality(Due) ELSE setting.limit
OneUnit ==
    (setting.limit # EP!Unlimited /\ \E u \in split : split = {u} /\ u # {}) =>
        \/ extracted = {} /\ units = {} /\ Due = {}
        \/ /\ extracted = {}
           /\ \E w \in units : units = {w} /\ (Cardinality(w) >= setting.limit \/ w = Due)
        \/ units = {} /\ AsMany(Cardinality(extracted))
Streamed == streaming => InWindow /\ OneUnit

\* The days of a run follow one another from the checkpoint; only a delta run
\* that has a checkpoint has several.  The record of a CDC run is an offset.
Schedule ==
    /\ (recorded = 0) <=> (firstDay = 0)
    /\ recordedType = IF setting.mode = "cdc" /\ recorded # 0 THEN "LSN_OFFSET" ELSE "UPDATE_KEY"
    /\ partitions # <<>> =>
         /\ (since = 0) <=> (recorded = 0)
         /\ setting.mode = "delta" => since = 0 \/ Head(partitions) <= since + 1
         /\ Len(partitions) > 1 => since # 0 /\ Head(partitions) = since + 1
         /\ \A i \in 1 .. Len(partitions) - 1 : partitions[i + 1] = partitions[i] + 1
         /\ Len(partitions) < length => since # 0 /\ Head(partitions) = since + 1
         /\ Len(partitions) = length => until = 0
         /\ length > 1 => setting.mode = "delta"

\* All rows up to day x are there, for a partition date from the first day on.
Covered(x) ==
    \A r \in EP!RowsOf(setting.kept) :
        /\ DayOf[r] <= x /\ DayOf[r] \notin jumped
        /\ setting.key = "partition_date" => DayOf[r] >= firstDay
        => r \in done
Exact == setting.limit = EP!Unlimited /\ setting.mode \in {"delta", "cdc"}
Caught == Exact => Covered(recorded) /\ Covered(since)

ExtractInv == ExtractType /\ Fresh /\ Planned /\ Streamed /\ Schedule /\ Caught

-----------------------------------------------------------------------------
LEMMA SetsAsExtracted ==
    /\ \A S : EP!IsFiniteSet(S) <=> IsFiniteSet(S)
    /\ \A S : EP!Cardinality(S) = Cardinality(S)
BY Zenon DEF EP!Cardinality, Cardinality, EP!IsFiniteSet, IsFiniteSet

LEMMA SourceKnown ==
    ASSUME EP!ExtractAssumption
    PROVE  /\ LastDay \in Nat /\ IsFiniteSet(EP!Rows) /\ EP!Days \subseteq Nat \ {0}
           /\ \A r \in EP!Rows : DayOf[r] \in EP!Days /\ Hash[r] \in Nat
           /\ \A days : EP!RowsOf(days) \subseteq EP!Rows
           /\ \A S \in SUBSET EP!Rows : IsFiniteSet(S) /\ Cardinality(S) \in Nat
<1>1. LastDay \in Nat /\ IsFiniteSet(EP!Rows)
  BY SetsAsExtracted DEF EP!ExtractAssumption
<1>2. EP!Days \subseteq Nat \ {0}
  BY <1>1 DEF EP!Days
<1>3. \A r \in EP!Rows : DayOf[r] \in EP!Days /\ Hash[r] \in Nat
  BY DEF EP!ExtractAssumption
<1>4. \A days : EP!RowsOf(days) \subseteq EP!Rows
  BY DEF EP!RowsOf
<1>5. \A S \in SUBSET EP!Rows : IsFiniteSet(S) /\ Cardinality(S) \in Nat
  BY <1>1, FS_Subset, FS_CardinalityType
<1> QED
  BY <1>1, <1>2, <1>3, <1>4, <1>5

LEMMA SettingKnown ==
    ASSUME EP!ExtractAssumption, setting \in Settings
    PROVE  /\ setting.source \in {"database", "file"}
           /\ setting.limit \in Nat /\ setting.workers \in Nat /\ setting.kept \subseteq EP!Days
           /\ setting.mode \in {"delta", "cdc", "snapshot", "full_refresh"}
           /\ setting.key \in {"range", "partition_date", "mtime", "none"}
BY DEF EP!ExtractAssumption

\* The predicate of a day admits the days it owes.
LEMMA PredicateOwed ==
    ASSUME EP!ExtractAssumption, setting \in Settings, since \in Nat, Schedule, partitions # <<>>,
           Len(partitions) = length \/ setting.mode # "cdc", NEW day \in EP!Days
    PROVE  EP!Owed(day) = setting.kept \cap EP!Predicate(day)
<1>1. EP!Days \subseteq Nat \ {0} /\ day \in Nat
  BY SourceKnown
<1>2. setting.key \in {"range", "partition_date", "mtime", "none"}
  BY SettingKnown
<1>5. \A d \in EP!Days : /\ (since = 0 \/ d > since) <=> d > since
                         /\ (since = 0 \/ d >= since) <=> d >= since
                         /\ d < day + 1 <=> d <= day
  <2> SUFFICES ASSUME NEW d \in EP!Days
               PROVE  /\ (since = 0 \/ d > since) <=> d > since
                      /\ (since = 0 \/ d >= since) <=> d >= since
                      /\ d < day + 1 <=> d <= day
    OBVIOUS
  <2>1. d \in Nat /\ d # 0 /\ day \in Nat /\ since \in Nat
    BY <1>1
  <2> QED
    BY <2>1
<1>3. CASE setting.mode \in {"snapshot", "full_refresh"} \/ setting.key = "none"
  BY <1>2, <1>3 DEF EP!Owed, EP!Predicate, EP!IncrementalFilter
<1>4. CASE setting.mode \notin {"snapshot", "full_refresh"} /\ setting.key # "none"
  <2>1. EP!Predicate(day) = EP!IncrementalFilter(since, until, day)
    BY <1>4 DEF EP!Predicate
  <2>2. CASE setting.mode = "cdc" /\ recorded # 0
    <3>1. recordedType = "LSN_OFFSET" /\ until = 0
      BY <2>2 DEF Schedule
    <3>2. EP!Predicate(day) = {d \in EP!Days : since = 0 \/ d > since}
      BY <1>4, <2>1, <3>1 DEF EP!IncrementalFilter
    <3>3. EP!Owed(day) = setting.kept \cap {d \in EP!Days : d > since}
      BY <1>4, <2>2 DEF EP!Owed
    <3> QED
      BY <1>5, <3>2, <3>3
  <2>3. CASE ~(setting.mode = "cdc" /\ recorded # 0)
    <3>1. recordedType = "UPDATE_KEY"
      BY <2>3 DEF Schedule
    <3>2. EP!Owed(day) =
            setting.kept \cap {d \in EP!Days :
                /\ setting.key \in {"mtime", "range"} => d >= since
                /\ setting.key = "range" => d <= day
                /\ setting.key = "partition_date" => d = day}
      BY <1>4, <2>3 DEF EP!Owed
    <3>3. CASE setting.key = "range"
      <4>1. EP!Predicate(day) = {d \in EP!Days : (since = 0 \/ d >= since) /\ d < day + 1}
        BY <2>1, <3>1, <3>3 DEF EP!IncrementalFilter
      <4>2. EP!Predicate(day) = {d \in EP!Days : d >= since /\ d <= day}
        BY <1>5, <4>1
      <4>3. EP!Owed(day) = setting.kept \cap {d \in EP!Days : d >= since /\ d <= day}
        BY <3>2, <3>3
      <4> QED
        BY <4>2, <4>3
    <3>4. CASE setting.key = "partition_date"
      <4>1. EP!Predicate(day) = {day}
        BY <2>1, <3>1, <3>4 DEF EP!IncrementalFilter
      <4> QED
        BY <1>1, <3>2, <3>4, <4>1
    <3>5. CASE setting.key = "mtime"
      <4>1. EP!Predicate(day) = {d \in EP!Days : since = 0 \/ d >= since}
        BY <2>1, <3>1, <3>5 DEF EP!IncrementalFilter
      <4>2. EP!Predicate(day) = {d \in EP!Days : d >= since}
        BY <1>5, <4>1
      <4>3. EP!Owed(day) = setting.kept \cap {d \in EP!Days : d >= since}
        BY <3>2, <3>5
      <4> QED
        BY <4>2, <4>3
    <3> QED
      BY <1>2, <1>4, <3>3, <3>4, <3>5
  <2> QED
    BY <2>2, <2>3
<1> QED
  BY <1>3, <1>4

\* Only a later day of a database run is narrowed.
LEMMA WholeLeft ==
    ASSUME ~EP!Narrowed PROVE EP!Left = EP!Days
BY DEF EP!Left

LEMMA DaysLeft ==
    ASSUME EP!ExtractAssumption, ExtractType, partitions # <<>>
    PROVE  /\ Len(partitions) \in Nat \ {0} /\ Head(partitions) \in EP!Days
           /\ Head(partitions) = partitions[1] /\ Head(partitions) \in Nat \ {0}
           /\ Tail(partitions) \in Seq(EP!Days) /\ Len(Tail(partitions)) = Len(partitions) - 1
           /\ \A i \in 1 .. Len(partitions) - 1 : Tail(partitions)[i] = partitions[i + 1]
<1>1. partitions \in Seq(EP!Days)
  BY DEF ExtractType
<1>2. Len(partitions) \in Nat
  BY <1>1, LenProperties
<1>3. Len(partitions) # 0
  BY <1>1, EmptySeq
<1>4. /\ Head(partitions) \in EP!Days /\ Tail(partitions) \in Seq(EP!Days)
      /\ Len(Tail(partitions)) = Len(partitions) - 1
      /\ \A i \in 1 .. Len(Tail(partitions)) : Tail(partitions)[i] = partitions[i + 1]
  BY <1>1, HeadTailProperties
<1>5. Head(partitions) = partitions[1]
  BY <1>1
<1> QED
  BY <1>2, <1>3, <1>4, <1>5, SourceKnown

LEMMA MostOf == ASSUME NEW x \in Nat PROVE EP!Max({1, x}) \in Nat \ {0}
<1> DEFINE y == EP!Max({1, x})
<1>1. \E z \in {1, x} : \A w \in {1, x} : z >= w
  OBVIOUS
<1>2. y \in {1, x} /\ y >= 1
  BY <1>1 DEF EP!Max
<1> HIDE DEF y
<1>3. y \in Nat \ {0}
  BY <1>2
<1> QED
  BY <1>3 DEF y

LEMMA LeastOf ==
    ASSUME NEW x \in Nat, NEW y \in Nat PROVE EP!Min({x, y}) = IF y < x THEN y ELSE x
<1> DEFINE z == EP!Min({x, y})
<1>1. \E v \in {x, y} : \A w \in {x, y} : v <= w
  OBVIOUS
<1>2. z \in {x, y} /\ z <= x /\ z <= y
  BY <1>1 DEF EP!Min
<1> HIDE DEF z
<1>3. z = IF y < x THEN y ELSE x
  BY <1>2
<1> QED
  BY <1>3 DEF z

\* There is at least one worker.
LEMMA SomeWorker ==
    ASSUME EP!ExtractAssumption, setting \in Settings, NEW total \in Nat
    PROVE  EP!NumWorkers(total) \in Nat \ {0}
<1> DEFINE wanted == IF setting.workers > 0 THEN setting.workers ELSE (total * ColumnCount) \div MaxCells
<1> DEFINE floored == IF wanted > 0 /\ total \div wanted < MinRows THEN total \div MinRows ELSE wanted
<1>1. /\ ColumnCount \in Nat /\ MaxCells \in Nat \ {0} /\ MinRows \in Nat \ {0} /\ setting.workers \in Nat
  BY SettingKnown DEF EP!ExtractAssumption
<1>2. total * ColumnCount \in Nat
  BY <1>1
<1>3. (total * ColumnCount) \div MaxCells \in Nat /\ total \div MinRows \in Nat
  BY <1>1, <1>2
<1>4. wanted \in Nat
  BY <1>1, <1>3
<1> HIDE DEF wanted
<1>5. floored \in Nat
  BY <1>3, <1>4
<1>6. EP!NumWorkers(total) = EP!Max({1, floored})
  BY DEF EP!NumWorkers, wanted
<1> HIDE DEF floored
<1> QED
  BY <1>5, <1>6, MostOf

-----------------------------------------------------------------------------
\* The shards of a window do not overlap; they hold it, or the limit draws
\* from it, and a single one that is not empty holds all of its draw.
LEMMA ShardsOfWindow ==
    ASSUME EP!ExtractAssumption, setting \in Settings, NEW W \in SUBSET EP!Rows, NEW n \in Nat \ {0},
           NEW shards \in EP!Shards(W, n)
    PROVE  /\ \A u \in shards : u \subseteq W
           /\ setting.limit = EP!Unlimited => W \subseteq UNION shards
           /\ \A u, v \in shards : u # v => u \cap v = {}
           /\ \A u \in shards : setting.limit # EP!Unlimited /\ shards = {u} /\ u # {} =>
                Cardinality(u) >= setting.limit \/ u = W
<1> DEFINE Shard(draw, i) == {r \in draw[i] : Hash[r] % n = i}
<1>1. PICK draw \in [0 .. n - 1 -> EP!Draws(W)] : shards = {Shard(draw, i) : i \in 0 .. n - 1}
  BY DEF EP!Shards
<1>2. \A i \in 0 .. n - 1 :
         /\ draw[i] \subseteq W
         /\ setting.limit = EP!Unlimited => draw[i] = W
         /\ draw[i] = W \/ Cardinality(draw[i]) = setting.limit
  BY SetsAsExtracted DEF EP!Draws, EP!kSubset
<1>3. \A r \in W : Hash[r] % n \in 0 .. n - 1
  <2> SUFFICES ASSUME NEW r \in W PROVE Hash[r] % n \in 0 .. n - 1
    OBVIOUS
  <2>1. Hash[r] \in Nat
    BY SourceKnown
  <2> QED
    BY <2>1
<1>4. \A u \in shards : \E i \in 0 .. n - 1 : u = Shard(draw, i)
  BY <1>1
<1>5. \A i \in 0 .. n - 1 : Shard(draw, i) \in shards
  BY <1>1
<1>6. \A u \in shards : u \subseteq W
  BY <1>2, <1>4
<1>7. ASSUME setting.limit = EP!Unlimited, NEW r \in W PROVE r \in UNION shards
  <2>1. r \in Shard(draw, Hash[r] % n)
    BY <1>2, <1>3, <1>7
  <2> QED
    BY <1>3, <1>5, <2>1
<1>8. \A u, v \in shards : u # v => u \cap v = {}
  <2> SUFFICES ASSUME NEW u \in shards, NEW v \in shards, NEW r \in u \cap v PROVE u = v
    OBVIOUS
  <2>1. PICK i \in 0 .. n - 1 : u = Shard(draw, i)
    BY <1>4
  <2>2. PICK j \in 0 .. n - 1 : v = Shard(draw, j)
    BY <1>4
  <2>3. i = j
    BY <2>1, <2>2
  <2> QED
    BY <2>1, <2>2, <2>3
<1>9. ASSUME NEW u \in shards, shards = {u}, u # {}
      PROVE  Cardinality(u) >= setting.limit \/ u = W
  <2>1. PICK r \in u : TRUE
    BY <1>9
  <2>2. \A i \in 0 .. n - 1 : Shard(draw, i) = u
    BY <1>5, <1>9
  <2>3. n = 1
    <3>1. \A i \in 0 .. n - 1 : Hash[r] % n = i
      BY <2>1, <2>2
    <3>2. 0 \in 0 .. n - 1 /\ n - 1 \in 0 .. n - 1
      OBVIOUS
    <3>3. n - 1 = 0
      BY <3>1, <3>2
    <3> QED
      BY <3>3
  <2>4. \A q \in W : Hash[q] % n = 0
    BY <1>3, <2>3
  <2>5. 0 \in 0 .. n - 1
    OBVIOUS
  <2>6. u = draw[0]
    <3>1. Shard(draw, 0) = u /\ draw[0] \subseteq W
      BY <1>2, <2>2, <2>5
    <3>2. {q \in draw[0] : Hash[q] % n = 0} = draw[0]
      BY <2>4, <3>1
    <3> QED
      BY <3>1, <3>2
  <2>7. Cardinality(u) \in Nat /\ setting.limit \in Nat
    BY <1>6, SourceKnown, SettingKnown
  <2> QED
    BY <1>2, <2>5, <2>6, <2>7
<1> QED
  BY <1>6, <1>7, <1>8, <1>9

Buckets(days, a, n) == {EP!RowsOf({f \in days : a[f] = i}) : i \in 1 .. n}

\* The files of a day go each to one bucket.
LEMMA BucketsOfFiles ==
    ASSUME NEW days \in SUBSET EP!Days, NEW n, NEW a \in [days -> 1 .. n]
    PROVE  /\ UNION Buckets(days, a, n) = EP!RowsOf(days)
           /\ \A u, v \in Buckets(days, a, n) : u # v => u \cap v = {}
<1> DEFINE buckets == Buckets(days, a, n)
<1> DEFINE Bucket(i) == EP!RowsOf({f \in days : a[f] = i})
<1>1. \A i : \A r \in EP!Rows : r \in Bucket(i) <=> (DayOf[r] \in days /\ a[DayOf[r]] = i)
  BY DEF EP!RowsOf
<1>2. \A i : Bucket(i) \subseteq EP!Rows
  BY DEF EP!RowsOf
<1>3. EP!RowsOf(days) = {r \in EP!Rows : DayOf[r] \in days}
  BY DEF EP!RowsOf
<1>4. buckets = {Bucket(i) : i \in 1 .. n}
  BY DEF Buckets
<1> HIDE DEF Bucket, buckets
<1>5. UNION buckets = EP!RowsOf(days)
  <2>1. ASSUME NEW r \in UNION buckets PROVE r \in EP!RowsOf(days)
    <3>1. PICK i \in 1 .. n : r \in Bucket(i)
      BY <1>4, <2>1
    <3> QED
      BY <1>1, <1>2, <1>3, <3>1
  <2>2. ASSUME NEW r \in EP!RowsOf(days) PROVE r \in UNION buckets
    <3>1. r \in EP!Rows /\ DayOf[r] \in days
      BY <1>3, <2>2
    <3>2. a[DayOf[r]] \in 1 .. n /\ r \in Bucket(a[DayOf[r]])
      BY <1>1, <3>1
    <3> QED
      BY <1>4, <3>2
  <2> QED
    BY <2>1, <2>2
<1>6. ASSUME NEW u \in buckets, NEW v \in buckets, NEW r \in u \cap v PROVE u = v
  <2>1. PICK i \in 1 .. n : u = Bucket(i)
    BY <1>4
  <2>2. PICK j \in 1 .. n : v = Bucket(j)
    BY <1>4
  <2>3. r \in EP!Rows
    BY <1>2, <2>1
  <2>4. i = j
    BY <1>1, <2>1, <2>2, <2>3
  <2> QED
    BY <2>1, <2>2, <2>4
<1>7. ASSUME NEW u \in buckets, NEW v \in buckets, u # v PROVE u \cap v = {}
  <2>1. \A r : r \notin u \cap v
    BY <1>6, <1>7
  <2> QED
    BY <2>1
<1> QED
  BY <1>5, <1>7 DEF buckets

-----------------------------------------------------------------------------
LEMMA InitExtract == ASSUME EP!ExtractAssumption, EP!Init PROVE ExtractInv
<1>1. /\ setting \in Settings /\ recorded = 0 /\ partitions = <<>> /\ length = 0 /\ since = 0 /\ until = 0
      /\ clause = {} /\ streaming = FALSE /\ firstDay = 0 /\ recordedType = "UPDATE_KEY"
  BY DEF EP!Init
<1>2. partitions \in Seq(EP!Days) /\ Len(partitions) = 0
  BY <1>1, EmptySeq
<1>3. ExtractType
  <2>1. 0 <= 0 /\ 0 \in Nat
    OBVIOUS
  <2>2. partitions \in Seq(EP!Days) /\ Len(partitions) <= length
    BY <1>1, <1>2
  <2>3. /\ recorded \in Nat /\ since \in Nat /\ until \in {0, since} /\ firstDay \in Nat /\ length \in Nat
        /\ clause \subseteq EP!Days /\ streaming \in BOOLEAN /\ ~streaming
    BY <1>1, <2>1
  <2> QED
    BY <1>1, <2>2, <2>3 DEF ExtractType
<1>4. Fresh /\ Planned /\ Streamed /\ Schedule
  BY <1>1 DEF Fresh, Planned, Streamed, Schedule
<1>5. \A r \in EP!RowsOf(setting.kept) : DayOf[r] \in Nat \ {0}
  BY SourceKnown DEF EP!RowsOf
<1>6. Caught
  BY <1>1, <1>5 DEF Caught, Covered
<1> QED
  BY <1>3, <1>4, <1>6 DEF ExtractInv

\* A run starts from the recorded checkpoint with the days since, one after
\* the other, or with its own date.
LEMMA StartKeepsExtract ==
    ASSUME EP!ExtractAssumption, ExtractInv, NEW today \in EP!Days, EP!StartRun(today) PROVE ExtractInv'
<1>1. /\ partitions = <<>> /\ ~streaming /\ since' = recorded /\ until' = 0
      /\ partitions' = EP!TargetPartitions(today, recorded) /\ length' = Len(partitions')
      /\ clause' = setting.kept
      /\ UNCHANGED <<setting, recorded, recordedType, streaming, firstDay, done, jumped>>
  BY DEF EP!StartRun, EP!GetLatestCheckpoint
<1>2. /\ setting \in Settings /\ recorded \in Nat /\ today \in Nat \ {0} /\ setting.kept \subseteq EP!Days
      /\ firstDay \in Nat
  BY SourceKnown, SettingKnown DEF ExtractInv, ExtractType
<1>3. /\ partitions' \in Seq(EP!Days) /\ Len(partitions') \in Nat
      /\ Len(partitions') > 1 => recorded # 0 /\ partitions'[1] = recorded + 1
      /\ setting.mode = "delta" => recorded = 0 \/ partitions'[1] <= recorded + 1
      /\ Len(partitions') > 1 => setting.mode = "delta"
      /\ \A i \in 1 .. Len(partitions') - 1 : partitions'[i + 1] = partitions'[i] + 1
  <2>1. CASE setting.mode # "delta" \/ recorded = 0 \/ recorded >= today
    <3>1. partitions' = <<today>>
      BY <1>1, <2>1 DEF EP!TargetPartitions
    <3>2. partitions' \in Seq(EP!Days) /\ Len(partitions') = 1 /\ partitions'[1] = today
      BY <3>1
    <3> QED
      BY <1>2, <2>1, <3>2
  <2>2. CASE ~(setting.mode # "delta" \/ recorded = 0 \/ recorded >= today)
    <3> DEFINE k == today - recorded
    <3>1. partitions' = [i \in 1 .. k |-> recorded + i]
      BY <1>1, <2>2 DEF EP!TargetPartitions
    <3>2. k \in Nat \ {0} /\ recorded + k = today
      BY <1>2, <2>2
    <3>3. \A i \in 1 .. k : recorded + i \in EP!Days
      BY <1>2, <3>2, SourceKnown DEF EP!Days
    <3> HIDE DEF k
    <3>4. partitions' \in [1 .. k -> EP!Days]
      BY <3>1, <3>3
    <3>5. partitions' \in Seq(EP!Days)
      BY <3>2, <3>4, SeqDef
    <3>6. Len(partitions') = k
      BY <3>2, <3>4, <3>5, LenProperties
    <3>7. partitions'[1] = recorded + 1
      BY <3>1, <3>2
    <3>8. \A i \in 1 .. k - 1 : partitions'[i + 1] = partitions'[i] + 1
      BY <1>2, <3>1, <3>2
    <3> QED
      BY <1>2, <2>2, <3>2, <3>5, <3>6, <3>7, <3>8
  <2> QED
    BY <2>1, <2>2
<1>4. ExtractType'
  BY <1>1, <1>2, <1>3 DEF ExtractInv, ExtractType
<1>5. Fresh' /\ Planned' /\ Streamed'
  BY <1>1, <1>3 DEF Fresh, Planned, Streamed
<1>6. Schedule'
  <2>1. partitions' # <<>> => Head(partitions') = partitions'[1]
    BY <1>3
  <2>2. /\ (recorded' = 0) <=> (firstDay' = 0)
        /\ recordedType' = IF setting'.mode = "cdc" /\ recorded' # 0 THEN "LSN_OFFSET" ELSE "UPDATE_KEY"
    BY <1>1 DEF ExtractInv, Schedule
  <2> QED
    BY <1>1, <1>3, <2>1, <2>2 DEF Schedule
<1>7. Caught'
  <2>1. Exact' => Exact
    BY <1>1 DEF Exact, EP!Unlimited
  <2>2. \A x \in Nat : Covered(x)' <=> Covered(x)
    BY <1>1 DEF Covered, EP!RowsOf
  <2> QED
    BY <1>1, <1>2, <2>1, <2>2 DEF ExtractInv, Caught, Covered, EP!RowsOf
<1> QED
  BY <1>4, <1>5, <1>6, <1>7 DEF ExtractInv

LEMMA RowsOfBoth ==
    /\ \A x, y : EP!RowsOf(x \cap y) = EP!RowsOf(x) \cap EP!RowsOf(y)
    /\ \A x : EP!RowsOf({d \in x : EP!RowsOf({d}) # {}}) = EP!RowsOf(x)
<1>1. \A x, y : EP!RowsOf(x \cap y) = EP!RowsOf(x) \cap EP!RowsOf(y)
  BY DEF EP!RowsOf
<1>2. \A x, r : r \in EP!RowsOf(x) <=> r \in EP!Rows /\ DayOf[r] \in x
  BY DEF EP!RowsOf
<1>3. ASSUME NEW x PROVE EP!RowsOf({d \in x : EP!RowsOf({d}) # {}}) = EP!RowsOf(x)
  <2> DEFINE held == {d \in x : EP!RowsOf({d}) # {}}
  <2>1. ASSUME NEW r \in EP!RowsOf(x) PROVE r \in EP!RowsOf(held)
    <3>1. r \in EP!Rows /\ DayOf[r] \in x /\ r \in EP!RowsOf({DayOf[r]})
      BY <1>2, <2>1
    <3>2. DayOf[r] \in held
      BY <3>1
    <3> QED
      BY <1>2, <3>1, <3>2
  <2>2. held \subseteq x
    OBVIOUS
  <2>3. ASSUME NEW r \in EP!RowsOf(held) PROVE r \in EP!RowsOf(x)
    BY <1>2, <2>2, <2>3
  <2> QED
    BY <2>1, <2>3
<1> QED
  BY <1>1, <1>3

LEMMA PredicateDays ==
    ASSUME EP!ExtractAssumption, setting \in Settings, since \in Nat, NEW day \in EP!Days
    PROVE  EP!Predicate(day) \subseteq EP!Days
BY DEF EP!Predicate, EP!IncrementalFilter

\* The units a database plan makes hold the window of the day.
LEMMA DatabaseUnits ==
    ASSUME EP!ExtractAssumption, ExtractInv, partitions # <<>>, ~streaming, EP!PlanDatabase,
           extracted' = {}, UNCHANGED <<setting, recorded, partitions, length, since>>
    PROVE  InWindow' /\ OneUnit' /\ clause' = EP!Owed(Head(partitions)) \cap EP!Left
<1> DEFINE W == EP!RowsOf(clause')
<1>1. setting \in Settings /\ since \in Nat /\ Head(partitions) \in EP!Days
  BY DaysLeft DEF ExtractInv, ExtractType
<1>2. W = Due /\ Due' = Due /\ clause' = EP!Owed(Head(partitions)) \cap EP!Left
  <2>1. /\ setting.source = "database" /\ clause' = clause \cap EP!Predicate(Head(partitions))
        /\ length \in Nat /\ Len(partitions) \in Nat /\ Len(partitions) <= length
    BY DaysLeft DEF EP!PlanDatabase, ExtractInv, ExtractType
  <2>2. ASSUME Len(partitions) = length PROVE clause' = EP!Owed(Head(partitions)) \cap EP!Left
    <3>1. clause' = setting.kept \cap EP!Predicate(Head(partitions))
      BY <2>1, <2>2 DEF ExtractInv, Fresh
    <3>2. clause' = EP!Owed(Head(partitions))
      BY <1>1, <2>2, <3>1, PredicateOwed DEF ExtractInv
    <3>3. EP!Left = EP!Days
      BY <2>1, <2>2, WholeLeft DEF EP!Narrowed
    <3>4. EP!Owed(Head(partitions)) \subseteq EP!Days
      BY <1>1, SettingKnown DEF EP!Owed
    <3> QED
      BY <3>2, <3>3, <3>4
  <2>3. ASSUME Len(partitions) < length PROVE clause' = EP!Owed(Head(partitions)) \cap EP!Left
    BY <2>1, <2>3 DEF ExtractInv, Fresh
  <2>4. Due' = Due
    BY DEF Due, EP!Owed, EP!Left, EP!Narrowed, EP!RowsOf
  <2>5. clause' = EP!Owed(Head(partitions)) \cap EP!Left
    BY <2>1, <2>2, <2>3
  <2> QED
    BY <2>4, <2>5 DEF Due
<1>3. W \in SUBSET EP!Rows /\ setting.limit \in Nat /\ Cardinality(W) \in Nat
  BY <1>1, SourceKnown, SettingKnown
<1>4. EP!Counted(W) \in Nat
  BY <1>3, SetsAsExtracted, LeastOf DEF EP!Counted
<1>5. EP!NumWorkers(EP!Counted(W)) \in Nat \ {0}
  BY <1>1, <1>4, SomeWorker
<1>6. PICK shards \in EP!Shards(W, EP!NumWorkers(EP!Counted(W))) :
        units' = shards \ {{}} /\ split' = shards
  BY DEF EP!PlanDatabase
<1> HIDE DEF W
<1>7. /\ \A u \in shards : u \subseteq W
      /\ setting.limit = EP!Unlimited => W \subseteq UNION shards
      /\ \A u, v \in shards : u # v => u \cap v = {}
      /\ \A u \in shards : setting.limit # EP!Unlimited /\ shards = {u} /\ u # {} =>
            Cardinality(u) >= setting.limit \/ u = W
  BY <1>1, <1>3, <1>5, <1>6, ShardsOfWindow
<1>8. UNION units' = UNION shards /\ Cardinality({}) = 0
  BY <1>6, FS_EmptySet
<1>9. InWindow'
  BY <1>2, <1>3, <1>6, <1>7, <1>8 DEF InWindow, EP!Unlimited
<1>10. OneUnit'
  <2> SUFFICES ASSUME setting.limit # EP!Unlimited, NEW u \in shards, shards = {u}, u # {}
               PROVE  units' = {u} /\ (Cardinality(u) >= setting.limit \/ u = W)
    BY <1>2, <1>6 DEF OneUnit, EP!Unlimited
  <2> QED
    BY <1>6, <1>7
<1> QED
  BY <1>2, <1>9, <1>10

\* So do the units of a file source, which have no share of the limit.
LEMMA FileUnits ==
    ASSUME EP!ExtractAssumption, ExtractInv, partitions # <<>>, ~streaming, EP!PlanFiles,
           extracted' = {}, UNCHANGED <<setting, recorded, partitions, length, since>>
    PROVE  InWindow' /\ OneUnit'
<1> DEFINE found == {d \in EP!Predicate(Head(partitions)) : EP!RowsOf({d}) # {}}
<1> DEFINE n == EP!FileWorkers(found)
<1>1. setting \in Settings /\ since \in Nat /\ Head(partitions) \in EP!Days
  BY DaysLeft DEF ExtractInv, ExtractType
<1>2. Due = EP!RowsOf(setting.kept) \cap EP!RowsOf(found) /\ Due' = Due
  <2>1. EP!Owed(Head(partitions)) \cap EP!Left = setting.kept \cap EP!Predicate(Head(partitions))
    <3>1. EP!Left = EP!Days
      BY WholeLeft DEF EP!Narrowed, EP!PlanFiles
    <3>2. Len(partitions) = length \/ setting.mode # "cdc"
      BY DaysLeft DEF ExtractInv, ExtractType, Schedule
    <3>3. EP!Owed(Head(partitions)) = setting.kept \cap EP!Predicate(Head(partitions))
      BY <1>1, <3>2, PredicateOwed DEF ExtractInv
    <3>4. setting.kept \subseteq EP!Days
      BY <1>1, SettingKnown
    <3> QED
      BY <3>1, <3>3, <3>4
  <2>2. Due = EP!RowsOf(setting.kept) \cap EP!RowsOf(EP!Predicate(Head(partitions)))
    BY <2>1, RowsOfBoth DEF Due
  <2>3. EP!RowsOf(found) = EP!RowsOf(EP!Predicate(Head(partitions)))
    BY RowsOfBoth
  <2>4. Due' = Due
    BY DEF Due, EP!Owed, EP!Left, EP!Narrowed, EP!RowsOf
  <2> QED
    BY <2>2, <2>3, <2>4
<1>3. found \in SUBSET EP!Days
  BY <1>1, PredicateDays
<1>4. PICK a \in [found -> 1 .. n] :
        split' = Buckets(found, a, n)
  BY DEF EP!PlanFiles, EP!BalanceWorkload, Buckets
<1>5. units' = {EP!RowsOf(setting.kept) \cap b : b \in split'} \ {{}}
  BY DEF EP!PlanFiles
<1> HIDE DEF found, n
<1>6. /\ UNION split' = EP!RowsOf(found)
      /\ \A u, v \in split' : u # v => u \cap v = {}
  BY <1>3, <1>4, BucketsOfFiles
<1>7. UNION units' = Due
  <2>1. ASSUME NEW r \in UNION units' PROVE r \in Due
    BY <1>2, <1>5, <1>6, <2>1
  <2>2. ASSUME NEW r \in Due PROVE r \in UNION units'
    <3>1. PICK b \in split' : r \in b
      BY <1>2, <1>6, <2>2
    <3>2. EP!RowsOf(setting.kept) \cap b \in units' /\ r \in EP!RowsOf(setting.kept) \cap b
      BY <1>2, <1>5, <2>2, <3>1
    <3> QED
      BY <3>2
  <2> QED
    BY <2>1, <2>2
<1>8. Cardinality({}) = 0 /\ setting.limit \in Nat
  BY <1>1, SettingKnown, FS_EmptySet
<1>9. InWindow'
  BY <1>2, <1>6, <1>7, <1>8 DEF InWindow, EP!Unlimited
<1>10. ASSUME NEW u \in split', split' = {u}
       PROVE  \/ units' = {} /\ Due' = {}
              \/ Due' \in units' /\ units' = {Due'}
  <2>1. u = EP!RowsOf(found)
    <3>1. UNION {u} = u
      OBVIOUS
    <3> QED
      BY <1>6, <1>10, <3>1
  <2>2. units' = {Due} \ {{}}
    BY <1>2, <1>5, <1>10, <2>1
  <2> QED
    BY <1>2, <2>2
<1>11. OneUnit'
  BY <1>10 DEF OneUnit, EP!Unlimited
<1> QED
  BY <1>9, <1>11

LEMMA PlanKeepsExtract ==
    ASSUME EP!ExtractAssumption, ExtractInv, EP!PlanPartition PROVE ExtractInv'
<1>1. /\ partitions # <<>> /\ ~streaming /\ streaming' = TRUE /\ extracted' = {}
      /\ UNCHANGED <<setting, recorded, recordedType, partitions, length, since, until, firstDay,
                     done, jumped>>
      /\ EP!PlanDatabase \/ EP!PlanFiles
  BY DEF EP!PlanPartition
<1>2. ExtractType'
  <2>1. clause' \subseteq EP!Days
    BY <1>1 DEF ExtractInv, ExtractType, EP!PlanDatabase, EP!PlanFiles
  <2> QED
    BY <1>1, <2>1 DEF ExtractInv, ExtractType
<1>3. Fresh'
  BY <1>1 DEF Fresh
<1>4. Streamed' /\ Planned'
  <2>1. InWindow' /\ OneUnit'
    BY <1>1, DatabaseUnits, FileUnits
  <2>2. setting.source = "database" => clause' = EP!Owed(Head(partitions)) \cap EP!Left
    BY <1>1, DatabaseUnits DEF EP!PlanFiles
  <2>3. (EP!Owed(Head(partitions)) \cap EP!Left)' = EP!Owed(Head(partitions)) \cap EP!Left
    BY <1>1 DEF EP!Owed, EP!Left, EP!Narrowed
  <2> QED
    BY <1>1, <2>1, <2>2, <2>3 DEF Streamed, Planned
<1>5. Schedule'
  BY <1>1 DEF ExtractInv, Schedule
<1>6. Caught'
  BY <1>1 DEF ExtractInv, Caught, Covered, Exact, EP!RowsOf, EP!Unlimited
<1> QED
  BY <1>2, <1>3, <1>4, <1>5, <1>6 DEF ExtractInv

LEMMA PlanFailsKeepsExtract ==
    ASSUME EP!ExtractAssumption, ExtractInv, EP!PlanFails PROVE ExtractInv'
<1>1. /\ ~streaming /\ partitions' = <<>>
      /\ UNCHANGED <<setting, recorded, recordedType, length, since, until, clause, streaming,
                     firstDay, done, jumped>>
  BY DEF EP!PlanFails
<1>2. partitions' \in Seq(EP!Days) /\ Len(partitions') = 0 /\ length \in Nat
  BY <1>1, EmptySeq DEF ExtractInv, ExtractType
<1>3. ExtractType'
  BY <1>1, <1>2 DEF ExtractInv, ExtractType
<1>4. Fresh' /\ Planned' /\ Streamed' /\ Schedule'
  BY <1>1 DEF ExtractInv, Fresh, Planned, Streamed, Schedule
<1>5. Caught'
  BY <1>1 DEF ExtractInv, Caught, Covered, Exact, EP!RowsOf, EP!Unlimited
<1> QED
  BY <1>3, <1>4, <1>5 DEF ExtractInv

-----------------------------------------------------------------------------
LEMMA Together ==
    ASSUME NEW S, NEW T, IsFiniteSet(S), IsFiniteSet(T)
    PROVE  /\ IsFiniteSet(S \cup T) /\ Cardinality(S) \in Nat /\ Cardinality(T) \in Nat
           /\ Cardinality(S \cup T) \in Nat
           /\ Cardinality(S \cup T) <= Cardinality(S) + Cardinality(T)
<1>1. /\ IsFiniteSet(S \cup T)
      /\ Cardinality(S \cup T) = Cardinality(S) + Cardinality(T) - Cardinality(S \cap T)
  BY FS_Union
<1>2. IsFiniteSet(S \cap T)
  BY FS_Intersection
<1>3. /\ Cardinality(S) \in Nat /\ Cardinality(T) \in Nat /\ Cardinality(S \cap T) \in Nat
      /\ Cardinality(S \cup T) \in Nat
  BY <1>1, <1>2, FS_CardinalityType
<1> QED
  BY <1>1, <1>3

\* A batch fits under the limit, or is cut to what is left of it.
LEMMA BatchInWindow ==
    ASSUME EP!ExtractAssumption, ExtractInv, EP!TakeBatch
    PROVE  InWindow' /\ OneUnit'
<1>1. /\ streaming /\ units # {}
      /\ setting.limit # EP!Unlimited => Cardinality(extracted) < setting.limit
      /\ UNCHANGED <<setting, recorded, partitions, length, since, split>>
  BY SetsAsExtracted DEF EP!TakeBatch
<1>2. PICK u \in units :
         IF setting.limit # EP!Unlimited /\ Cardinality(extracted) + Cardinality(u) > setting.limit
         THEN /\ \E s \in EP!Slice(u, setting.limit - Cardinality(extracted)) : extracted' = extracted \cup s
              /\ units' = {}
         ELSE extracted' = extracted \cup u /\ units' = units \ {u}
  BY SetsAsExtracted, Zenon DEF EP!TakeBatch
<1>3. setting.limit \in Nat /\ InWindow /\ OneUnit /\ Due' = Due /\ setting \in Settings
  <2>1. setting \in Settings
    BY DEF ExtractInv, ExtractType
  <2>2. Due' = Due
    BY <1>1 DEF Due, EP!Owed, EP!Left, EP!Narrowed, EP!RowsOf
  <2>3. InWindow /\ OneUnit
    BY <1>1 DEF ExtractInv, Streamed
  <2> QED
    BY <2>1, <2>2, <2>3, SettingKnown
<1>4. /\ extracted \subseteq Due /\ u \subseteq Due /\ Due \subseteq EP!Rows
      /\ UNION units = u \cup UNION (units \ {u})
      /\ setting.limit = EP!Unlimited => Due \subseteq extracted \cup UNION units
  <2>1. Due \subseteq EP!Rows
    BY SourceKnown DEF Due
  <2>2. /\ extracted \cup UNION units \subseteq Due
        /\ setting.limit = EP!Unlimited => Due \subseteq extracted \cup UNION units
    BY <1>3 DEF InWindow
  <2>3. UNION units = u \cup UNION (units \ {u})
    OBVIOUS
  <2> QED
    BY <2>1, <2>2, <2>3
<1>5. /\ IsFiniteSet(Due) /\ Cardinality(Due) \in Nat
      /\ IsFiniteSet(extracted) /\ IsFiniteSet(u) /\ Cardinality(u) \in Nat
      /\ Cardinality(extracted) \in Nat /\ Cardinality(u) <= Cardinality(Due) /\ Cardinality({}) = 0
  BY <1>4, SourceKnown, FS_Subset, FS_EmptySet
<1>6. ASSUME (setting.limit # EP!Unlimited /\ \E v \in split : split = {v} /\ v # {})
      PROVE  extracted = {} /\ units = {u} /\ (Cardinality(u) >= setting.limit \/ u = Due)
  BY <1>1, <1>3, <1>6 DEF OneUnit
<1>7. CASE setting.limit # EP!Unlimited /\ Cardinality(extracted) + Cardinality(u) > setting.limit
  <2>1. PICK s \in EP!Slice(u, setting.limit - Cardinality(extracted)) : extracted' = extracted \cup s
    BY <1>2, <1>7
  <2>2. s \subseteq u /\ Cardinality(s) = setting.limit - Cardinality(extracted) /\ units' = {}
    BY <1>2, <1>7, SetsAsExtracted DEF EP!Slice, EP!kSubset
  <2>3. IsFiniteSet(s) /\ Cardinality(s) \in Nat /\ setting.limit # 0
    BY <1>4, <1>7, <2>2, SourceKnown DEF EP!Unlimited
  <2>4. Cardinality(extracted') <= setting.limit
    <3>1. Cardinality(extracted \cup s) \in Nat /\ Cardinality(extracted \cup s) <= Cardinality(extracted) + Cardinality(s)
      BY <1>5, <2>3, Together
    <3> QED
      BY <1>3, <1>5, <2>1, <2>2, <2>3, <3>1
  <2>5. InWindow'
    BY <1>1, <1>3, <1>4, <1>7, <2>1, <2>2, <2>4 DEF InWindow, EP!Unlimited
  <2>6. ASSUME (setting.limit # EP!Unlimited /\ \E v \in split : split = {v} /\ v # {})
        PROVE  units' = {} /\ AsMany(Cardinality(extracted'))
    <3>1. extracted = {} /\ extracted' = s
      BY <1>6, <2>1, <2>6
    <3>2. Cardinality(s) = setting.limit /\ Cardinality(u) > setting.limit
      BY <1>3, <1>5, <1>7, <2>2, <3>1
    <3> QED
      BY <1>3, <1>5, <2>2, <3>1, <3>2 DEF AsMany
  <2>7. OneUnit'
    BY <1>1, <1>3, <2>6 DEF OneUnit, AsMany, EP!Unlimited
  <2> QED
    BY <2>5, <2>7
<1>8. CASE ~(setting.limit # EP!Unlimited /\ Cardinality(extracted) + Cardinality(u) > setting.limit)
  <2>1. extracted' = extracted \cup u /\ units' = units \ {u}
    BY <1>2, <1>8
  <2>2. setting.limit # EP!Unlimited => Cardinality(extracted') <= setting.limit
    <3>1. Cardinality(extracted \cup u) \in Nat /\ Cardinality(extracted \cup u) <= Cardinality(extracted) + Cardinality(u)
      BY <1>5, Together
    <3> QED
      BY <1>3, <1>5, <1>8, <2>1, <3>1
  <2>3. extracted' \cup UNION units' = extracted \cup UNION units
    BY <1>4, <2>1
  <2>4. InWindow'
    BY <1>1, <1>3, <1>4, <2>2, <2>3 DEF InWindow, EP!Unlimited
  <2>5. ASSUME (setting.limit # EP!Unlimited /\ \E v \in split : split = {v} /\ v # {})
        PROVE  units' = {} /\ AsMany(Cardinality(extracted'))
    <3>1. extracted = {} /\ extracted' = u /\ units' = {} /\ (Cardinality(u) >= setting.limit \/ u = Due)
      BY <1>6, <2>1, <2>5
    <3>2. Cardinality(u) <= setting.limit
      BY <2>2, <2>5, <3>1
    <3> QED
      BY <1>3, <1>5, <3>1, <3>2 DEF AsMany
  <2>6. OneUnit'
    BY <1>1, <1>3, <2>5 DEF OneUnit, AsMany, EP!Unlimited
  <2> QED
    BY <2>4, <2>6
<1> QED
  BY <1>7, <1>8

LEMMA TakeKeepsExtract ==
    ASSUME EP!ExtractAssumption, ExtractInv, EP!TakeBatch PROVE ExtractInv'
<1>1. /\ streaming
      /\ UNCHANGED <<setting, recorded, recordedType, partitions, length, since, until, clause,
                     streaming, firstDay, done, jumped>>
  BY DEF EP!TakeBatch
<1>2. ExtractType'
  BY <1>1 DEF ExtractInv, ExtractType
<1>3. Fresh'
  BY <1>1 DEF Fresh
<1>4. Streamed' /\ Planned'
  <2>1. (EP!Owed(Head(partitions)) \cap EP!Left)' = EP!Owed(Head(partitions)) \cap EP!Left
    BY <1>1 DEF EP!Owed, EP!Left, EP!Narrowed
  <2> QED
    BY <1>1, <2>1, BatchInWindow DEF Streamed, Planned, ExtractInv
<1>5. Schedule'
  BY <1>1 DEF ExtractInv, Schedule
<1>6. Caught'
  BY <1>1 DEF ExtractInv, Caught, Covered, Exact, EP!RowsOf, EP!Unlimited
<1> QED
  BY <1>2, <1>3, <1>4, <1>5, <1>6 DEF ExtractInv

-----------------------------------------------------------------------------
\* A partition that has been streamed without a limit has its rows.
LEMMA StreamedWhole ==
    ASSUME ExtractInv, EP!EndPartition, Exact PROVE Due \subseteq extracted
<1>1. streaming /\ partitions # <<>> /\ units = {} /\ setting.limit = EP!Unlimited
  BY DEF EP!EndPartition, EP!Drained, Exact, ExtractInv, ExtractType
<1>2. InWindow
  BY <1>1 DEF ExtractInv, Streamed
<1> QED
  BY <1>1, <1>2 DEF InWindow

\* With the rows of the day that ends nothing is missing up to that day, but
\* for days that were stepped over: the day is the one after the checkpoint, or
\* the first.
LEMMA DayCovered ==
    ASSUME EP!ExtractAssumption, ExtractInv, EP!EndPartition, Exact
    PROVE  \A r \in EP!RowsOf(setting.kept) :
              /\ DayOf[r] <= Head(partitions) /\ DayOf[r] \notin jumped'
              /\ setting.key = "partition_date" => DayOf[r] >= firstDay'
              => r \in done'
<1> DEFINE day == Head(partitions)
<1> DEFINE left == Len(partitions)
<1>1. /\ partitions # <<>> /\ done' = done \cup extracted
      /\ jumped' = IF EP!Narrowed THEN jumped \cup {day} ELSE jumped
  BY DEF EP!EndPartition, EP!Drained, ExtractInv, ExtractType
<1>2. /\ left \in Nat \ {0} /\ day \in EP!Days /\ day \in Nat \ {0}
      /\ setting \in Settings /\ since \in Nat /\ recorded \in Nat
      /\ setting.key \in {"range", "partition_date", "mtime", "none"} /\ setting.kept \subseteq EP!Days
      /\ setting.mode \in {"delta", "cdc"}
  BY <1>1, DaysLeft, SettingKnown DEF ExtractInv, ExtractType, Exact
<1>3. /\ (since = 0) <=> (recorded = 0)
      /\ (recorded = 0) <=> (firstDay = 0)
      /\ setting.mode = "delta" => since = 0 \/ day <= since + 1
      /\ left > 1 => since # 0
      /\ EP!Narrowed => day = since + 1
  BY <1>1 DEF ExtractInv, Schedule, EP!Narrowed
<1>4. Due \subseteq done'
  BY <1>1, StreamedWhole
<1>5. Covered(since)
  BY DEF ExtractInv, Caught
<1>6. firstDay' = IF firstDay = 0 /\ left = 1 THEN day ELSE firstDay
  BY DEF EP!EndPartition
<1> HIDE DEF day, left
<1> SUFFICES ASSUME NEW r \in EP!RowsOf(setting.kept),
                    DayOf[r] <= day, DayOf[r] \notin jumped',
                    setting.key = "partition_date" => DayOf[r] >= firstDay'
             PROVE  r \in done'
  BY DEF day
<1>7. r \in EP!Rows /\ DayOf[r] \in setting.kept /\ DayOf[r] \in EP!Days /\ DayOf[r] \in Nat \ {0}
  BY SourceKnown DEF EP!RowsOf
<1>8. DayOf[r] \notin jumped /\ (EP!Narrowed => DayOf[r] # day)
  BY <1>1
<1>9. CASE since # 0 /\ DayOf[r] <= since
  <2>1. firstDay' = firstDay
    BY <1>3, <1>6, <1>9
  <2> QED
    BY <1>1, <1>5, <1>8, <1>9, <2>1 DEF Covered
<1>10. CASE ~(since # 0 /\ DayOf[r] <= since)
  <2>1. DayOf[r] > since
    BY <1>2, <1>7, <1>10
  <2>2. EP!Left = EP!Days
    <3>1. ~EP!Narrowed
      BY <1>2, <1>3, <1>7, <1>8, <2>1
    <3> QED
      BY <3>1, WholeLeft
  <2>3. ASSUME since = 0 PROVE firstDay' = day
    BY <1>2, <1>3, <1>6, <2>3
  <2>4. DayOf[r] \in EP!Owed(day)
    <3>1. CASE setting.key = "none"
      BY <1>7, <3>1 DEF EP!Owed
    <3>2. CASE setting.key # "none" /\ setting.mode = "cdc" /\ recorded # 0
      BY <1>2, <1>7, <2>1, <3>2 DEF EP!Owed
    <3>3. CASE setting.key # "none" /\ ~(setting.mode = "cdc" /\ recorded # 0)
      <4>1. setting.key = "partition_date" => DayOf[r] = day
        BY <1>2, <1>3, <1>7, <2>1, <2>3, <3>3
      <4>2. DayOf[r] >= since
        BY <1>2, <1>7, <2>1
      <4>3. EP!Owed(day) =
              setting.kept \cap {d \in EP!Days :
                  /\ setting.key \in {"mtime", "range"} => d >= since
                  /\ setting.key = "range" => d <= day
                  /\ setting.key = "partition_date" => d = day}
        BY <1>2, <3>3 DEF EP!Owed
      <4> QED
        BY <1>7, <4>1, <4>2, <4>3
    <3> QED
      BY <3>1, <3>2, <3>3
  <2>5. r \in Due
    BY <1>7, <2>2, <2>4 DEF Due, EP!RowsOf, day
  <2> QED
    BY <1>4, <2>5
<1> QED
  BY <1>9, <1>10

\* What a day of a database run has left of the clause is what Left says of
\* the next one.
LEMMA NextDayNarrowed ==
    ASSUME EP!ExtractAssumption, ExtractInv, EP!EndPartition, setting.source = "database",
           Len(partitions) > 1, partitions' # <<>>, Head(partitions') = Head(partitions) + 1
    PROVE  clause' \cap EP!Predicate(Head(partitions))' = (EP!Owed(Head(partitions)) \cap EP!Left)'
<1> DEFINE day == Head(partitions)
<1>1. /\ streaming /\ partitions # <<>> /\ partitions' = Tail(partitions) /\ since' = day /\ until' = day
      /\ recorded' = recorded /\ recordedType' = recordedType
      /\ UNCHANGED <<setting, length, clause>>
  BY DEF EP!EndPartition, EP!Drained, ExtractInv, ExtractType
<1>2. /\ Len(partitions) \in Nat /\ day \in EP!Days /\ day \in Nat \ {0} /\ since \in Nat
      /\ Len(partitions') = Len(partitions) - 1 /\ length \in Nat /\ Len(partitions) <= length
      /\ setting.key \in {"range", "partition_date", "mtime", "none"} /\ setting.kept \subseteq EP!Days
      /\ EP!Days \subseteq Nat \ {0} /\ Head(partitions') = day + 1
  BY <1>1, DaysLeft, SettingKnown, SourceKnown DEF ExtractInv, ExtractType
<1>3. /\ since # 0 /\ day = since + 1 /\ setting.mode = "delta" /\ recordedType = "UPDATE_KEY"
  <2>1. /\ Len(partitions) > 1 => since # 0 /\ Head(partitions) = since + 1
        /\ length > 1 => setting.mode = "delta"
        /\ recordedType = IF setting.mode = "cdc" /\ recorded # 0 THEN "LSN_OFFSET" ELSE "UPDATE_KEY"
    BY <1>1 DEF ExtractInv, Schedule
  <2>2. length > 1
    BY <1>2
  <2> QED
    BY <2>1, <2>2
<1>4. clause = EP!Owed(day) \cap EP!Left
  BY <1>1 DEF ExtractInv, Planned
<1>5. EP!Owed(day) =
        IF setting.key = "none" THEN setting.kept \cap EP!Days
        ELSE setting.kept \cap {d \in EP!Days :
               /\ setting.key \in {"mtime", "range"} => d >= since
               /\ setting.key = "range" => d <= day
               /\ setting.key = "partition_date" => d = day}
  BY <1>3 DEF EP!Owed
<1>6. EP!Owed(Head(partitions))' =
        IF setting.key = "none" THEN setting.kept \cap EP!Days
        ELSE setting.kept \cap {d \in EP!Days :
               /\ setting.key \in {"mtime", "range"} => d >= day
               /\ setting.key = "range" => d <= day + 1
               /\ setting.key = "partition_date" => d = day + 1}
  BY <1>1, <1>2, <1>3 DEF EP!Owed
<1>7. EP!Predicate(Head(partitions))' =
        CASE setting.key = "none" -> EP!Days
          [] setting.key = "partition_date" -> {day + 1}
          [] setting.key = "mtime" -> {d \in EP!Days : d >= day}
          [] setting.key = "range" -> {d \in EP!Days : d >= day /\ d < day + 2}
  <2>1. EP!Predicate(Head(partitions))' =
          CASE setting.key = "none" -> EP!Days
            [] setting.key # "none" /\ recordedType' = "LSN_OFFSET" ->
                  {d \in EP!Days : (day = 0 \/ d > day) /\ (day = 0 \/ d <= day)}
            [] setting.key = "partition_date" /\ recordedType' = "UPDATE_KEY" -> {day + 1}
            [] setting.key = "mtime" /\ recordedType' = "UPDATE_KEY" ->
                  {d \in EP!Days : day = 0 \/ d >= day}
            [] OTHER -> {d \in EP!Days : (day = 0 \/ d >= day) /\ d < day + 1 + 1}
    BY <1>1, <1>2, <1>3 DEF EP!Predicate, EP!IncrementalFilter
  <2>2. recordedType' = "UPDATE_KEY" /\ day # 0 /\ day + 1 + 1 = day + 2
    BY <1>1, <1>2, <1>3
  <2> HIDE DEF day
  <2>3. CASE setting.key = "none"
    BY <2>1, <2>3
  <2>4. CASE setting.key = "partition_date"
    BY <2>1, <2>2, <2>4
  <2>5. CASE setting.key = "mtime"
    BY <2>1, <2>2, <2>5
  <2>6. CASE setting.key = "range"
    BY <2>1, <2>2, <2>6
  <2> QED
    BY <1>2, <2>3, <2>4, <2>5, <2>6
<1>8. EP!Left = IF Len(partitions) < length /\ setting.key \in {"range", "partition_date"}
                THEN IF setting.key = "range" /\ Len(partitions) = length - 1 THEN {since} ELSE {}
                ELSE EP!Days
  BY DEF EP!Left, EP!Narrowed
<1>9. EP!Left' = IF setting.key \in {"range", "partition_date"}
                 THEN IF setting.key = "range" /\ Len(partitions) = length THEN {day} ELSE {}
                 ELSE EP!Days
  <2>1. Len(partitions') < length' /\ setting' = setting /\ length' = length
    BY <1>1, <1>2
  <2>2. EP!Narrowed' <=> (setting.key \in {"range", "partition_date"})
    BY <2>1 DEF EP!Narrowed
  <2>3. Len(partitions') = length' - 1 <=> Len(partitions) = length
    BY <1>1, <1>2
  <2> QED
    BY <1>1, <2>1, <2>2, <2>3 DEF EP!Left
<1> HIDE DEF day
<1>10. CASE setting.key = "none"
  BY <1>1, <1>2, <1>4, <1>5, <1>6, <1>7, <1>8, <1>9, <1>10
<1>11. CASE setting.key = "mtime"
  <2>1. clause = setting.kept \cap {d \in EP!Days : d >= since}
    BY <1>2, <1>4, <1>5, <1>8, <1>11
  <2>2. (EP!Owed(Head(partitions)) \cap EP!Left)' = setting.kept \cap {d \in EP!Days : d >= day}
    BY <1>2, <1>6, <1>9, <1>11
  <2> QED
    BY <1>1, <1>2, <1>3, <1>7, <1>11, <2>1, <2>2
<1>12. CASE setting.key = "partition_date"
  <2>1. clause \subseteq {day}
    BY <1>4, <1>5, <1>12
  <2> QED
    BY <1>1, <1>2, <1>7, <1>9, <1>12, <2>1
<1>13. CASE setting.key = "range"
  <2>1. clause = {d \in setting.kept : d >= since /\ d <= day} \cap EP!Left
    BY <1>2, <1>4, <1>5, <1>13
  <2>2. (EP!Owed(Head(partitions)) \cap EP!Left)' =
          {d \in setting.kept : d >= day /\ d <= day + 1} \cap EP!Left'
    BY <1>2, <1>6, <1>13
  <2>3. clause' \cap EP!Predicate(Head(partitions))' =
          {d \in setting.kept : d = day} \cap EP!Left
    BY <1>1, <1>2, <1>3, <1>7, <1>13, <2>1
  <2>4. CASE Len(partitions) = length
    <3>1. EP!Left = EP!Days /\ EP!Left' = {day}
      BY <1>2, <1>8, <1>9, <1>13, <2>4
    <3> QED
      BY <1>2, <2>2, <2>3, <3>1
  <2>5. CASE Len(partitions) < length
    <3>1. EP!Left \subseteq {since} /\ EP!Left' = {}
      BY <1>2, <1>8, <1>9, <1>13, <2>5
    <3> QED
      BY <1>2, <1>3, <2>2, <2>3, <3>1
  <2> QED
    BY <1>2, <2>4, <2>5
<1> QED
  BY <1>2, <1>10, <1>11, <1>12, <1>13

LEMMA EndKeepsExtract ==
    ASSUME EP!ExtractAssumption, ExtractInv, EP!EndPartition PROVE ExtractInv'
<1> DEFINE day == Head(partitions)
<1>1. /\ partitions # <<>> /\ streaming' = FALSE /\ partitions' = Tail(partitions)
      /\ done' = done \cup extracted /\ since' = day /\ until' = day
      /\ recorded' = IF Len(partitions) = 1 THEN (IF until # 0 THEN until ELSE day) ELSE recorded
      /\ firstDay' = IF firstDay = 0 /\ Len(partitions) = 1 THEN day ELSE firstDay
      /\ recordedType' = IF Len(partitions) = 1 THEN EP!UpdatedType ELSE recordedType
      /\ jumped \subseteq jumped'
      /\ UNCHANGED <<setting, length, clause>>
  BY DEF EP!EndPartition, EP!Drained, EP!ReportedEnd, ExtractInv, ExtractType
<1>2. /\ Len(partitions) \in Nat \ {0} /\ day \in EP!Days /\ day \in Nat \ {0} /\ day = partitions[1]
      /\ Tail(partitions) \in Seq(EP!Days) /\ Len(Tail(partitions)) = Len(partitions) - 1
      /\ \A i \in 1 .. Len(partitions) - 1 : Tail(partitions)[i] = partitions[i + 1]
      /\ since \in Nat /\ recorded \in Nat /\ firstDay \in Nat /\ until \in {0, since}
      /\ length \in Nat /\ Len(partitions) <= length
  BY <1>1, DaysLeft DEF ExtractInv, ExtractType
<1>3. /\ (recorded = 0) <=> (firstDay = 0)
      /\ (since = 0) <=> (recorded = 0)
      /\ Len(partitions) > 1 => since # 0
      /\ \A i \in 1 .. Len(partitions) - 1 : partitions[i + 1] = partitions[i] + 1
      /\ length > 1 => setting.mode = "delta"
      /\ recordedType = IF setting.mode = "cdc" /\ recorded # 0 THEN "LSN_OFFSET" ELSE "UPDATE_KEY"
  BY <1>1 DEF ExtractInv, Schedule
<1> HIDE DEF day
<1>4. ExtractType'
  <2>1. recorded' \in Nat /\ firstDay' \in Nat
    BY <1>1, <1>2
  <2>2. partitions' \in Seq(EP!Days) /\ Len(partitions') <= length'
    BY <1>1, <1>2
  <2>3. since' \in Nat /\ until' \in {0, since'} /\ streaming' \in BOOLEAN /\ ~streaming'
    BY <1>1, <1>2
  <2> QED
    BY <1>1, <2>1, <2>2, <2>3 DEF ExtractInv, ExtractType
<1>5. ASSUME partitions' # <<>> PROVE Len(partitions) > 1 /\ Len(partitions') = Len(partitions) - 1
  <2>1. Len(partitions') # 0
    BY <1>1, <1>2, <1>5, EmptySeq
  <2> QED
    BY <1>1, <1>2, <2>1
<1>6. Fresh'
  <2> SUFFICES ASSUME partitions' # <<>>, setting.source = "database"
               PROVE  /\ Len(partitions') < length'
                      /\ clause' \cap EP!Predicate(Head(partitions))' =
                            (EP!Owed(Head(partitions)) \cap EP!Left)'
    BY <1>1 DEF Fresh
  <2>1. Len(partitions) > 1 /\ Len(partitions') < length'
    BY <1>1, <1>2, <1>5
  <2>2. Head(partitions') = partitions'[1] /\ partitions'[1] = partitions[2]
    BY <1>1, <1>2, <1>5
  <2>3. Head(partitions') = Head(partitions) + 1
    BY <1>2, <1>3, <2>1, <2>2 DEF day
  <2> QED
    BY <2>1, <2>3, NextDayNarrowed
<1>7. Streamed' /\ Planned'
  BY <1>1 DEF Streamed, Planned
<1>8. Schedule'
  <2>1. (recorded' = 0) <=> (firstDay' = 0)
    BY <1>1, <1>2, <1>3
  <2>2. ASSUME partitions' # <<>>
        PROVE  /\ (since' = 0) <=> (recorded' = 0)
               /\ setting'.mode = "delta" => since' = 0 \/ Head(partitions') <= since' + 1
               /\ Len(partitions') > 1 => since' # 0 /\ Head(partitions') = since' + 1
               /\ \A i \in 1 .. Len(partitions') - 1 : partitions'[i + 1] = partitions'[i] + 1
    <3>1. Len(partitions) > 1 /\ Len(partitions') = Len(partitions) - 1
      BY <1>5, <2>2
    <3>2. Head(partitions') = partitions'[1] /\ partitions'[1] = partitions[2]
      BY <1>1, <1>2, <3>1
    <3>3. partitions[2] = day + 1
      BY <1>2, <1>3, <3>1
    <3>4. Head(partitions') = day + 1
      BY <3>2, <3>3
    <3>5. \A i \in 1 .. Len(partitions') - 1 : partitions'[i + 1] = partitions'[i] + 1
      <4> SUFFICES ASSUME NEW i \in 1 .. Len(partitions') - 1
                   PROVE  partitions'[i + 1] = partitions'[i] + 1
        OBVIOUS
      <4>1. i \in 1 .. Len(partitions) - 1 /\ i + 1 \in 1 .. Len(partitions) - 1
        BY <1>2, <3>1
      <4>2. partitions'[i] = partitions[i + 1] /\ partitions'[i + 1] = partitions[(i + 1) + 1]
        BY <1>1, <1>2, <4>1
      <4> QED
        BY <1>3, <4>1, <4>2
    <3> QED
      BY <1>1, <1>2, <1>3, <3>1, <3>4, <3>5
  <2>3. recordedType' = IF setting'.mode = "cdc" /\ recorded' # 0 THEN "LSN_OFFSET" ELSE "UPDATE_KEY"
    BY <1>1, <1>2, <1>3 DEF EP!UpdatedType
  <2>4. ASSUME partitions' # <<>>
        PROVE  /\ Len(partitions') < length' /\ since' # 0 /\ Head(partitions') = since' + 1
               /\ length' > 1 => setting'.mode = "delta"
    <3>1. Len(partitions) > 1 /\ Len(partitions') = Len(partitions) - 1
      BY <1>5, <2>4
    <3>2. Head(partitions') = partitions'[1] /\ partitions'[1] = partitions[2]
      BY <1>1, <1>2, <3>1
    <3>3. partitions[2] = day + 1
      BY <1>2, <1>3, <3>1
    <3> QED
      BY <1>1, <1>2, <1>3, <3>1, <3>2, <3>3
  <2>5. partitions' # <<>> => Len(partitions') # length'
    BY <1>2, <1>5, <2>4
  <2> QED
    BY <2>1, <2>2, <2>3, <2>4, <2>5 DEF Schedule
<1>9. Caught'
  <2> SUFFICES ASSUME Exact' PROVE Covered(recorded)' /\ Covered(since)'
    BY DEF Caught
  <2>1. Exact
    BY <1>1 DEF Exact, EP!Unlimited
  <2>2. \A r \in EP!RowsOf(setting.kept) :
          /\ DayOf[r] <= day /\ DayOf[r] \notin jumped'
          /\ setting.key = "partition_date" => DayOf[r] >= firstDay'
          => r \in done'
    BY <2>1, DayCovered DEF day
  <2>3. EP!RowsOf(setting'.kept) = EP!RowsOf(setting.kept)
    BY <1>1
  <2>4. Covered(since)'
    BY <1>1, <2>2, <2>3 DEF Covered, EP!RowsOf
  <2>5. ASSUME NEW x \in Nat, x # 0 => firstDay # 0, Covered(x)
        PROVE  \A r \in EP!RowsOf(setting.kept) :
                 /\ DayOf[r] <= x /\ DayOf[r] \notin jumped'
                 /\ setting.key = "partition_date" => DayOf[r] >= firstDay'
                 => r \in done'
    <3> SUFFICES ASSUME NEW r \in EP!RowsOf(setting.kept), DayOf[r] <= x, DayOf[r] \notin jumped',
                        setting.key = "partition_date" => DayOf[r] >= firstDay'
                 PROVE  r \in done'
      OBVIOUS
    <3>1. DayOf[r] \in Nat \ {0}
      BY SourceKnown DEF EP!RowsOf
    <3>2. x # 0 /\ firstDay' = firstDay
      BY <1>1, <2>5, <3>1
    <3> QED
      BY <1>1, <2>5, <3>2 DEF Covered
  <2>6. Covered(recorded) /\ Covered(since)
    BY <2>1 DEF ExtractInv, Caught
  <2>7. recorded' \in {recorded, since, day}
    BY <1>1, <1>2
  <2>8. \A r \in EP!RowsOf(setting.kept) :
          /\ DayOf[r] <= recorded' /\ DayOf[r] \notin jumped'
          /\ setting.key = "partition_date" => DayOf[r] >= firstDay'
          => r \in done'
    BY <1>2, <1>3, <2>2, <2>5, <2>6, <2>7
  <2>9. Covered(recorded)'
    BY <1>1, <2>3, <2>8 DEF Covered, EP!RowsOf
  <2> QED
    BY <2>4, <2>9
<1> QED
  BY <1>4, <1>6, <1>7, <1>8, <1>9 DEF ExtractInv

LEMMA ExtractedExact ==
    ASSUME EP!ExtractAssumption, ExtractInv PROVE EP!WindowExact /\ EP!CheckpointBehindData
<1>1. EP!CheckpointBehindData
  BY DEF EP!CheckpointBehindData, ExtractInv, Caught, Covered, Exact
<1>2. ASSUME EP!Drained
      PROVE  /\ extracted \subseteq Due
             /\ setting.limit = EP!Unlimited => extracted = Due
             /\ setting.limit # EP!Unlimited =>
                  /\ EP!Cardinality(extracted) <= setting.limit
                  /\ \A u \in split : split = {u} /\ u # {} =>
                        EP!Cardinality(extracted) = EP!Min({setting.limit, EP!Cardinality(Due)})
             /\ \A u, v \in split : u # v => u \cap v = {}
  <2>1. InWindow /\ OneUnit /\ setting \in Settings /\ setting.limit \in Nat
    BY <1>2, SettingKnown DEF ExtractInv, ExtractType, Streamed, EP!Drained
  <2>2. extracted \subseteq Due /\ Due \in SUBSET EP!Rows /\ extracted \in SUBSET EP!Rows
    BY <2>1, SourceKnown DEF InWindow, Due
  <2>3. Cardinality(Due) \in Nat /\ Cardinality(extracted) \in Nat
    BY <2>2, SourceKnown
  <2>4. setting.limit = EP!Unlimited => extracted = Due
    BY <1>2, <2>1, <2>2 DEF InWindow, EP!Drained
  <2>5. EP!Cardinality(extracted) = Cardinality(extracted) /\ EP!Cardinality(Due) = Cardinality(Due)
    BY SetsAsExtracted
  <2>6. EP!Min({setting.limit, Cardinality(Due)}) =
          IF Cardinality(Due) < setting.limit THEN Cardinality(Due) ELSE setting.limit
    BY <2>1, <2>3, LeastOf
  <2>7. ASSUME setting.limit # EP!Unlimited, NEW u \in split, split = {u}, u # {}
        PROVE  AsMany(Cardinality(extracted))
    <3>1. units = {} \/ Cardinality(extracted) >= setting.limit
      BY <1>2, SetsAsExtracted DEF EP!Drained
    <3>2. Cardinality({}) = 0 /\ setting.limit # 0
      BY <2>7, FS_EmptySet DEF EP!Unlimited
    <3>3. CASE extracted = {} /\ units = {} /\ Due = {}
      BY <2>1, <3>2, <3>3 DEF AsMany
    <3>4. CASE extracted = {} /\ units # {}
      BY <2>1, <3>1, <3>2, <3>4
    <3> QED
      BY <2>1, <2>7, <3>3, <3>4 DEF OneUnit
  <2> QED
    BY <2>1, <2>2, <2>4, <2>5, <2>6, <2>7 DEF InWindow, AsMany
<1>3. EP!WindowExact
  BY <1>2 DEF EP!WindowExact, Due
<1> QED
  BY <1>1, <1>3

\* A database or file partition that has been streamed left exactly the rows
\* of its window, whatever order the workers delivered them in and however
\* many there were; a later day of a database run left what the shared clause
\* still admits, and but for those days no recorded checkpoint is ahead of
\* the rows that were written (_resolve_target_partitions, parallelize,
\* _balance_workload, the where clause of the database service and the batch
\* loop of the extract stage).  The invariant adds where the days of a run lie
\* relative to the checkpoint, what the clause admits before each day, and
\* what of the window is still with the workers.
THEOREM ExtractsAreExact == UnitsSpec => []ExtractExact
<1> DEFINE Inv == focus = "extract" => ExtractInv
<1> USE UnitAssumption
<1>1. UnitsInit => Inv
  BY InitExtract DEF UnitsInit, UnitAssumption
<1>2. Inv /\ [UnitsNext]_coreVars => Inv'
  <2> SUFFICES ASSUME Inv, [UnitsNext]_coreVars, focus' = "extract"
               PROVE  ExtractInv'
    OBVIOUS
  <2>1. focus = "extract" /\ ExtractInv /\ EP!ExtractAssumption
    BY DEF UnitsNext, coreVars, UnitAssumption
  <2>2. CASE EP!Next
    <3>1. ASSUME NEW today \in EP!Days, EP!StartRun(today)
          PROVE  ExtractInv'
      BY <2>1, <3>1, StartKeepsExtract
    <3> QED
      BY <2>1, <2>2, <3>1, PlanKeepsExtract, PlanFailsKeepsExtract, TakeKeepsExtract, EndKeepsExtract
      DEF EP!Next
  <2>3. CASE UNCHANGED extractVars
    <3>1. UNCHANGED <<setting, recorded, recordedType, partitions, length, since, until, clause,
                      streaming, units, split, extracted, firstDay, done, jumped>>
      BY <2>3 DEF extractVars
    <3>2. ExtractType' /\ Fresh' /\ Planned'
      BY <2>1, <3>1 DEF ExtractInv, ExtractType, Fresh, Planned, EP!Owed, EP!Left, EP!Narrowed,
                        EP!Predicate, EP!IncrementalFilter
    <3>3. Streamed'
      BY <2>1, <3>1 DEF ExtractInv, Streamed, InWindow, OneUnit, AsMany, Due, EP!Owed, EP!Left,
                        EP!Narrowed, EP!RowsOf, EP!Unlimited
    <3>4. Schedule' /\ Caught'
      BY <2>1, <3>1 DEF ExtractInv, Schedule, Caught, Covered, Exact, EP!RowsOf, EP!Unlimited
    <3> QED
      BY <3>2, <3>3, <3>4 DEF ExtractInv
  <2> QED
    BY <2>1, <2>2, <2>3 DEF UnitsNext, coreVars
<1>3. Inv => ExtractExact
  BY ExtractedExact DEF ExtractExact, UnitAssumption
<1> QED
  BY <1>1, <1>2, <1>3, PTL DEF UnitsSpec

-----------------------------------------------------------------------------
(* The target table *)

TableType ==
    /\ dataset \in TargetConfigs /\ frame \in [Runs -> SourceFrames]
    /\ spot \in [Runs -> {"exists", "create", "schema", "alter", "done", "failed"}]
    /\ reloads \in [Runs -> Nat] /\ replaced \in BOOLEAN
    /\ DOMAIN prepared = Runs /\ prepared = [r \in Runs |-> prepared[r]]
    /\ looked = [r \in Runs |-> looked[r]] /\ landed = [r \in Runs |-> landed[r]]

\* A run works on the columns of its own frame, and got past the gate only
\* with all the columns the table had then.
Matched ==
    \A r \in Runs :
        /\ spot[r] \in {"create", "schema", "alter", "done"} =>
              prepared[r] = PreparedFrames[dataset][frame[r]]
        /\ spot[r] \in {"alter", "done"} => looked[r] \subseteq TB!NamesOf(prepared[r])

\* What a run loaded are its final columns; the table does not lose them.
Filled ==
    \A r \in Runs : spot[r] = "done" =>
        /\ landed[r] = {prepared[r][i] : i \in {j \in DOMAIN prepared[r] :
                                                  prepared[r][j].name \in TB!FinalColumns(r)}}
        /\ ~replaced => TB!FinalColumns(r) \subseteq table

\* The log is true as long as no create replaced the table, and complete as
\* long as no step failed.
Truthful ==
    ~replaced => /\ \A e \in schemaLog : e.cols \subseteq table
                 /\ \A e, f \in schemaLog :
                       e.action = "ADD_COLUMN" /\ e # f => e.cols \cap f.cols = {}
Unbroken == \A r \in Runs : reloads[r] = 0 /\ spot[r] # "failed"
InLog == UNION {e.cols : e \in schemaLog}
Whole == Unbroken => table \subseteq atFirst \cup InLog

TableInv == TableType /\ Matched /\ Filled /\ Truthful /\ Whole

LEMMA InitTable == ASSUME TB!TableAssumption, TB!Init PROVE TableInv
<1>1. TableType
  BY DEF TB!Init, TableType
<1>2. \A r \in Runs : spot[r] = "exists"
  BY DEF TB!Init
<1>3. Matched /\ Filled
  BY <1>2 DEF Matched, Filled
<1>4. Truthful /\ Whole
  BY DEF TB!Init, Truthful, Whole, InLog
<1> QED
  BY <1>1, <1>3, <1>4 DEF TableInv

\* The final columns are columns of the frame.
LEMMA FinalInFrame ==
    ASSUME NEW r \in Runs, looked[r] \subseteq TB!NamesOf(prepared[r])
    PROVE  TB!FinalColumns(r) \subseteq TB!NamesOf(prepared[r])
BY DEF TB!FinalColumns, TB!Admitted

\* A step that leaves the log, the table and the frames of the others alone.
LEMMA ExistsKeepsTable ==
    ASSUME TB!TableAssumption, TableInv, NEW r \in Runs, TB!Exists(r) PROVE TableInv'
<1> USE DEF TB!Exists, TB!Goto
<1>1. TableType'
  BY DEF TableInv, TableType
<1>2. \A q \in Runs \ {r} : spot'[q] = spot[q] /\ prepared'[q] = prepared[q]
  BY DEF TableInv, TableType
<1>3. spot'[r] \in {"create", "schema"} /\ prepared'[r] = PreparedFrames[dataset][frame[r]]
  BY DEF TableInv, TableType
<1>4. Matched'
  BY <1>2, <1>3 DEF TableInv, Matched
<1>5. \A q \in Runs \ {r} : TB!FinalColumns(q)' = TB!FinalColumns(q)
  BY <1>2 DEF TB!FinalColumns, TB!Admitted, TB!MetaColumns
<1>6. Filled'
  BY <1>2, <1>3, <1>5 DEF TableInv, Filled
<1>7. Truthful'
  BY DEF TableInv, Truthful
<1>8. Unbroken' => Unbroken
  BY <1>2 DEF Unbroken
<1>9. Whole'
  BY <1>8 DEF TableInv, Whole, InLog
<1> QED
  BY <1>1, <1>4, <1>6, <1>7, <1>9 DEF TableInv

LEMMA CreateKeepsTable ==
    ASSUME TB!TableAssumption, TableInv, NEW r \in Runs, TB!Create(r) PROVE TableInv'
<1> USE DEF TB!Goto
<1>1. /\ spot[r] = "create" /\ spot' = [spot EXCEPT ![r] = spot'[r]]
      /\ spot'[r] \in {"schema", "failed"}
      /\ UNCHANGED <<dataset, frame, prepared, looked, lacking, landed, reloads, atFirst>>
      /\ replaced' \in BOOLEAN /\ (~replaced' => ~replaced)
  BY DEF TB!Create, TB!Record, TableInv, TableType
<1>2. TableType'
  BY <1>1 DEF TableInv, TableType
<1>3. \A q \in Runs \ {r} : spot'[q] = spot[q]
  BY <1>1 DEF TableInv, TableType
<1>4. Matched'
  BY <1>1, <1>3 DEF TableInv, Matched
\* Without a replacement the table was not there, or stays.
<1>5. ~replaced' => table \subseteq table'
  BY DEF TB!Create
<1>6. \A q \in Runs : TB!FinalColumns(q)' = TB!FinalColumns(q)
  BY <1>1 DEF TB!FinalColumns, TB!Admitted, TB!MetaColumns
<1>7. Filled'
  BY <1>1, <1>3, <1>5, <1>6 DEF TableInv, Filled
<1>8. CASE schemaLog' = schemaLog /\ spot'[r] = "failed"
  <2>1. Truthful'
    BY <1>1, <1>5, <1>8 DEF TableInv, Truthful
  <2>2. Whole'
    BY <1>8 DEF Whole, Unbroken
  <2> QED
    BY <1>2, <1>4, <1>7, <2>1, <2>2 DEF TableInv
<1>9. CASE /\ dataset.ddl = {}
           /\ schemaLog' = schemaLog \cup {[run |-> r, action |-> "CREATE_TABLE", cols |-> table']}
  <2> DEFINE new == [run |-> r, action |-> "CREATE_TABLE", cols |-> table']
  <2>1. ~replaced' => \A e \in schemaLog : e.cols = {}
    BY <1>1, <1>9 DEF TableInv, Truthful, TB!Create
  <2>2. new.cols = table' /\ new.action # "ADD_COLUMN" /\ new \in schemaLog'
    BY <1>9
  <2>3. Truthful'
    <3> HIDE DEF new
    <3> QED
      BY <1>9, <2>1, <2>2 DEF Truthful
  <2>4. Whole'
    <3> HIDE DEF new
    <3>1. table' \subseteq InLog'
      BY <2>2 DEF InLog
    <3> QED
      BY <3>1 DEF Whole
  <2> QED
    BY <1>2, <1>4, <1>7, <2>3, <2>4 DEF TableInv
<1>10. \/ schemaLog' = schemaLog /\ spot'[r] = "failed"
       \/ /\ dataset.ddl = {}
          /\ schemaLog' = schemaLog \cup {[run |-> r, action |-> "CREATE_TABLE", cols |-> table']}
  BY DEF TB!Create, TB!Record, TableInv, TableType
<1> QED
  BY <1>8, <1>9, <1>10

LEMMA GetSchemaKeepsTable ==
    ASSUME TB!TableAssumption, TableInv, NEW r \in Runs, TB!GetSchema(r) PROVE TableInv'
<1> USE DEF TB!GetSchema, TB!Goto
<1>1. TableType'
  BY DEF TableInv, TableType
<1>2. /\ \A q \in Runs \ {r} : spot'[q] = spot[q] /\ looked'[q] = looked[q]
      /\ looked'[r] = table /\ spot[r] = "schema"
  BY DEF TableInv, TableType
<1> DEFINE accepted == table \subseteq TB!NamesOf(prepared[r])
<1>3. spot'[r] = (IF accepted THEN "alter" ELSE "failed")
  <2> HIDE DEF accepted
  <2>1. spot' = [spot EXCEPT ![r] = IF accepted THEN "alter" ELSE "failed"]
    BY DEF accepted
  <2> QED
    BY <2>1 DEF TableInv, TableType
<1>4. Matched'
  BY <1>2, <1>3 DEF TableInv, Matched, TB!NamesOf
<1>5. \A q \in Runs \ {r} : TB!FinalColumns(q)' = TB!FinalColumns(q)
  BY <1>2 DEF TB!FinalColumns, TB!Admitted, TB!MetaColumns
<1>6. Filled'
  BY <1>2, <1>3, <1>5 DEF TableInv, Filled
<1>7. Truthful'
  BY DEF TableInv, Truthful
<1>8. Unbroken' => Unbroken
  BY <1>2 DEF Unbroken
<1>9. Whole'
  BY <1>8 DEF TableInv, Whole, InLog
<1> QED
  BY <1>1, <1>4, <1>6, <1>7, <1>9 DEF TableInv

LEMMA AddColumnKeepsTable ==
    ASSUME TB!TableAssumption, TableInv, NEW r \in Runs, TB!AddColumn(r) PROVE TableInv'
<1> USE DEF TB!Goto
<1>1. /\ spot[r] = "alter"
      /\ UNCHANGED <<dataset, frame, prepared, looked, landed, reloads, atFirst, replaced>>
  BY DEF TB!AddColumn
<1>2. \/ /\ spot' = [spot EXCEPT ![r] = "failed"] /\ UNCHANGED <<table, schemaLog>>
      \/ \E c : /\ c \notin table /\ table' = table \cup {c}
                /\ \/ /\ spot' = [spot EXCEPT ![r] = "alter"]
                      /\ schemaLog' = schemaLog \cup
                           {[run |-> r, action |-> "ADD_COLUMN", cols |-> {c}]}
                   \/ spot' = [spot EXCEPT ![r] = "failed"] /\ UNCHANGED schemaLog
  BY DEF TB!AddColumn, TB!Record
<1>3. /\ spot' = [spot EXCEPT ![r] = spot'[r]] /\ spot'[r] \in {"alter", "failed"}
      /\ table \subseteq table'
  BY <1>2 DEF TableInv, TableType
<1>4. TableType'
  BY <1>1, <1>3 DEF TableInv, TableType
<1>5. \A q \in Runs \ {r} : spot'[q] = spot[q]
  BY <1>3 DEF TableInv, TableType
<1>6. Matched'
  BY <1>1, <1>3, <1>5 DEF TableInv, Matched
<1>7. \A q \in Runs : TB!FinalColumns(q)' = TB!FinalColumns(q)
  BY <1>1 DEF TB!FinalColumns, TB!Admitted, TB!MetaColumns
<1>8. Filled'
  BY <1>1, <1>3, <1>5, <1>7 DEF TableInv, Filled
<1>9. CASE schemaLog' = schemaLog /\ spot' = [spot EXCEPT ![r] = "failed"]
  <2>1. Truthful'
    BY <1>1, <1>3, <1>9 DEF TableInv, Truthful
  <2>2. spot'[r] = "failed"
    BY <1>9 DEF TableInv, TableType
  <2>3. Unbroken' => Unbroken /\ spot'[r] # "failed"
    BY <1>1, <1>5 DEF Unbroken
  <2>4. Whole'
    BY <1>1, <1>9, <2>2, <2>3 DEF TableInv, Whole, InLog
  <2> QED
    BY <1>4, <1>6, <1>8, <2>1, <2>4 DEF TableInv
<1>10. ASSUME NEW c, c \notin table, table' = table \cup {c},
              schemaLog' = schemaLog \cup {[run |-> r, action |-> "ADD_COLUMN", cols |-> {c}]}
       PROVE  TableInv'
  <2> DEFINE new == [run |-> r, action |-> "ADD_COLUMN", cols |-> {c}]
  <2>1. new.cols = {c} /\ schemaLog' = schemaLog \cup {new}
    BY <1>10
  <2> HIDE DEF new
  <2>2. Truthful'
    <3> SUFFICES ASSUME ~replaced' PROVE Truthful'
      BY DEF Truthful
    <3>1. \A e \in schemaLog : e.cols \subseteq table /\ e.cols \cap {c} = {}
      BY <1>1, <1>10 DEF TableInv, Truthful
    <3>2. \A e, f \in schemaLog : e.action = "ADD_COLUMN" /\ e # f => e.cols \cap f.cols = {}
      BY <1>1 DEF TableInv, Truthful
    <3> QED
      BY <1>10, <2>1, <3>1, <3>2 DEF Truthful
  <2>3. Unbroken' => Unbroken
    BY <1>1, <1>5 DEF Unbroken
  <2>4. Whole'
    BY <1>1, <1>10, <2>1, <2>3 DEF TableInv, Whole, InLog
  <2> QED
    BY <1>4, <1>6, <1>8, <2>2, <2>4 DEF TableInv
<1> QED
  BY <1>2, <1>9, <1>10

LEMMA LoadKeepsTable ==
    ASSUME TB!TableAssumption, TableInv, NEW r \in Runs, TB!Load(r) PROVE TableInv'
<1> USE DEF TB!Load, TB!Goto
<1>1. TableType'
  BY DEF TableInv, TableType
<1>2. /\ \A q \in Runs \ {r} : spot'[q] = spot[q] /\ landed'[q] = landed[q]
      /\ spot[r] = "alter"
      /\ \/ spot'[r] = "failed"
         \/ /\ spot'[r] = "done" /\ TB!FinalColumns(r) \subseteq table
            /\ landed'[r] = {prepared[r][i] : i \in {j \in DOMAIN prepared[r] :
                                                      prepared[r][j].name \in TB!FinalColumns(r)}}
  BY DEF TableInv, TableType
<1>3. Matched'
  BY <1>2 DEF TableInv, Matched
<1>4. \A q \in Runs : TB!FinalColumns(q)' = TB!FinalColumns(q)
  BY DEF TB!FinalColumns, TB!Admitted, TB!MetaColumns
<1>5. Filled'
  BY <1>2, <1>4 DEF TableInv, Filled
<1>6. Truthful'
  BY DEF TableInv, Truthful
<1>7. Unbroken' => Unbroken
  BY <1>2 DEF Unbroken
<1>8. Whole'
  BY <1>7 DEF TableInv, Whole, InLog
<1> QED
  BY <1>1, <1>3, <1>5, <1>6, <1>8 DEF TableInv

LEMMA RetryKeepsTable ==
    ASSUME TB!TableAssumption, TableInv, NEW r \in Runs, TB!Retry(r) PROVE TableInv'
<1> USE DEF TB!Retry, TB!Goto
<1>1. TableType'
  BY DEF TableInv, TableType
<1>2. /\ \A q \in Runs \ {r} : spot'[q] = spot[q]
      /\ spot'[r] = "exists" /\ reloads'[r] # 0
  BY DEF TableInv, TableType
<1>3. Matched' /\ Filled'
  BY <1>2 DEF TableInv, Matched, Filled, TB!FinalColumns, TB!Admitted, TB!MetaColumns
<1>4. Truthful'
  BY DEF TableInv, Truthful
<1>5. Whole'
  BY <1>2 DEF Whole, Unbroken
<1> QED
  BY <1>1, <1>3, <1>4, <1>5 DEF TableInv

\* What the invariant says of a run that is done is what was promised.
LEMMA ColumnsHaveLanded ==
    ASSUME TB!TableAssumption, TableInv PROVE TB!ColumnsLand /\ TB!ChangesRecorded
<1>1. TB!ChangesRecorded
  BY DEF TB!ChangesRecorded, TableInv, Truthful, Whole, Unbroken, InLog
<1>2. ASSUME NEW r \in Runs, spot[r] = "done"
      PROVE  LET names == {col.name : col \in landed[r]} IN
             /\ \A a, b \in landed[r] : a.name = b.name => a = b
             /\ \A id \in OwedColumns[dataset][frame[r]] :
                  \/ \E col \in landed[r] : col.id = id
                  \/ ~dataset.evolve /\ \E i \in DOMAIN prepared[r] :
                       prepared[r][i].id = id /\ prepared[r][i].name \notin looked[r]
             /\ looked[r] \subseteq names
             /\ TB!MetaColumns \subseteq names
             /\ ~replaced => names \subseteq table
  <2> DEFINE p == prepared[r]
             final == TB!FinalColumns(r)
             names == {col.name : col \in landed[r]}
  <2>1. /\ p = PreparedFrames[dataset][frame[r]] /\ looked[r] \subseteq TB!NamesOf(p)
        /\ landed[r] = {p[i] : i \in {j \in DOMAIN p : p[j].name \in final}}
        /\ ~replaced => final \subseteq table
    BY <1>2 DEF TableInv, Matched, Filled
  <2>2. dataset \in TargetConfigs /\ frame[r] \in SourceFrames /\ dataset.evolve \in BOOLEAN
    BY DEF TableInv, TableType, TB!TableAssumption
  <2>3. /\ \A i, j \in DOMAIN p : p[i].name = p[j].name => i = j
        /\ \A id \in OwedColumns[dataset][frame[r]] : \E i \in DOMAIN p : p[i].id = id
        /\ TB!MetaColumns \subseteq TB!NamesOf(p)
    BY <2>1, <2>2 DEF TB!TableAssumption, TB!MetaColumns
  <2>4. final \subseteq TB!NamesOf(p)
    BY <2>1, FinalInFrame
  <2>5. \A n \in TB!NamesOf(p) : n \in final <=> n \in looked[r] \/ n \in TB!MetaColumns \/ dataset.evolve
    BY <2>1 DEF TB!FinalColumns, TB!Admitted
  <2> HIDE DEF p, final
  <2>6. \A i \in DOMAIN p : p[i].name \in final => p[i] \in landed[r]
    BY <2>1
  <2>7. names = final
    BY <2>1, <2>4 DEF TB!NamesOf
  <2>8. \A a, b \in landed[r] : a.name = b.name => a = b
    BY <2>1, <2>3
  <2>9. ASSUME NEW id \in OwedColumns[dataset][frame[r]]
        PROVE  \/ \E col \in landed[r] : col.id = id
               \/ ~dataset.evolve /\ \E i \in DOMAIN p : p[i].id = id /\ p[i].name \notin looked[r]
    <3>1. PICK i \in DOMAIN p : p[i].id = id
      BY <2>3
    <3>2. p[i].name \in TB!NamesOf(p)
      BY DEF TB!NamesOf
    <3> QED
      BY <2>5, <2>6, <3>1, <3>2
  <2>10. looked[r] \subseteq final /\ TB!MetaColumns \subseteq final
    BY <2>1, <2>3, <2>5
  <2> QED
    BY <2>1, <2>7, <2>8, <2>9, <2>10 DEF p
<1>3. TB!ColumnsLand
  BY <1>2 DEF TB!ColumnsLand
<1> QED
  BY <1>1, <1>3

\* For any number of runs of a dataset that look at the target, create it, add
\* to it and start again in any order, what a run loaded is in a column of its
\* own, and the log of schema changes names each column that was added once
\* (reconcile_schema, record_schema_change).  Of the frames it is assumed that
\* their columns have been given names of their own.
THEOREM ColumnsAlwaysLand == UnitsSpec => []ColumnsLand
<1> DEFINE Inv == focus = "table" => TableInv
<1> USE UnitAssumption
<1>1. UnitsInit => Inv
  BY InitTable DEF UnitsInit, UnitAssumption
<1>2. Inv /\ [UnitsNext]_coreVars => Inv'
  <2> SUFFICES ASSUME Inv, [UnitsNext]_coreVars, focus' = "table"
               PROVE  TableInv'
    OBVIOUS
  <2>1. focus = "table" /\ TableInv /\ TB!TableAssumption
    BY DEF UnitsNext, coreVars, UnitAssumption
  <2>2. CASE TB!Next
    BY <2>1, <2>2, ExistsKeepsTable, CreateKeepsTable, GetSchemaKeepsTable, AddColumnKeepsTable,
       LoadKeepsTable, RetryKeepsTable DEF TB!Next
  <2>3. CASE UNCHANGED tableVars
    <3>1. UNCHANGED <<dataset, frame, table, spot, prepared, looked, landed, reloads, schemaLog,
                      atFirst, replaced>>
      BY <2>3 DEF tableVars
    <3>2. TableType' /\ Matched' /\ Truthful' /\ Whole'
      BY <2>1, <3>1 DEF TableInv, TableType, Matched, Truthful, Whole, Unbroken, InLog
    <3>3. Filled'
      BY <2>1, <3>1 DEF TableInv, Filled, TB!FinalColumns, TB!Admitted, TB!MetaColumns
    <3> QED
      BY <3>2, <3>3 DEF TableInv
  <2> QED
    BY <2>1, <2>2, <2>3 DEF UnitsNext, coreVars
<1>3. Inv => ColumnsLand
  BY ColumnsHaveLanded DEF ColumnsLand, UnitAssumption
<1> QED
  BY <1>1, <1>2, <1>3, PTL DEF UnitsSpec

-----------------------------------------------------------------------------
(* Induction and recursion, over sets of numbers and functions *)

\* A number comes before a larger one.
Before == {ss \in Nat \X Nat : ss[1] < ss[2]}

LEMMA BeforeWellFounded == IsWellFoundedOn(Before, Nat)
<1>1. Before = OpToRel(<, Nat)
  BY DEF Before, OpToRel
<1> QED
  BY <1>1, NatLessThanWellFounded

LEMMA Least == ASSUME NEW T \in SUBSET Nat, T # {} PROVE \E m \in T : \A k \in T : m <= k
<1>1. \A x, y \in Nat : x < y => <<x, y>> \in Before
  BY DEF Before
<1>2. \E x \in T : \A y \in T : ~ (<<y, x>> \in Before)
  BY BeforeWellFounded, WFMin
<1>3. PICK m \in T : \A y \in T : ~ (<<y, m>> \in Before)
  BY <1>2
<1>4. ASSUME NEW k \in T PROVE m <= k
  <2>1. m \in Nat /\ k \in Nat /\ ~ (<<k, m>> \in Before)
    BY <1>3
  <2>2. ~ (k < m)
    BY <1>1, <2>1
  <2> QED
    BY <2>1, <2>2
<1> QED
  BY <1>3, <1>4

\* A set with 0 and the successors of its numbers has all numbers.
LEMMA SetInduction ==
    ASSUME NEW S, 0 \in S, \A n \in Nat : n \in S => n + 1 \in S
    PROVE  \A n \in Nat : n \in S
<1> DEFINE T == Nat \ S
<1>1. SUFFICES ASSUME T # {} PROVE FALSE
  OBVIOUS
<1>2. PICK m \in T : \A k \in T : m <= k
  BY <1>1, Least
<1>3. m # 0 /\ m - 1 \in Nat /\ m - 1 \notin T
  BY <1>2
<1> QED
  BY <1>3

\* A function that takes one value of V to the next has an orbit.
LEMMA Orbit ==
    ASSUME NEW V, NEW v \in V, NEW next \in [V -> V]
    PROVE  \E f \in [Nat -> V] : f[0] = v /\ \A n \in Nat : f[n + 1] = next[f[n]]
<1> DEFINE Part(n) == {g \in [0 .. n -> V] :
                          g[0] = v /\ \A i \in Nat : i < n => g[i + 1] = next[g[i]]}
<1>1. \A n \in Nat : Part(n) # {}
  <2> DEFINE S == {n \in Nat : Part(n) # {}}
  <2>1. 0 \in S
    <3>1. [i \in 0 .. 0 |-> v] \in Part(0)
      OBVIOUS
    <3> QED
      BY <3>1
  <2>2. ASSUME NEW n \in Nat, n \in S PROVE n + 1 \in S
    <3>1. PICK g : g \in Part(n)
      BY <2>2
    <3> DEFINE h == [i \in 0 .. n + 1 |-> IF i = n + 1 THEN next[g[n]] ELSE g[i]]
    <3>2. h \in [0 .. n + 1 -> V]
      BY <3>1
    <3>3. h[0] = v
      BY <3>1
    <3>4. ASSUME NEW i \in Nat, i < n + 1 PROVE h[i + 1] = next[h[i]]
      <4>1. CASE i = n
        BY <4>1
      <4>2. CASE i < n
        BY <3>1, <4>2
      <4> QED
        BY <3>4, <4>1, <4>2
    <3>5. h \in Part(n + 1)
      BY <3>2, <3>3, <3>4
    <3> QED
      BY <3>5
  <2> HIDE DEF S
  <2>3. \A n \in Nat : n \in S
    BY <2>1, <2>2, SetInduction
  <2> QED
    BY <2>3 DEF S
<1>2. \A i \in Nat : \A m, n \in Nat : \A g \in Part(m), h \in Part(n) :
        i <= m /\ i <= n => g[i] = h[i]
  <2> DEFINE S == {i \in Nat : \A m, n \in Nat : \A g \in Part(m), h \in Part(n) :
                      i <= m /\ i <= n => g[i] = h[i]}
  <2>1. 0 \in S
    OBVIOUS
  <2>2. ASSUME NEW i \in Nat, i \in S PROVE i + 1 \in S
    <3> SUFFICES ASSUME NEW m \in Nat, NEW n \in Nat, NEW g \in Part(m), NEW h \in Part(n),
                        i + 1 <= m, i + 1 <= n
                 PROVE  g[i + 1] = h[i + 1]
      <4> HIDE DEF Part
      <4> QED
        OBVIOUS
    <3>1. g[i] = h[i]
      <4>1. i <= m /\ i <= n
        OBVIOUS
      <4> HIDE DEF Part
      <4> QED
        BY <2>2, <4>1
    <3>2. g[i + 1] = next[g[i]] /\ h[i + 1] = next[h[i]]
      OBVIOUS
    <3> QED
      BY <3>1, <3>2
  <2> HIDE DEF S
  <2>3. \A i \in Nat : i \in S
    BY <2>1, <2>2, SetInduction
  <2> QED
    BY <2>3 DEF S
<1> DEFINE pick(n) == CHOOSE g : g \in Part(n)
           f == [n \in Nat |-> pick(n)[n]]
<1>3. \A n \in Nat : pick(n) \in Part(n)
  BY <1>1
<1>4. f \in [Nat -> V]
  <2> HIDE DEF pick
  <2>1. \A n \in Nat : pick(n) \in [0 .. n -> V]
    BY <1>3
  <2>2. \A n \in Nat : pick(n)[n] \in V
    <3>1. \A n \in Nat : n \in 0 .. n
      OBVIOUS
    <3> QED
      BY <2>1, <3>1
  <2> QED
    BY <2>2
<1>5. f[0] = v
  BY <1>3
<1>6. ASSUME NEW n \in Nat PROVE f[n + 1] = next[f[n]]
  <2>1. pick(n) \in Part(n) /\ pick(n + 1) \in Part(n + 1)
    <3>1. n + 1 \in Nat
      OBVIOUS
    <3> HIDE DEF pick, Part
    <3> QED
      BY <1>3, <3>1
  <2> HIDE DEF pick
  <2>2. pick(n + 1)[n] = pick(n)[n]
    <3> HIDE DEF Part
    <3> QED
      BY <1>2, <2>1
  <2>3. pick(n + 1)[n + 1] = next[pick(n + 1)[n]]
    BY <2>1
  <2> QED
    BY <2>2, <2>3
<1> QED
  BY <1>4, <1>5, <1>6

-----------------------------------------------------------------------------
(* Hooks: how a list of actions reads *)

Names == {a.name : a \in HookActions}
Executed == [name : Names, ok : BOOLEAN]
Courses == [ran : Seq(Executed), ok : BOOLEAN]
Lists == Seq(HookActions)
NoAction == [ran |-> <<>>, ok |-> TRUE]

LEMMA ThenIsCourse ==
    ASSUME NEW r \in Courses, NEW s \in Courses PROVE HK!Then(r, s) \in Courses
BY ConcatProperties DEF HK!Then, Courses

LEMMA ComesTyped ==
    ASSUME NEW a \in HookActions, NEW depth, NEW inside \in SUBSET Courses
    PROVE  HK!Comes(a, depth, inside) \in SUBSET Courses
<1>1. a.name \in Names
  BY DEF Names
<1>2. ASSUME NEW ok \in BOOLEAN
      PROVE  [ran |-> <<[name |-> a.name, ok |-> ok]>>, ok |-> ok] \in Courses
  <2>1. [name |-> a.name, ok |-> ok] \in Executed
    BY <1>1 DEF Executed
  <2> QED
    BY <2>1 DEF Courses
<1>3. [ran |-> <<>>, ok |-> FALSE] \in Courses
  BY DEF Courses
<1> QED
  BY <1>2, <1>3 DEF HK!Comes

LEMMA ReadOnTyped ==
    ASSUME NEW a \in HookActions, NEW depth, NEW inside \in SUBSET Courses,
           NEW rest \in SUBSET Courses
    PROVE  HK!ReadOn(a, depth, inside, rest) \in SUBSET Courses
BY ComesTyped, ThenIsCourse DEF HK!ReadOn

\* A list reads on from its first action; what lists inside a routine come to
\* is given by the path.
ReadList(list, depth, inside, rest) ==
    IF list = <<>> THEN {NoAction}
    ELSE HK!ReadOn(Head(list), depth,
                   IF Head(list).type = "routine" /\ HK!Openable(Head(list), depth)
                   THEN inside[Head(list).path] ELSE {},
                   rest)

LEMMA ReadListTyped ==
    ASSUME NEW list \in Lists, NEW depth, NEW inside \in [DOMAIN Routines -> SUBSET Courses],
           NEW rest \in SUBSET Courses
    PROVE  ReadList(list, depth, inside, rest) \in SUBSET Courses
<1>1. NoAction \in Courses
  BY DEF NoAction, Courses
<1>2. CASE list # <<>>
  <2>1. Head(list) \in HookActions
    BY <1>2, HeadTailProperties DEF Lists
  <2> DEFINE within == IF Head(list).type = "routine" /\ HK!Openable(Head(list), depth)
                       THEN inside[Head(list).path] ELSE {}
  <2>2. within \in SUBSET Courses
    BY DEF HK!Openable
  <2> QED
    BY <1>2, <2>1, <2>2, ReadOnTyped DEF ReadList
<1> QED
  BY <1>1, <1>2 DEF ReadList

\* Given what the lists one level down come to, what lists come to exists: the
\* orbit of a table that is right for one more action each time.
LEMMA LevelExists ==
    ASSUME NEW depth, NEW inside \in [DOMAIN Routines -> SUBSET Courses]
    PROVE  \E g \in [Lists -> SUBSET Courses] :
              \A list \in Lists : g[list] = ReadList(list, depth, inside, g[Tail(list)])
<1> DEFINE V == [Lists -> SUBSET Courses]
           next == [g \in V |-> [list \in Lists |-> IF list = <<>> THEN {NoAction}
                                    ELSE ReadList(list, depth, inside, g[Tail(list)])]]
<1>1. \A list \in Lists : list # <<>> => Tail(list) \in Lists /\ Len(list) = Len(Tail(list)) + 1
  BY HeadTailProperties, LenProperties DEF Lists
<1>2. NoAction \in Courses
  BY DEF NoAction, Courses
<1>3. next \in [V -> V]
  <2> SUFFICES ASSUME NEW g \in V, NEW list \in Lists, list # <<>>
               PROVE  ReadList(list, depth, inside, g[Tail(list)]) \in SUBSET Courses
    BY <1>2
  <2> QED
    BY <1>1, ReadListTyped
<1>4. [list \in Lists |-> {}] \in V
  OBVIOUS
<1>5. PICK f \in [Nat -> V] : \A n \in Nat : f[n + 1] = next[f[n]]
  <2>1. PICK v : v \in V
    BY <1>4
  <2> HIDE DEF V, next
  <2>2. \E f \in [Nat -> V] : f[0] = v /\ \A n \in Nat : f[n + 1] = next[f[n]]
    BY <1>3, <2>1, Orbit, Z3
  <2> QED
    BY <2>2
<1> DEFINE g == [list \in Lists |-> f[Len(list) + 1][list]]
<1>6. \A list \in Lists : Len(list) \in Nat
  BY LenProperties DEF Lists
<1>7. \A n \in Nat, list \in Lists :
        f[n + 1][list] = IF list = <<>> THEN {NoAction}
                         ELSE ReadList(list, depth, inside, f[n][Tail(list)])
  <2> SUFFICES ASSUME NEW n \in Nat
               PROVE  \A list \in Lists :
                         f[n + 1][list] = IF list = <<>> THEN {NoAction}
                                          ELSE ReadList(list, depth, inside, f[n][Tail(list)])
    OBVIOUS
  <2>1. f[n] \in V /\ f[n + 1] = next[f[n]]
    <3> HIDE DEF V, next
    <3> QED
      BY <1>5
  <2>2. next[f[n]] = [list \in Lists |-> IF list = <<>> THEN {NoAction}
                                        ELSE ReadList(list, depth, inside, f[n][Tail(list)])]
    BY <2>1
  <2> QED
    BY <2>1, <2>2
<1>8. g \in [Lists -> SUBSET Courses]
  <2>1. \A list \in Lists : f[Len(list) + 1] \in V
    BY <1>5, <1>6
  <2> QED
    BY <2>1
<1>9. ASSUME NEW list \in Lists PROVE g[list] = ReadList(list, depth, inside, g[Tail(list)])
  <2>1. CASE list = <<>>
    BY <1>6, <1>7, <2>1 DEF ReadList
  <2>2. CASE list # <<>>
    <3>1. g[list] = ReadList(list, depth, inside, f[Len(list)][Tail(list)])
      BY <1>6, <1>7, <2>2
    <3>2. f[Len(list)][Tail(list)] = g[Tail(list)]
      BY <1>1, <2>2
    <3> QED
      BY <3>1, <3>2
  <2> QED
    BY <2>1, <2>2
<1> HIDE DEF g
<1> QED
  BY <1>8, <1>9

Positions == Lists \X (0 .. 5)
ReadAt(known, list, depth) ==
    IF list = <<>> THEN {NoAction}
    ELSE HK!ReadOn(Head(list), depth,
                   IF Head(list).type = "routine" /\ HK!Openable(Head(list), depth)
                   THEN known[<<Routines[Head(list).path], depth + 1>>] ELSE {},
                   known[<<Tail(list), depth>>])

\* The readings of lists exist: six levels, one on top of the other.
LEMMA ReadingsExist ==
    ASSUME HK!HookAssumption
    PROVE  \E known : known = [at \in Positions |-> ReadAt(known, at[1], at[2])]
<1>1. \A p \in DOMAIN Routines : Routines[p] \in Lists
  BY DEF HK!HookAssumption, Lists
<1> DEFINE Level(g, depth, below) ==
             g \in [Lists -> SUBSET Courses] /\
             \A list \in Lists :
                g[list] = ReadList(list, depth, [p \in DOMAIN Routines |-> below[Routines[p]]],
                                   g[Tail(list)])
<1>2. ASSUME NEW depth, NEW below \in [Lists -> SUBSET Courses]
      PROVE  \E g : Level(g, depth, below)
  <2>1. [p \in DOMAIN Routines |-> below[Routines[p]]] \in [DOMAIN Routines -> SUBSET Courses]
    BY <1>1
  <2> DEFINE inside == [p \in DOMAIN Routines |-> below[Routines[p]]]
  <2> HIDE DEF inside
  <2>2. \E g \in [Lists -> SUBSET Courses] :
           \A list \in Lists : g[list] = ReadList(list, depth, inside, g[Tail(list)])
    BY <2>1, LevelExists DEF inside
  <2> QED
    BY <2>2 DEF inside
<1> DEFINE none == [list \in Lists |-> {}]
<1>3. none \in [Lists -> SUBSET Courses]
  OBVIOUS
<1>4. \E f, e, d, c, b, a :
        /\ Level(f, 5, none) /\ Level(e, 4, f) /\ Level(d, 3, e)
        /\ Level(c, 2, d) /\ Level(b, 1, c) /\ Level(a, 0, b)
  <2>1. \A depth, below : below \in [Lists -> SUBSET Courses] =>
           \E g : Level(g, depth, below) /\ g \in [Lists -> SUBSET Courses]
    BY <1>2
  <2> HIDE DEF none, Level
  <2>2. PICK f : Level(f, 5, none) /\ f \in [Lists -> SUBSET Courses]
    BY <1>3, <2>1
  <2>3. PICK e : Level(e, 4, f) /\ e \in [Lists -> SUBSET Courses]
    BY <2>1, <2>2
  <2>4. PICK d : Level(d, 3, e) /\ d \in [Lists -> SUBSET Courses]
    BY <2>1, <2>3
  <2>5. PICK c : Level(c, 2, d) /\ c \in [Lists -> SUBSET Courses]
    BY <2>1, <2>4
  <2>6. PICK b : Level(b, 1, c) /\ b \in [Lists -> SUBSET Courses]
    BY <2>1, <2>5
  <2>7. PICK a : Level(a, 0, b) /\ a \in [Lists -> SUBSET Courses]
    BY <2>1, <2>6
  <2> QED
    BY <2>2, <2>3, <2>4, <2>5, <2>6, <2>7
<1> HIDE DEF none
<1>5. PICK f, e, d, c, b, a :
        /\ Level(f, 5, none) /\ Level(e, 4, f) /\ Level(d, 3, e)
        /\ Level(c, 2, d) /\ Level(b, 1, c) /\ Level(a, 0, b)
  <2> HIDE DEF Level
  <2> QED
    BY <1>4
<1> DEFINE at(depth) == IF depth = 0 THEN a ELSE IF depth = 1 THEN b ELSE IF depth = 2 THEN c
                        ELSE IF depth = 3 THEN d ELSE IF depth = 4 THEN e ELSE f
           known == [q \in Positions |-> at(q[2])[q[1]]]
<1>6. ASSUME NEW g, NEW depth \in 0 .. 5, NEW below, NEW list \in Lists, Level(g, depth, below),
              at(depth) = g, depth < 5 => at(depth + 1) = below
       PROVE  g[list] = ReadAt(known, list, depth)
  <2>1. g[list] = ReadList(list, depth, [p \in DOMAIN Routines |-> below[Routines[p]]], g[Tail(list)])
    BY <1>6
  <2>2. list # <<>> => Tail(list) \in Lists
    BY HeadTailProperties DEF Lists
  <2>3. \A l \in Lists : <<l, depth>> \in Positions
    BY DEF Positions
  <2>4. \A l \in Lists : known[<<l, depth>>] = g[l]
    BY <1>6, <2>3
  <2>5. ASSUME depth < 5, NEW p \in DOMAIN Routines
        PROVE  known[<<Routines[p], depth + 1>>] = below[Routines[p]]
    <3>1. <<Routines[p], depth + 1>> \in Positions
      BY <1>1, <2>5 DEF Positions
    <3> QED
      BY <1>6, <2>5, <3>1
  <2>6. HK!Openable(Head(list), depth) => depth < 5 /\ Head(list).path \in DOMAIN Routines
    BY DEF HK!Openable, HK!MAX_ROUTINE_DEPTH
  <2> HIDE DEF known
  <2>7. CASE list = <<>>
    BY <2>1, <2>7 DEF ReadList, ReadAt
  <2>8. CASE list # <<>>
    BY <2>1, <2>2, <2>4, <2>5, <2>6, <2>8 DEF ReadList, ReadAt
  <2> QED
    BY <2>7, <2>8
<1>7. ASSUME NEW list \in Lists, NEW depth \in 0 .. 5
       PROVE  at(depth)[list] = ReadAt(known, list, depth)
  <2>1. at(0) = a /\ at(1) = b /\ at(2) = c /\ at(3) = d /\ at(4) = e /\ at(5) = f
    OBVIOUS
  <2> HIDE DEF at, known, Level
  <2>2. depth \in {0, 1, 2, 3, 4, 5}
    OBVIOUS
  <2> QED
    BY <1>5, <1>6, <2>1, <2>2
<1>8. known = [q \in Positions |-> ReadAt(known, q[1], q[2])]
  <2>1. \A q \in Positions : q[1] \in Lists /\ q[2] \in 0 .. 5
    BY DEF Positions
  <2> HIDE DEF at
  <2>2. \A q \in Positions : at(q[2])[q[1]] = ReadAt(known, q[1], q[2])
    <3> HIDE DEF known
    <3> QED
      BY <1>7, <2>1
  <2>3. known = [q \in Positions |-> at(q[2])[q[1]]]
    OBVIOUS
  <2> HIDE DEF known
  <2> QED
    BY <2>2, <2>3
<1> HIDE DEF known
<1> QED
  BY <1>8

LEMMA HookReading ==
    ASSUME HK!HookAssumption, NEW list \in Lists, NEW depth \in 0 .. 5
    PROVE  HK!Readings[<<list, depth>>] = ReadAt(HK!Readings, list, depth)
<1> DEFINE R == HK!Readings
<1>1. R = [at \in Positions |-> ReadAt(R, at[1], at[2])]
  <2>1. R = CHOOSE known : known = [at \in Positions |-> ReadAt(known, at[1], at[2])]
    BY DEF HK!Readings, Positions, Lists, ReadAt, NoAction, HK!MAX_ROUTINE_DEPTH
  <2> QED
    BY <2>1, ReadingsExist
<1>2. <<list, depth>> \in Positions
  BY DEF Positions
<1> HIDE DEF R
<1>3. R[<<list, depth>>] = ReadAt(R, list, depth)
  BY <1>1, <1>2
<1> QED
  BY <1>3 DEF R

-----------------------------------------------------------------------------
(* Hooks: the stack of open routines *)

\* What was executed of a list and what is left of it make readings of it.
Leads(ran, list, whole, depth) ==
    \A r \in Courses : r \in HK!Readings[<<list, depth>>] =>
       HK!Then([ran |-> ran, ok |-> TRUE], r) \in HK!Readings[<<whole, depth>>]

Inside(a, depth) ==
    IF a.type = "routine" /\ HK!Openable(a, depth)
    THEN HK!Readings[<<Routines[a.path], depth + 1>>] ELSE {}
Comings(a, depth) == HK!Comes(a, depth, Inside(a, depth))

Levels == [left : Lists, ran : Seq(Executed)]
WholeOf(s, w, k) == IF k = 1 THEN w ELSE Routines[Head(s[k - 1].left).path]
Opens(s, k) == /\ s[k].left # <<>> /\ Head(s[k].left).type = "routine"
               /\ HK!Openable(Head(s[k].left), k - 1)
Stacked(s, w) ==
    /\ s \in Seq(Levels) /\ Len(s) >= 1
    /\ \A k \in 1 .. Len(s) - 1 : Opens(s, k)
    /\ \A k \in 1 .. Len(s) : Leads(s[k].ran, s[k].left, WholeOf(s, w, k), k - 1)

LEMMA RoutineLists ==
    ASSUME HK!HookAssumption, NEW a, NEW depth, HK!Openable(a, depth)
    PROVE  Routines[a.path] \in Lists
BY DEF HK!HookAssumption, HK!Openable, Lists

\* No more than six lists are open.
LEMMA DepthBound == ASSUME NEW s, NEW w, Stacked(s, w) PROVE Len(s) \in 1 .. 6
<1> DEFINE n == Len(s)
<1>1. n \in Nat /\ n >= 1
  BY LenProperties DEF Stacked
<1>2. ASSUME n > 1 PROVE n - 1 - 1 < 5
  <2>1. Opens(s, n - 1)
    <3>1. \A k \in 1 .. n - 1 : Opens(s, k)
      BY DEF Stacked
    <3> HIDE DEF n
    <3> QED
      BY <1>1, <1>2, <3>1
  <2> HIDE DEF n
  <2> QED
    BY <2>1 DEF Opens, HK!Openable, HK!MAX_ROUTINE_DEPTH
<1> HIDE DEF n
<1>3. n \in 1 .. 6
  BY <1>1, <1>2
<1> QED
  BY <1>3 DEF n

LEMMA ReadFirst ==
    ASSUME HK!HookAssumption, NEW list \in Lists, list # <<>>, NEW depth \in 0 .. 5
    PROVE  HK!Readings[<<list, depth>>] =
             HK!ReadOn(Head(list), depth, Inside(Head(list), depth),
                       HK!Readings[<<Tail(list), depth>>])
BY HookReading DEF ReadAt, Inside

\* An action that the list goes on after.
LEMMA LeadsOn ==
    ASSUME HK!HookAssumption, NEW list \in Lists, list # <<>>, NEW depth \in 0 .. 5,
           NEW ran \in Seq(Executed), NEW whole, Leads(ran, list, whole, depth),
           NEW q \in Courses, q \in Comings(Head(list), depth), HK!GoesOn(Head(list), depth, q)
    PROVE  Leads(ran \o q.ran, Tail(list), whole, depth)
<1> SUFFICES ASSUME NEW r \in Courses, r \in HK!Readings[<<Tail(list), depth>>]
             PROVE  HK!Then([ran |-> ran \o q.ran, ok |-> TRUE], r) \in HK!Readings[<<whole, depth>>]
  BY DEF Leads
<1> DEFINE a == Head(list)
           rest == HK!Readings[<<Tail(list), depth>>]
<1>0. HK!Readings[<<list, depth>>] = HK!ReadOn(a, depth, Inside(a, depth), rest)
  BY ReadFirst
<1>1. HK!Then(q, r) \in HK!Readings[<<list, depth>>]
  <2>1. q \in {c \in HK!Comes(a, depth, Inside(a, depth)) : HK!GoesOn(a, depth, c)}
    BY DEF Comings
  <2>2. r \in rest
    OBVIOUS
  <2> HIDE DEF a, rest
  <2>3. HK!Then(q, r) \in HK!ReadOn(a, depth, Inside(a, depth), rest)
    BY <2>1, <2>2 DEF HK!ReadOn
  <2> QED
    BY <1>0, <2>3
<1>2. HK!Then(q, r) \in Courses
  BY ThenIsCourse
<1>3. HK!Then([ran |-> ran, ok |-> TRUE], HK!Then(q, r)) \in HK!Readings[<<whole, depth>>]
  BY <1>1, <1>2 DEF Leads
<1>4. ran \o (q.ran \o r.ran) = (ran \o q.ran) \o r.ran
  BY ConcatAssociative DEF Courses
<1> QED
  BY <1>3, <1>4 DEF HK!Then

\* An action that ends the list.
LEMMA LeadsOut ==
    ASSUME HK!HookAssumption, NEW list \in Lists, list # <<>>, NEW depth \in 0 .. 5,
           NEW ran, NEW whole, Leads(ran, list, whole, depth),
           NEW q \in Courses, q \in Comings(Head(list), depth), ~HK!GoesOn(Head(list), depth, q)
    PROVE  [ran |-> ran \o q.ran, ok |-> q.ok] \in HK!Readings[<<whole, depth>>]
<1> DEFINE a == Head(list)
           rest == HK!Readings[<<Tail(list), depth>>]
<1>0. HK!Readings[<<list, depth>>] = HK!ReadOn(a, depth, Inside(a, depth), rest)
  BY ReadFirst
<1>1. q \in HK!Readings[<<list, depth>>]
  <2>1. q \in HK!Comes(a, depth, Inside(a, depth)) /\ ~HK!GoesOn(a, depth, q)
    BY DEF Comings
  <2> HIDE DEF a, rest
  <2> QED
    BY <1>0, <2>1 DEF HK!ReadOn
<1> QED
  BY <1>1 DEF Leads, HK!Then

LEMMA LeadsToEnd ==
    ASSUME HK!HookAssumption, NEW depth \in 0 .. 5, NEW ran \in Seq(Executed), NEW whole,
           Leads(ran, <<>>, whole, depth)
    PROVE  [ran |-> ran, ok |-> TRUE] \in HK!Readings[<<whole, depth>>]
<1>1. <<>> \in Lists
  BY DEF Lists
<1>0. HK!Readings[<<<<>>, depth>>] = ReadAt(HK!Readings, <<>>, depth)
  BY <1>1, HookReading
<1>2. NoAction \in Courses /\ NoAction \in HK!Readings[<<<<>>, depth>>]
  <2>1. NoAction \in ReadAt(HK!Readings, <<>>, depth)
    BY DEF ReadAt
  <2> QED
    BY <1>0, <2>1, EmptySeq DEF NoAction, Courses
<1>3. HK!Then([ran |-> ran, ok |-> TRUE], NoAction) \in HK!Readings[<<whole, depth>>]
  BY <1>2 DEF Leads
<1>4. ran \o <<>> = ran
  BY ConcatEmptySeq
<1> QED
  BY <1>3, <1>4 DEF HK!Then, NoAction

LEMMA LeadsFromStart ==
    ASSUME NEW list, NEW depth
    PROVE  Leads(<<>>, list, list, depth)
<1>1. \A r \in Courses : <<>> \o r.ran = r.ran /\ r = [ran |-> r.ran, ok |-> r.ok]
  BY ConcatEmptySeq DEF Courses
<1> QED
  BY <1>1 DEF Leads, HK!Then

LEMMA OpenedStacked == ASSUME NEW w \in Lists PROVE Stacked(<<HK!Opened(w)>>, w)
<1> DEFINE s == <<HK!Opened(w)>>
<1>1. HK!Opened(w) \in Levels
  BY EmptySeq DEF HK!Opened, Levels
<1>2. s \in Seq(Levels) /\ Len(s) = 1 /\ s[1] = HK!Opened(w)
  BY <1>1
<1>3. Leads(s[1].ran, s[1].left, w, 0)
  BY <1>2, LeadsFromStart DEF HK!Opened
<1> HIDE DEF s
<1>4. \A k \in 1 .. Len(s) : k = 1 /\ k - 1 = 0
  BY <1>2
<1>5. 1 .. Len(s) - 1 = {}
  BY <1>2
<1> QED
  BY <1>2, <1>3, <1>4, <1>5 DEF Stacked, WholeOf, s

LEMMA PushStacked ==
    ASSUME HK!HookAssumption, NEW s, NEW w, Stacked(s, w), Opens(s, Len(s))
    PROVE  Stacked(Append(s, HK!Opened(Routines[Head(s[Len(s)].left).path])), w)
<1> DEFINE list == Routines[Head(s[Len(s)].left).path]
           t == Append(s, HK!Opened(list))
<1>1. list \in Lists
  BY RoutineLists DEF Opens
<1>2. s \in Seq(Levels) /\ Len(s) \in Nat /\ Len(s) >= 1
  BY LenProperties DEF Stacked
<1>3. HK!Opened(list) \in Levels
  BY <1>1, EmptySeq DEF HK!Opened, Levels
<1>4. /\ t \in Seq(Levels) /\ Len(t) = Len(s) + 1
      /\ \A k \in 1 .. Len(s) : t[k] = s[k]
      /\ t[Len(s) + 1] = HK!Opened(list)
  BY <1>2, <1>3, AppendProperties
<1> HIDE DEF t
<1>5. \A k \in 1 .. Len(t) - 1 : Opens(t, k)
  BY <1>2, <1>4 DEF Stacked, Opens
<1>6. ASSUME NEW k \in 1 .. Len(t)
      PROVE  Leads(t[k].ran, t[k].left, WholeOf(t, w, k), k - 1)
  <2>1. CASE k <= Len(s)
    <3>1. k \in 1 .. Len(s) /\ (k # 1 => k - 1 \in 1 .. Len(s))
      BY <1>2, <2>1
    <3>2. WholeOf(t, w, k) = WholeOf(s, w, k)
      BY <1>4, <3>1 DEF WholeOf
    <3> QED
      BY <1>4, <3>1, <3>2 DEF Stacked
  <2>2. CASE k = Len(s) + 1
    <3>1. WholeOf(t, w, k) = list
      BY <1>2, <1>4, <2>2 DEF WholeOf
    <3> HIDE DEF list
    <3> QED
      BY <1>4, <2>2, <3>1, LeadsFromStart DEF HK!Opened
  <2> QED
    BY <1>2, <1>4, <2>1, <2>2
<1>7. Stacked(t, w)
  BY <1>2, <1>4, <1>5, <1>6 DEF Stacked
<1> QED
  BY <1>7 DEF t

LEMMA PopStacked ==
    ASSUME NEW s, NEW w, Stacked(s, w), Len(s) > 1
    PROVE  /\ Stacked(SubSeq(s, 1, Len(s) - 1), w)
           /\ Len(SubSeq(s, 1, Len(s) - 1)) = Len(s) - 1
           /\ \A k \in 1 .. Len(s) - 1 : SubSeq(s, 1, Len(s) - 1)[k] = s[k]
<1> DEFINE n == Len(s) - 1
           t == SubSeq(s, 1, n)
<1>1. s \in Seq(Levels) /\ Len(s) \in Nat /\ n \in Nat /\ n >= 1
  BY LenProperties DEF Stacked
<1>2. \A k \in 1 .. n : s[k] \in Levels
  BY <1>1, ElementOfSeq
<1>3. t \in Seq(Levels) /\ Len(t) = n /\ \A k \in 1 .. n : t[k] = s[k]
  <2>1. n \in Int /\ 1 \in Int
    BY <1>1
  <2> HIDE DEF n
  <2>2. /\ t \in Seq(Levels)
        /\ Len(t) = IF 1 <= n THEN n - 1 + 1 ELSE 0
        /\ \A i \in 1 .. n - 1 + 1 : t[i] = s[1 + i - 1]
    BY <1>2, <2>1, SubSeqProperties
  <2> QED
    BY <1>1, <2>2
<1> HIDE DEF t
<1>4. \A k \in 1 .. n - 1 : Opens(t, k)
  <2> SUFFICES ASSUME NEW k \in 1 .. n - 1 PROVE Opens(t, k)
    OBVIOUS
  <2>1. k \in 1 .. n /\ k \in 1 .. Len(s) - 1
    BY <1>1
  <2> QED
    BY <1>3, <2>1 DEF Stacked, Opens
<1>5. ASSUME NEW k \in 1 .. n
      PROVE  Leads(t[k].ran, t[k].left, WholeOf(t, w, k), k - 1)
  <2>1. k \in 1 .. Len(s) /\ (k # 1 => k - 1 \in 1 .. n)
    BY <1>1
  <2>2. WholeOf(t, w, k) = WholeOf(s, w, k)
    BY <1>3, <2>1 DEF WholeOf
  <2> QED
    BY <1>3, <2>1, <2>2 DEF Stacked
<1>6. Stacked(t, w)
  <2> HIDE DEF n
  <2> QED
    BY <1>1, <1>3, <1>4, <1>5 DEF Stacked
<1> QED
  BY <1>3, <1>6 DEF t

\* The last action is over, and its list goes on.
LEMMA OverStacked ==
    ASSUME HK!HookAssumption, NEW s, NEW w, Stacked(s, w), s[Len(s)].left # <<>>,
           NEW q \in Courses, q \in Comings(Head(s[Len(s)].left), Len(s) - 1),
           HK!GoesOn(Head(s[Len(s)].left), Len(s) - 1, q)
    PROVE  /\ Stacked([s EXCEPT ![Len(s)] = HK!Over(@, q.ran)], w)
           /\ Len([s EXCEPT ![Len(s)] = HK!Over(@, q.ran)]) = Len(s)
           /\ \A k \in 1 .. Len(s) - 1 : [s EXCEPT ![Len(s)] = HK!Over(@, q.ran)][k] = s[k]
           /\ [s EXCEPT ![Len(s)] = HK!Over(@, q.ran)][Len(s)].left = Tail(s[Len(s)].left)
<1> DEFINE n == Len(s)
           e == HK!Over(s[n], q.ran)
           t == [s EXCEPT ![n] = e]
<1>1. s \in Seq(Levels) /\ n \in 1 .. 6 /\ n \in 1 .. Len(s)
  BY DepthBound DEF Stacked
<1>2. s[n].left \in Lists /\ s[n].ran \in Seq(Executed)
  <2>1. s[n] \in Levels
    BY <1>1, ElementOfSeq
  <2> QED
    BY <2>1 DEF Levels
<1>3. q.ran \in Seq(Executed)
  BY DEF Courses
<1>4. Tail(s[n].left) \in Lists /\ s[n].ran \o q.ran \in Seq(Executed)
  BY <1>2, <1>3, HeadTailProperties, ConcatProperties DEF Lists
<1>5. e = [left |-> Tail(s[n].left), ran |-> s[n].ran \o q.ran] /\ e \in Levels
  BY <1>4 DEF HK!Over, Levels
<1>e. e.ran = s[n].ran \o q.ran /\ e.left = Tail(s[n].left)
  BY DEF HK!Over
<1>6. t \in Seq(Levels) /\ Len(t) = n /\ \A k \in 1 .. n : t[k] = IF k = n THEN e ELSE s[k]
  <2> HIDE DEF e
  <2> QED
    BY <1>1, <1>5, ExceptSeq
<1>7. t = [s EXCEPT ![Len(s)] = HK!Over(@, q.ran)]
  OBVIOUS
<1> HIDE DEF t, e
<1>8. \A k \in 1 .. n - 1 : t[k] = s[k]
  BY <1>1, <1>6
<1>9. \A k \in 1 .. n - 1 : Opens(t, k)
  BY <1>8 DEF Stacked, Opens
<1>10. ASSUME NEW k \in 1 .. n
       PROVE  Leads(t[k].ran, t[k].left, WholeOf(t, w, k), k - 1)
  <2>1. WholeOf(t, w, k) = WholeOf(s, w, k)
    <3>1. k # 1 => k - 1 \in 1 .. n - 1
      BY <1>1
    <3> QED
      BY <1>8, <3>1 DEF WholeOf
  <2>2. Leads(s[k].ran, s[k].left, WholeOf(s, w, k), k - 1)
    BY DEF Stacked
  <2>3. CASE k = n
    <3>1. n - 1 \in 0 .. 5
      BY <1>1
    <3>2. Leads(s[n].ran \o q.ran, Tail(s[n].left), WholeOf(s, w, n), n - 1)
      BY <1>2, <2>2, <2>3, <3>1, LeadsOn
    <3>3. t[k] = e
      BY <1>6, <2>3
    <3>4. t[k].ran = s[n].ran \o q.ran /\ t[k].left = Tail(s[n].left)
      BY <1>e, <3>3
    <3>5. Leads(s[n].ran \o q.ran, Tail(s[n].left), WholeOf(t, w, k), k - 1)
      BY <2>1, <2>3, <3>2
    <3> QED
      BY <3>4, <3>5
  <2>4. CASE k # n
    <3>1. t[k] = s[k]
      BY <1>6, <2>4
    <3> QED
      BY <2>1, <2>2, <3>1
  <2> QED
    BY <2>3, <2>4
<1>11. Stacked(t, w)
  <2>1. Len(t) = n /\ n >= 1
    BY <1>1, <1>6
  <2>2. \A k \in 1 .. n : Leads(t[k].ran, t[k].left, WholeOf(t, w, k), k - 1)
    BY <1>10
  <2>3. t \in Seq(Levels)
    BY <1>6
  <2>4. \A k \in 1 .. Len(t) - 1 : Opens(t, k)
    BY <1>9, <2>1
  <2>5. \A k \in 1 .. Len(t) : Leads(t[k].ran, t[k].left, WholeOf(t, w, k), k - 1)
    BY <2>1, <2>2
  <2> HIDE DEF n
  <2>6. Len(t) >= 1
    BY <2>1
  <2> QED
    BY <2>3, <2>4, <2>5, <2>6 DEF Stacked
<1>12. t[n].left = Tail(s[n].left)
  <2>1. t[n] = e
    BY <1>1, <1>6
  <2> HIDE DEF n
  <2> QED
    BY <1>e, <2>1
<1> QED
  BY <1>6, <1>7, <1>8, <1>11, <1>12

\* What a routine came to is what the action that opened it comes to.
LEMMA Returned ==
    ASSUME NEW s, NEW w, Stacked(s, w), Len(s) > 1,
           NEW q, q \in HK!Readings[<<WholeOf(s, w, Len(s)), Len(s) - 1>>]
    PROVE  LET t == SubSeq(s, 1, Len(s) - 1) IN
           /\ t[Len(t)] = s[Len(s) - 1]
           /\ t[Len(t)].left # <<>> /\ Head(t[Len(t)].left).type = "routine"
           /\ q \in Comings(Head(t[Len(t)].left), Len(t) - 1)
<1> DEFINE n == Len(s)
           t == SubSeq(s, 1, n - 1)
           a == Head(s[n - 1].left)
<1>1. n \in Nat /\ n > 1 /\ n - 1 \in 1 .. n - 1
  <2>1. n \in Nat
    BY DepthBound
  <2> QED
    BY <2>1
<1>2. Len(t) = n - 1 /\ t[n - 1] = s[n - 1]
  BY <1>1, PopStacked
<1>3. s[n - 1].left # <<>> /\ a.type = "routine" /\ HK!Openable(a, n - 1 - 1)
  <2>1. Opens(s, n - 1)
    BY <1>1 DEF Stacked
  <2> QED
    BY <2>1 DEF Opens
<1>4. WholeOf(s, w, n) = Routines[a.path]
  BY <1>1 DEF WholeOf
<1> HIDE DEF t, a, n
<1>5. n - 1 - 1 + 1 = n - 1
  BY <1>1
<1>6. Inside(a, n - 1 - 1) = HK!Readings[<<Routines[a.path], n - 1>>]
  BY <1>3, <1>5 DEF Inside
<1>7. q \in HK!Readings[<<WholeOf(s, w, n), n - 1>>]
  BY DEF n
<1>8. q \in Comings(a, n - 1 - 1)
  BY <1>3, <1>4, <1>6, <1>7 DEF Comings, HK!Comes
<1> QED
  BY <1>2, <1>3, <1>8 DEF t, a, n

-----------------------------------------------------------------------------
(* Hooks: what keeps the files *)

FileNames(some) == {f.name : f \in some}

\* What of x was there at first has its name also where nothing is deleted.
KeptIn(st, gone, x) ==
    \E y \in HookPlaces \ gone : FileNames(st[x] \cap HK!First) \subseteq FileNames(st[y])

SafeIn(list, depth, st, gone) ==
    /\ \A j \in DOMAIN list : list[j].type = "copy" => list[j].to \notin gone
    /\ \A j \in DOMAIN list : list[j].type = "delete" =>
          /\ list[j].from \in gone
          /\ \/ KeptIn(st, gone, list[j].from)
             \/ \E i \in 1 .. j - 1 : HK!Secures(list[i], list[j].from, depth)
Protected(s, st, gone) == \A k \in 1 .. Len(s) : SafeIn(s[k].left, k - 1, st, gone)

LEMMA SafeConfigured ==
    ASSUME HK!Careful, NEW st
    PROVE  /\ SafeIn(hooks.pre, 0, st, HK!Deleted) /\ SafeIn(hooks.post, 0, st, HK!Deleted)
           /\ \A p \in DOMAIN Routines, depth \in Nat \ {0} :
                 SafeIn(Routines[p], depth, st, HK!Deleted)
<1>1. ASSUME NEW list, NEW depth, HK!Elements(list) \subseteq HK!Listed, HK!CopiesFirst(list, depth)
      PROVE  SafeIn(list, depth, st, HK!Deleted)
  <2>1. \A j \in DOMAIN list : list[j] \in HK!Listed
    BY <1>1 DEF HK!Elements
  <2>2. \A j \in DOMAIN list : list[j].type = "copy" => list[j].to \notin HK!Deleted
    BY <2>1 DEF HK!Careful
  <2>3. \A j \in DOMAIN list : list[j].type = "delete" => list[j].from \in HK!Deleted
    BY <2>1 DEF HK!Deleted
  <2> QED
    BY <1>1, <2>2, <2>3 DEF SafeIn, HK!CopiesFirst
<1>2. /\ HK!Elements(hooks.pre) \subseteq HK!Listed /\ HK!Elements(hooks.post) \subseteq HK!Listed
      /\ \A p \in DOMAIN Routines : HK!Elements(Routines[p]) \subseteq HK!Listed
  BY DEF HK!Listed
<1>3. /\ HK!CopiesFirst(hooks.pre, 0) /\ HK!CopiesFirst(hooks.post, 0)
      /\ \A p \in DOMAIN Routines : HK!CopiesFirst(Routines[p], 1)
  BY DEF HK!Careful
<1>4. ASSUME NEW list, NEW depth \in Nat \ {0}, HK!CopiesFirst(list, 1)
      PROVE  HK!CopiesFirst(list, depth)
  BY <1>4 DEF HK!CopiesFirst, HK!Secures
<1> QED
  BY <1>1, <1>2, <1>3, <1>4

LEMMA SafeStays ==
    ASSUME NEW s, NEW st, NEW new, NEW gone, Protected(s, st, gone),
           \A x \in gone : KeptIn(st, gone, x) => KeptIn(new, gone, x)
    PROVE  Protected(s, new, gone)
BY DEF Protected, SafeIn

LEMMA SafeTail ==
    ASSUME NEW list \in Lists, list # <<>>, NEW depth, NEW st, NEW gone,
           SafeIn(list, depth, st, gone),
           \A x \in gone : HK!Secures(Head(list), x, depth) => KeptIn(st, gone, x)
    PROVE  SafeIn(Tail(list), depth, st, gone)
<1> DEFINE rest == Tail(list)
           n == Len(rest)
<1>1. /\ n \in Nat /\ DOMAIN rest = 1 .. n /\ DOMAIN list = 1 .. n + 1
      /\ \A i \in 1 .. n : rest[i] = list[i + 1]
  BY HeadTailProperties, LenProperties DEF Lists
<1>2. Head(list) = list[1]
  OBVIOUS
<1> HIDE DEF rest, n
<1>3. \A j \in 1 .. n : j + 1 \in DOMAIN list
  BY <1>1
<1>4. \A j \in DOMAIN rest : rest[j].type = "copy" => rest[j].to \notin gone
  BY <1>1, <1>3 DEF SafeIn
<1>5. ASSUME NEW j \in DOMAIN rest, rest[j].type = "delete", ~KeptIn(st, gone, rest[j].from)
      PROVE  \E i \in 1 .. j - 1 : HK!Secures(rest[i], rest[j].from, depth)
  <2>1. j \in 1 .. n /\ rest[j] = list[j + 1]
    BY <1>1
  <2>2. PICK i \in 1 .. j + 1 - 1 : HK!Secures(list[i], rest[j].from, depth)
    BY <1>3, <1>5, <2>1 DEF SafeIn
  <2>3. rest[j].from \in gone
    BY <1>3, <1>5, <2>1 DEF SafeIn
  <2>4. i # 1
    BY <1>2, <1>5, <2>2, <2>3
  <2>5. i - 1 \in 1 .. j - 1 /\ i - 1 \in 1 .. n /\ i - 1 + 1 = i
    BY <1>1, <2>1, <2>4
  <2>6. rest[i - 1] = list[i]
    BY <1>1, <2>5
  <2> QED
    BY <2>2, <2>5, <2>6
<1>6. \A j \in DOMAIN rest : rest[j].type = "delete" => rest[j].from \in gone
  BY <1>1, <1>3 DEF SafeIn
<1> QED
  BY <1>4, <1>5, <1>6 DEF SafeIn, rest

LEMMA ProtectedOver ==
    ASSUME NEW s, NEW t, NEW st, NEW gone, Protected(s, st, gone), Len(s) \in Nat \ {0},
           Len(t) = Len(s), \A k \in 1 .. Len(s) - 1 : t[k] = s[k],
           s[Len(s)].left \in Lists, s[Len(s)].left # <<>>,
           t[Len(s)].left = Tail(s[Len(s)].left),
           \A x \in gone : HK!Secures(Head(s[Len(s)].left), x, Len(s) - 1) => KeptIn(st, gone, x)
    PROVE  Protected(t, st, gone)
<1> DEFINE n == Len(s)
<1>1. SafeIn(s[n].left, n - 1, st, gone)
  <2>1. n \in 1 .. n
    OBVIOUS
  <2> QED
    BY <2>1 DEF Protected
<1>2. SafeIn(t[n].left, n - 1, st, gone)
  <2> HIDE DEF n
  <2>1. SafeIn(Tail(s[n].left), n - 1, st, gone)
    BY <1>1, SafeTail DEF n
  <2> QED
    BY <2>1 DEF n
<1>3. ASSUME NEW k \in 1 .. n PROVE SafeIn(t[k].left, k - 1, st, gone)
  <2>1. CASE k = n
    BY <1>2, <2>1
  <2>2. CASE k # n
    <3>1. k \in 1 .. n - 1
      BY <2>2
    <3> QED
      BY <3>1 DEF Protected
  <2> QED
    BY <2>1, <2>2
<1> QED
  BY <1>3 DEF Protected

-----------------------------------------------------------------------------
(* Hooks: the invariant *)

Doing == Head(stack[Len(stack)].left)
Written == IF hookPhase = "pre" THEN hooks.pre ELSE hooks.post
InPhase == hookPhase \in {"pre", "post"}

HookType ==
    /\ hooks \in HookConfigs
    /\ hookPhase \in {"ready", "pre", "body", "post", "done", "failed"}
    /\ DOMAIN stored = HookPlaces
    /\ moving = [on |-> moving.on, left |-> moving.left, found |-> moving.found]
    /\ moving.on \in BOOLEAN
    /\ raised \in [on : BOOLEAN, ran : Seq(Executed)]

\* What is open, and what is under way there.
OnStack ==
    /\ InPhase => Stacked(stack, Written)
    /\ ~InPhase => stack = <<>> /\ ~raised.on /\ ~moving.on
    /\ raised.on => /\ stack[Len(stack)].left # <<>> /\ ~moving.on
                    /\ [ran |-> raised.ran, ok |-> FALSE] \in Comings(Doing, Len(stack) - 1)
    /\ moving.on => stack[Len(stack)].left # <<>> /\ Doing.type \in {"copy", "delete"}

Logged ==
    /\ hookPhase = "body" => hookLog.ok /\ hookLog \in HK!Readings[<<hooks.pre, 0>>]
    /\ hookPhase = "done" => hookLog.ok /\ hookLog \in HK!Readings[<<hooks.post, 0>>]
    /\ hookPhase = "failed" /\ ~hookLog.ok =>
         hookLog \in HK!Readings[<<hooks.pre, 0>>] \cup HK!Readings[<<hooks.post, 0>>]

\* Every file has the name and the body of one that was there or arrived, and
\* only such files are copied.
Known(some) == \A g \in some : \E f \in HK!First \cup LateFiles : g.name = f.name /\ g.body = f.body
AllKnown == (\A p \in HookPlaces : Known(stored[p])) /\ (moving.on => Known(moving.left))

\* A file that was there at first is where it was, or its name is where nothing
\* is deleted.
Remains(f, st, gone) ==
    \/ \E x \in HookPlaces : f \in st[x]
    \/ \E y \in HookPlaces \ gone : f.name \in FileNames(st[y])

\* While deletes are still to come, something keeps what they delete.
Guarded ==
    HK!Careful =>
    /\ \A f \in HK!First : Remains(f, stored, HK!Deleted)
    /\ Protected(stack, stored, HK!Deleted)
    /\ moving.on /\ Doing.type = "copy" =>
         FileNames(stored[Doing.from] \cap HK!First)
            \subseteq FileNames(stored[Doing.to]) \cup FileNames(moving.left)

HookInv == HookType /\ OnStack /\ Logged /\ Guarded

LEMMA SameHooks ==
    ASSUME hooks' = hooks
    PROVE  /\ HK!Careful' <=> HK!Careful
           /\ HK!Deleted' = HK!Deleted
<1>1. HK!Listed' = HK!Listed
  BY DEF HK!Listed, HK!Elements
<1>2. HK!Deleted' = HK!Deleted
  BY <1>1 DEF HK!Deleted
<1>3. HK!Careful' <=> HK!Careful
  BY <1>1, <1>2 DEF HK!Careful, HK!CopiesFirst, HK!Secures
<1> QED
  BY <1>2, <1>3

LEMMA InitHooks == ASSUME HK!HookAssumption, HK!Init PROVE HookInv
<1>1. HookType
  BY EmptySeq DEF HookType, HK!Init, HK!HookAssumption, HK!Still, HK!Calm
<1>2. stack = <<>> /\ hookPhase = "ready" /\ ~raised.on /\ ~moving.on
  BY DEF HK!Init, HK!Still, HK!Calm
<1>3. OnStack /\ Logged
  BY <1>2 DEF OnStack, Logged, InPhase
<1>4. Protected(stack, stored, HK!Deleted)
  BY <1>2 DEF Protected
<1>5. Guarded
  <2>1. ASSUME NEW f \in HK!First
        PROVE  Remains(f, stored, HK!Deleted)
    <3>1. PICK p \in HookPlaces : f \in HookFiles[p]
      BY <2>1 DEF HK!First
    <3>2. f \in stored[p]
      BY <3>1 DEF HK!Init
    <3> QED
      BY <3>1, <3>2 DEF Remains
  <2> QED
    BY <1>2, <1>4, <2>1 DEF Guarded
<1> QED
  BY <1>1, <1>3, <1>5 DEF HookInv

LEMMA AtWork ==
    ASSUME HK!HookAssumption, HookInv, InPhase
    PROVE  /\ Written \in Lists
           /\ Stacked(stack, Written) /\ stack \in Seq(Levels) /\ Len(stack) \in 1 .. 6
           /\ stack[Len(stack)].left \in Lists /\ stack[Len(stack)].ran \in Seq(Executed)
           /\ stack[Len(stack)].left # <<>> => Doing \in HookActions
<1>1. Written \in Lists
  BY DEF HookInv, HookType, HK!HookAssumption, Written, Lists
<1>2. Stacked(stack, Written) /\ stack \in Seq(Levels) /\ Len(stack) \in 1 .. 6
  BY DepthBound DEF HookInv, OnStack, Stacked
<1>3. stack[Len(stack)] \in Levels
  <2> DEFINE n == Len(stack)
  <2>1. n \in 1 .. n
    BY <1>2
  <2> QED
    BY <1>2, <2>1, ElementOfSeq
<1>4. stack[Len(stack)].left \in Lists /\ stack[Len(stack)].ran \in Seq(Executed)
  BY <1>3 DEF Levels
<1>5. stack[Len(stack)].left # <<>> => Doing \in HookActions
  BY <1>4, HeadTailProperties DEF Doing, Lists
<1> QED
  BY <1>1, <1>2, <1>4, <1>5

\* The action at hand is one of a safe list.
LEMMA HeadSafe ==
    ASSUME HK!HookAssumption, HookInv, InPhase, HK!Careful, stack[Len(stack)].left # <<>>
    PROVE  /\ Doing.type = "copy" => Doing.to \notin HK!Deleted
           /\ Doing.type = "delete" => /\ Doing.from \in HK!Deleted
                                      /\ KeptIn(stored, HK!Deleted, Doing.from)
<1> DEFINE n == Len(stack)
           list == stack[n].left
<1>1. n \in 1 .. n /\ list \in Lists
  <2>1. n \in 1 .. 6
    BY AtWork
  <2>2. n \in 1 .. n
    <3> HIDE DEF n
    <3> QED
      BY <2>1
  <2> QED
    BY <2>2, AtWork
<1>2. SafeIn(list, n - 1, stored, HK!Deleted)
  BY <1>1 DEF HookInv, Guarded, Protected
<1>3. 1 \in DOMAIN list /\ Doing = list[1] /\ 1 .. 1 - 1 = {}
  <2>1. Len(list) \in Nat \ {0} /\ DOMAIN list = 1 .. Len(list)
    BY <1>1, EmptySeq, LenProperties DEF Lists
  <2> QED
    BY <2>1 DEF Doing
<1> HIDE DEF list, n
<1> QED
  BY <1>2, <1>3 DEF SafeIn

-----------------------------------------------------------------------------
(* Hooks: every step keeps the invariant *)

\* What the last action of the stack does when its list goes on after it.
LEMMA PassKeepsHooks ==
    ASSUME HK!HookAssumption, HookInv, InPhase, stack[Len(stack)].left # <<>>,
           NEW q \in Courses, q \in Comings(Doing, Len(stack) - 1),
           HK!GoesOn(Doing, Len(stack) - 1, q),
           stack' = [stack EXCEPT ![Len(stack)] = HK!Over(@, q.ran)],
           ~raised'.on, raised' \in [on : BOOLEAN, ran : Seq(Executed)],
           moving' = [on |-> moving'.on, left |-> moving'.left, found |-> moving'.found],
           moving'.on = FALSE,
           hooks' = hooks, hookPhase' = hookPhase, stored' = stored, hookLog' = hookLog,
           HK!Careful => \A x \in HK!Deleted : HK!Secures(Doing, x, Len(stack) - 1) =>
                                                  KeptIn(stored, HK!Deleted, x)
    PROVE  HookInv'
<1>1. /\ Stacked(stack', Written)
      /\ Len(stack') = Len(stack)
      /\ \A k \in 1 .. Len(stack) - 1 : stack'[k] = stack[k]
      /\ stack'[Len(stack)].left = Tail(stack[Len(stack)].left)
  <2> DEFINE t == [stack EXCEPT ![Len(stack)] = HK!Over(@, q.ran)]
  <2>1. Stacked(stack, Written)
    BY AtWork
  <2>2. /\ q \in Comings(Head(stack[Len(stack)].left), Len(stack) - 1)
        /\ HK!GoesOn(Head(stack[Len(stack)].left), Len(stack) - 1, q)
    BY DEF Doing
  <2>3. /\ Stacked(t, Written)
        /\ Len(t) = Len(stack)
        /\ \A k \in 1 .. Len(stack) - 1 : t[k] = stack[k]
        /\ t[Len(stack)].left = Tail(stack[Len(stack)].left)
    BY <2>1, <2>2, OverStacked
  <2>4. stack' = t
    OBVIOUS
  <2> HIDE DEF t
  <2> QED
    BY <2>3, <2>4
<1>2. ~moving'.on
  OBVIOUS
<1>3. HookType'
  BY DEF HookInv, HookType
<1>4. OnStack'
  BY <1>1, <1>2 DEF OnStack, InPhase, Written
<1>5. Logged'
  BY DEF HookInv, Logged
<1>6. ASSUME HK!Careful PROVE Protected(stack', stored, HK!Deleted)
  <2>1. Protected(stack, stored, HK!Deleted)
    BY <1>6 DEF HookInv, Guarded
  <2>2. Len(stack) \in Nat \ {0} /\ stack[Len(stack)].left \in Lists
    <3> DEFINE n == Len(stack)
    <3>1. n \in 1 .. 6
      BY AtWork
    <3>2. n \in Nat \ {0}
      <4> HIDE DEF n
      <4> QED
        BY <3>1
    <3> QED
      BY <3>2, AtWork
  <2> QED
    BY <1>1, <1>6, <2>1, <2>2, ProtectedOver DEF Doing
<1>7. Guarded'
  BY <1>2, <1>6, SameHooks DEF HookInv, Guarded
<1> QED
  BY <1>3, <1>4, <1>5, <1>7 DEF HookInv

LEMMA NamedCourse ==
    ASSUME NEW a \in HookActions, a.type # "routine", NEW ok \in BOOLEAN, NEW depth
    PROVE  LET q == [ran |-> <<[name |-> a.name, ok |-> ok]>>, ok |-> ok] IN
           q \in Courses /\ q \in Comings(a, depth)
<1>1. [name |-> a.name, ok |-> ok] \in Executed
  BY DEF Executed, Names
<1>2. <<[name |-> a.name, ok |-> ok]>> \in Seq(Executed)
  BY <1>1
<1> QED
  BY <1>2 DEF Courses, Comings, HK!Comes

LEMMA RunCallKeepsHooks ==
    ASSUME HK!HookAssumption, HookInv, HK!RunCall PROVE HookInv'
<1>1. /\ InPhase /\ stack[Len(stack)].left # <<>> /\ Doing.type = "call" /\ ~raised.on
      /\ Doing = HK!Current
  BY DEF HK!RunCall, HK!Busy, HK!Running, HK!Top, HK!Current, InPhase, Doing
<1> DEFINE q == [ran |-> <<[name |-> Doing.name, ok |-> TRUE]>>, ok |-> TRUE]
<1>2. q \in Courses /\ q \in Comings(Doing, Len(stack) - 1)
  BY <1>1, AtWork, NamedCourse
<1>3. HK!GoesOn(Doing, Len(stack) - 1, q)
  BY DEF HK!GoesOn
<1>4. stack' = [stack EXCEPT ![Len(stack)] = HK!Over(@, q.ran)]
  BY <1>1 DEF HK!RunCall, HK!Succeed, HK!Ended
<1>5. /\ ~raised'.on /\ raised' \in [on : BOOLEAN, ran : Seq(Executed)]
      /\ hooks' = hooks /\ hookPhase' = hookPhase /\ stored' = stored /\ hookLog' = hookLog
      /\ moving' = moving
  BY <1>1 DEF HK!RunCall, HookInv, HookType
<1>6. ~moving.on
  BY <1>1 DEF HookInv, OnStack
<1>7. /\ moving' = [on |-> moving'.on, left |-> moving'.left, found |-> moving'.found]
      /\ moving'.on = FALSE
  BY <1>5, <1>6 DEF HookInv, HookType
<1>8. \A x : ~HK!Secures(Doing, x, Len(stack) - 1)
  BY <1>1 DEF HK!Secures
<1> HIDE DEF q
<1> QED
  BY <1>1, <1>2, <1>3, <1>4, <1>5, <1>7, <1>8, PassKeepsHooks

LEMMA EndFilesKeepsHooks ==
    ASSUME HK!HookAssumption, HookInv, HK!EndFiles PROVE HookInv'
<1>1. /\ InPhase /\ stack[Len(stack)].left # <<>> /\ ~raised.on /\ moving.on /\ moving.left = {}
      /\ Doing = HK!Current
  BY DEF HK!EndFiles, HK!Busy, HK!Running, HK!Top, HK!Current, InPhase, Doing
<1>0. Doing.type \in {"copy", "delete"}
  BY <1>1 DEF HookInv, OnStack
<1> DEFINE q == [ran |-> <<[name |-> Doing.name, ok |-> TRUE]>>, ok |-> TRUE]
<1>2. q \in Courses /\ q \in Comings(Doing, Len(stack) - 1)
  BY <1>0, <1>1, AtWork, NamedCourse
<1>3. HK!GoesOn(Doing, Len(stack) - 1, q)
  BY DEF HK!GoesOn
<1>4. stack' = [stack EXCEPT ![Len(stack)] = HK!Over(@, q.ran)]
  BY <1>1 DEF HK!EndFiles, HK!Succeed, HK!Ended
<1>5. /\ ~raised'.on /\ raised' \in [on : BOOLEAN, ran : Seq(Executed)]
      /\ hooks' = hooks /\ hookPhase' = hookPhase /\ stored' = stored /\ hookLog' = hookLog
      /\ moving' = [on |-> moving'.on, left |-> moving'.left, found |-> moving'.found]
      /\ moving'.on = FALSE
  BY <1>1 DEF HK!EndFiles, HK!Still, HookInv, HookType
<1>6. ASSUME HK!Careful, NEW x \in HK!Deleted, HK!Secures(Doing, x, Len(stack) - 1)
      PROVE  KeptIn(stored, HK!Deleted, x)
  <2>1. Doing.type = "copy" /\ Doing.from = x
    BY <1>6 DEF HK!Secures
  <2>2. FileNames(stored[x] \cap HK!First) \subseteq FileNames(stored[Doing.to])
    BY <1>1, <1>6, <2>1 DEF HookInv, Guarded, FileNames
  <2>3. Doing.to \in HookPlaces
    BY <1>1, <2>1, AtWork DEF HK!HookAssumption
  <2>4. Doing.to \notin HK!Deleted
    BY <1>1, <1>6, <2>1, HeadSafe
  <2> QED
    BY <2>2, <2>3, <2>4 DEF KeptIn
<1> HIDE DEF q
<1> QED
  BY <1>1, <1>2, <1>3, <1>4, <1>5, <1>6, PassKeepsHooks

LEMMA TolerateKeepsHooks ==
    ASSUME HK!HookAssumption, HookInv, HK!Tolerate PROVE HookInv'
<1>1. raised.on /\ Doing = HK!Current /\ Len(stack) - 1 = 0 /\ Doing.on # "abort"
  BY DEF HK!Tolerate, HK!Tolerated, HK!Depth, HK!Current, HK!Top, Doing
<1>2. /\ InPhase /\ stack[Len(stack)].left # <<>> /\ ~moving.on
      /\ [ran |-> raised.ran, ok |-> FALSE] \in Comings(Doing, Len(stack) - 1)
  BY <1>1 DEF HookInv, OnStack
<1> DEFINE q == [ran |-> raised.ran, ok |-> FALSE]
<1>3. q \in Courses
  BY DEF HookInv, HookType, Courses
<1>4. HK!GoesOn(Doing, Len(stack) - 1, q)
  BY <1>1 DEF HK!GoesOn
<1>5. stack' = [stack EXCEPT ![Len(stack)] = HK!Over(@, q.ran)]
  BY DEF HK!Tolerate
<1>6. /\ ~raised'.on /\ raised' \in [on : BOOLEAN, ran : Seq(Executed)]
      /\ hooks' = hooks /\ hookPhase' = hookPhase /\ stored' = stored /\ hookLog' = hookLog
      /\ moving' = moving
  BY EmptySeq DEF HK!Tolerate, HK!Calm
<1>7. /\ moving' = [on |-> moving'.on, left |-> moving'.left, found |-> moving'.found]
      /\ moving'.on = FALSE
  BY <1>2, <1>6 DEF HookInv, HookType
<1>8. \A x : ~HK!Secures(Doing, x, Len(stack) - 1)
  BY <1>1 DEF HK!Secures
<1>9. q \in Comings(Doing, Len(stack) - 1)
  BY <1>2
<1> HIDE DEF q
<1> QED
  BY <1>2, <1>3, <1>4, <1>5, <1>6, <1>7, <1>8, <1>9, PassKeepsHooks

LEMMA ProtectedPop ==
    ASSUME NEW s, NEW w, Stacked(s, w), Len(s) > 1, NEW st, NEW gone, Protected(s, st, gone)
    PROVE  Protected(SubSeq(s, 1, Len(s) - 1), st, gone)
<1> DEFINE t == SubSeq(s, 1, Len(s) - 1)
           n == Len(s)
<1>1. Len(t) = n - 1 /\ \A k \in 1 .. n - 1 : t[k] = s[k]
  BY PopStacked
<1>2. n \in Nat
  <2>1. n \in 1 .. 6
    BY DepthBound
  <2> HIDE DEF n
  <2> QED
    BY <2>1
<1>3. \A k \in 1 .. n : SafeIn(s[k].left, k - 1, st, gone)
  BY DEF Protected
<1> HIDE DEF t, n
<1>4. \A k \in 1 .. n - 1 : k \in 1 .. n
  BY <1>2
<1>5. \A k \in 1 .. Len(t) : SafeIn(t[k].left, k - 1, st, gone)
  BY <1>1, <1>3, <1>4
<1> QED
  BY <1>5 DEF Protected, t, n

LEMMA CloseRoutineKeepsHooks ==
    ASSUME HK!HookAssumption, HookInv, HK!CloseRoutine PROVE HookInv'
<1> DEFINE n == Len(stack)
           t == SubSeq(stack, 1, n - 1)
           ran == stack[n].ran
           q == [ran |-> ran, ok |-> TRUE]
           a == Head(t[Len(t)].left)
           new == [t EXCEPT ![Len(t)] = HK!Over(@, q.ran)]
<1>1. /\ InPhase /\ n > 1 /\ stack[n].left = <<>> /\ ~raised.on
      /\ stack' = new
      /\ hooks' = hooks /\ hookPhase' = hookPhase /\ stored' = stored /\ hookLog' = hookLog
      /\ moving' = moving /\ raised' = raised
  BY DEF HK!CloseRoutine, HK!Running, HK!Top, HK!Outer, InPhase
<1>2. ~moving.on
  BY <1>1 DEF HookInv, OnStack
<1>3. Stacked(stack, Written) /\ n \in 1 .. 6 /\ ran \in Seq(Executed)
  BY <1>1, AtWork
<1>4. q \in HK!Readings[<<WholeOf(stack, Written, n), n - 1>>]
  <2>1. Leads(ran, <<>>, WholeOf(stack, Written, n), n - 1)
    <3>1. \A k \in 1 .. n : Leads(stack[k].ran, stack[k].left, WholeOf(stack, Written, k), k - 1)
      BY <1>3 DEF Stacked
    <3>2. n \in 1 .. n
      BY <1>3
    <3> QED
      BY <1>1, <3>1, <3>2
  <2>2. n - 1 \in 0 .. 5
    BY <1>3
  <2> HIDE DEF n, ran
  <2> QED
    BY <1>3, <2>1, <2>2, LeadsToEnd
<1>5. q \in Courses
  BY <1>3 DEF Courses
<1>6. t[Len(t)].left # <<>> /\ a.type = "routine" /\ q \in Comings(a, Len(t) - 1)
  <2> HIDE DEF q
  <2> QED
    BY <1>1, <1>3, <1>4, Returned
<1>7. Stacked(t, Written)
  BY <1>1, <1>3, PopStacked
<1>8. HK!GoesOn(a, Len(t) - 1, q)
  BY DEF HK!GoesOn
<1>9. /\ Stacked(new, Written)
      /\ Len(new) = Len(t)
      /\ \A k \in 1 .. Len(t) - 1 : new[k] = t[k]
      /\ new[Len(t)].left = Tail(t[Len(t)].left)
  <2> HIDE DEF q, t
  <2> QED
    BY <1>5, <1>6, <1>7, <1>8, OverStacked
<1>10. HookType'
  BY <1>1 DEF HookInv, HookType
<1>11. OnStack'
  <2>1. Stacked(stack', Written')
    <3>1. Written' = Written
      BY <1>1 DEF Written
    <3> HIDE DEF new
    <3> QED
      BY <1>1, <1>9, <3>1
  <2> QED
    BY <1>1, <1>2, <2>1 DEF OnStack, InPhase
<1>12. Logged'
  BY <1>1 DEF HookInv, Logged
<1>13. ASSUME HK!Careful PROVE Protected(stack', stored, HK!Deleted)
  <2>1. Protected(t, stored, HK!Deleted)
    <3>1. Protected(stack, stored, HK!Deleted)
      BY <1>13 DEF HookInv, Guarded
    <3> QED
      BY <1>1, <1>3, <3>1, ProtectedPop
  <2> DEFINE m == Len(t)
  <2>2. m \in 1 .. 6 /\ t \in Seq(Levels)
    BY <1>7, DepthBound DEF Stacked
  <2>3. m \in Nat \ {0} /\ m \in 1 .. m
    <3> HIDE DEF m
    <3> QED
      BY <2>2
  <2>4. t[m].left \in Lists
    <3> HIDE DEF t
    <3>1. t[m] \in Levels
      BY <2>2, <2>3, ElementOfSeq
    <3> QED
      BY <3>1 DEF Levels
  <2>5. \A x : ~HK!Secures(a, x, m - 1)
    BY <1>6 DEF HK!Secures
  <2> HIDE DEF t, new
  <2>6. Protected(new, stored, HK!Deleted)
    BY <1>6, <1>9, <2>1, <2>3, <2>4, <2>5, ProtectedOver
  <2> QED
    BY <1>1, <2>6
<1>14. Guarded'
  <2> HIDE DEF new
  <2> QED
    BY <1>1, <1>2, <1>13, SameHooks DEF HookInv, Guarded
<1> QED
  BY <1>10, <1>11, <1>12, <1>14 DEF HookInv

LEMMA OpenRoutineKeepsHooks ==
    ASSUME HK!HookAssumption, HookInv, HK!OpenRoutine PROVE HookInv'
<1> DEFINE n == Len(stack)
           list == Routines[Doing.path]
           new == Append(stack, HK!Opened(list))
<1>1. /\ InPhase /\ stack[n].left # <<>> /\ ~raised.on /\ Doing.type = "routine"
      /\ HK!Openable(Doing, n - 1) /\ stack' = new
      /\ hooks' = hooks /\ hookPhase' = hookPhase /\ stored' = stored /\ hookLog' = hookLog
      /\ moving' = moving /\ raised' = raised
  BY DEF HK!OpenRoutine, HK!Busy, HK!Running, HK!Top, HK!Current, HK!Depth, InPhase, Doing
<1>2. ~moving.on
  BY <1>1 DEF HookInv, OnStack
<1>3. Stacked(stack, Written) /\ n \in 1 .. 6 /\ stack \in Seq(Levels)
  BY <1>1, AtWork
<1>4. Stacked(new, Written)
  <2>1. Opens(stack, n)
    BY <1>1 DEF Opens, Doing
  <2> QED
    BY <1>3, <2>1, PushStacked DEF Doing
<1>5. list \in Lists /\ Doing.path \in DOMAIN Routines
  BY <1>1, RoutineLists DEF HK!Openable
<1>6. /\ Len(new) = n + 1 /\ \A k \in 1 .. n : new[k] = stack[k]
      /\ new[n + 1] = HK!Opened(list)
  <2>1. HK!Opened(list) \in Levels
    BY <1>5, EmptySeq DEF HK!Opened, Levels
  <2> HIDE DEF list
  <2> QED
    BY <1>3, <2>1, AppendProperties
<1>7. HookType'
  BY <1>1 DEF HookInv, HookType
<1> HIDE DEF new
<1>8. OnStack'
  <2>1. Written' = Written
    BY <1>1 DEF Written
  <2>2. Stacked(stack', Written')
    BY <1>1, <1>4, <2>1
  <2> QED
    BY <1>1, <1>2, <2>2 DEF OnStack, InPhase
<1>9. Logged'
  BY <1>1 DEF HookInv, Logged
<1>10. ASSUME HK!Careful PROVE Protected(new, stored, HK!Deleted)
  <2>1. n \in Nat \ {0}
    <3> HIDE DEF n
    <3> QED
      BY <1>3
  <2>2. SafeIn(list, n, stored, HK!Deleted)
    BY <1>5, <1>10, <2>1, SafeConfigured
  <2>3. \A k \in 1 .. n : SafeIn(stack[k].left, k - 1, stored, HK!Deleted)
    BY <1>10 DEF HookInv, Guarded, Protected
  <2> HIDE DEF list, n
  <2>4. \A k \in 1 .. n : SafeIn(new[k].left, k - 1, stored, HK!Deleted)
    BY <1>6, <2>3
  <2>5. SafeIn(new[n + 1].left, n, stored, HK!Deleted)
    BY <1>6, <2>2 DEF HK!Opened
  <2>6. ASSUME NEW k \in 1 .. n + 1 PROVE SafeIn(new[k].left, k - 1, stored, HK!Deleted)
    <3>1. CASE k \in 1 .. n
      BY <2>4, <3>1
    <3>2. CASE k = n + 1
      <4>1. k - 1 = n
        BY <2>1, <3>2
      <4> QED
        BY <2>5, <3>2, <4>1
    <3> QED
      BY <2>1, <3>1, <3>2
  <2> QED
    BY <1>6, <2>6 DEF Protected
<1>11. Guarded'
  BY <1>1, <1>2, <1>10, SameHooks DEF HookInv, Guarded
<1> QED
  BY <1>7, <1>8, <1>9, <1>11 DEF HookInv

LEMMA LeaveRoutineKeepsHooks ==
    ASSUME HK!HookAssumption, HookInv, HK!LeaveRoutine PROVE HookInv'
<1> DEFINE n == Len(stack)
           t == SubSeq(stack, 1, n - 1)
           ran == stack[n].ran \o raised.ran
           q == [ran |-> ran, ok |-> FALSE]
           a == Head(t[Len(t)].left)
<1>1. /\ raised.on /\ n - 1 > 0 /\ stack' = t
      /\ raised' = [raised EXCEPT !.ran = ran]
      /\ hooks' = hooks /\ hookPhase' = hookPhase /\ stored' = stored /\ hookLog' = hookLog
      /\ moving' = moving
  BY DEF HK!LeaveRoutine, HK!Top, HK!Outer, HK!Depth
<1>2. /\ InPhase /\ ~moving.on /\ stack[n].left # <<>>
      /\ [ran |-> raised.ran, ok |-> FALSE] \in Comings(Doing, n - 1)
  BY <1>1 DEF HookInv, OnStack
<1>3. /\ Stacked(stack, Written) /\ n \in 1 .. 6 /\ stack[n].ran \in Seq(Executed)
      /\ stack[n].left \in Lists
  BY <1>2, AtWork
<1>4. n > 1 /\ n - 1 \in 0 .. 5 /\ n - 1 # 0
  <2> HIDE DEF n
  <2> QED
    BY <1>1, <1>3
<1>5. raised.ran \in Seq(Executed)
  BY DEF HookInv, HookType
<1>6. ran \in Seq(Executed)
  BY <1>3, <1>5, ConcatProperties
<1>7. q \in HK!Readings[<<WholeOf(stack, Written, n), n - 1>>]
  <2>1. Leads(stack[n].ran, stack[n].left, WholeOf(stack, Written, n), n - 1)
    <3>1. \A k \in 1 .. n : Leads(stack[k].ran, stack[k].left, WholeOf(stack, Written, k), k - 1)
      BY <1>3 DEF Stacked
    <3>2. n \in 1 .. n
      <4> HIDE DEF n
      <4> QED
        BY <1>3
    <3> QED
      BY <3>1, <3>2
  <2> DEFINE c == [ran |-> raised.ran, ok |-> FALSE]
  <2>2. c \in Courses
    BY <1>5 DEF Courses
  <2>3. ~HK!GoesOn(Head(stack[n].left), n - 1, c)
    BY <1>4 DEF HK!GoesOn
  <2>4. c \in Comings(Head(stack[n].left), n - 1)
    BY <1>2 DEF Doing
  <2>5. c.ran = raised.ran /\ c.ok = FALSE
    OBVIOUS
  <2> HIDE DEF c, n
  <2>6. [ran |-> stack[n].ran \o c.ran, ok |-> c.ok] \in
          HK!Readings[<<WholeOf(stack, Written, n), n - 1>>]
    BY <1>2, <1>3, <1>4, <2>1, <2>2, <2>3, <2>4, LeadsOut
  <2> QED
    BY <2>5, <2>6
<1>8. t[Len(t)].left # <<>> /\ q \in Comings(a, Len(t) - 1)
  <2> HIDE DEF q
  <2> QED
    BY <1>3, <1>4, <1>7, Returned
<1>9. Stacked(t, Written)
  BY <1>3, <1>4, PopStacked
<1>10. raised'.ran = ran /\ raised'.on /\ raised' \in [on : BOOLEAN, ran : Seq(Executed)]
  BY <1>1, <1>6 DEF HookInv, HookType
<1>11. HookType'
  BY <1>1, <1>10 DEF HookInv, HookType
<1>12. OnStack'
  <2>1. Written' = Written
    BY <1>1 DEF Written
  <2>2. Stacked(stack', Written')
    BY <1>1, <1>9, <2>1
  <2>3. Doing' = a /\ stack'[Len(stack')].left # <<>>
    BY <1>1, <1>8 DEF Doing
  <2>4. [ran |-> raised'.ran, ok |-> FALSE] \in Comings(Doing', Len(stack') - 1)
    BY <1>1, <1>8, <1>10, <2>3
  <2> QED
    BY <1>1, <1>2, <2>2, <2>3, <2>4 DEF OnStack, InPhase
<1>13. Logged'
  BY <1>1 DEF HookInv, Logged
<1>14. ASSUME HK!Careful PROVE Protected(t, stored, HK!Deleted)
  <2>1. Protected(stack, stored, HK!Deleted)
    BY <1>14 DEF HookInv, Guarded
  <2> QED
    BY <1>3, <1>4, <2>1, ProtectedPop
<1>15. Guarded'
  <2> HIDE DEF t
  <2> QED
    BY <1>1, <1>2, <1>14, SameHooks DEF HookInv, Guarded
<1> QED
  BY <1>11, <1>12, <1>13, <1>15 DEF HookInv

LEMMA StartKeepsHooks ==
    ASSUME HK!HookAssumption, HookInv, HK!Start PROVE HookInv'
<1>1. /\ hookPhase' = "pre" /\ stack' = <<HK!Opened(hooks.pre)>>
      /\ moving' = HK!Still /\ raised' = HK!Calm
      /\ hooks' = hooks /\ stored' = stored /\ hookLog' = hookLog
  BY DEF HK!Start
<1>2. /\ ~moving'.on /\ ~raised'.on /\ raised' \in [on : BOOLEAN, ran : Seq(Executed)]
      /\ moving' = [on |-> moving'.on, left |-> moving'.left, found |-> moving'.found]
      /\ moving'.on \in BOOLEAN
  BY <1>1, EmptySeq DEF HK!Still, HK!Calm
<1>3. HookType'
  BY <1>1, <1>2 DEF HookInv, HookType
<1>4. hooks.pre \in Lists
  BY DEF HookInv, HookType, HK!HookAssumption, Lists
<1>5. OnStack'
  <2>1. Written' = hooks.pre
    BY <1>1 DEF Written
  <2>2. Stacked(stack', Written')
    BY <1>1, <1>4, <2>1, OpenedStacked
  <2> QED
    BY <1>1, <1>2, <2>2 DEF OnStack, InPhase
<1>6. Logged'
  BY <1>1 DEF Logged
<1>7. ASSUME HK!Careful PROVE Protected(stack', stored, HK!Deleted)
  <2>1. SafeIn(hooks.pre, 0, stored, HK!Deleted)
    BY <1>7, SafeConfigured
  <2> QED
    BY <1>1, <2>1 DEF Protected, HK!Opened
<1>8. Guarded'
  BY <1>1, <1>2, <1>7, SameHooks DEF HookInv, Guarded
<1> QED
  BY <1>3, <1>5, <1>6, <1>8 DEF HookInv

LEMMA BodyKeepsHooks ==
    ASSUME HK!HookAssumption, HookInv, HK!Body PROVE HookInv'
<1>1. /\ hookPhase = "body" /\ hooks' = hooks /\ stored' = stored /\ hookLog' = hookLog
      /\ moving' = moving /\ raised' = raised
      /\ \/ hookPhase' = "post" /\ stack' = <<HK!Opened(hooks.post)>>
         \/ hookPhase' = "failed" /\ stack' = stack
  BY DEF HK!Body
<1>2. ~moving.on /\ ~raised.on /\ stack = <<>> /\ hookLog.ok
  BY <1>1 DEF HookInv, OnStack, InPhase, Logged
<1>3. HookType'
  BY <1>1 DEF HookInv, HookType
<1>4. hooks.post \in Lists
  BY DEF HookInv, HookType, HK!HookAssumption, Lists
<1>5. OnStack'
  <2>1. CASE hookPhase' = "post" /\ stack' = <<HK!Opened(hooks.post)>>
    <3>1. Written' = hooks.post
      BY <1>1, <2>1 DEF Written
    <3>2. Stacked(stack', Written')
      BY <1>4, <2>1, <3>1, OpenedStacked
    <3> QED
      BY <1>1, <1>2, <2>1, <3>2 DEF OnStack, InPhase
  <2>2. CASE hookPhase' = "failed" /\ stack' = stack
    BY <1>1, <1>2, <2>2 DEF OnStack, InPhase
  <2> QED
    BY <1>1, <2>1, <2>2
<1>6. Logged'
  BY <1>1, <1>2 DEF Logged
<1>7. ASSUME HK!Careful PROVE Protected(stack', stored, HK!Deleted)
  <2>1. SafeIn(hooks.post, 0, stored, HK!Deleted)
    BY <1>7, SafeConfigured
  <2> QED
    BY <1>1, <1>2, <2>1 DEF Protected, HK!Opened
<1>8. Guarded'
  BY <1>1, <1>2, <1>7, SameHooks DEF HookInv, Guarded
<1> QED
  BY <1>3, <1>5, <1>6, <1>8 DEF HookInv

\* A phase is over, with an outcome its list has.
LEMMA PhaseOver ==
    ASSUME HookInv, hooks' = hooks, stored' = stored, moving' = moving, ~moving.on,
           stack' = <<>>, ~raised'.on, raised' \in [on : BOOLEAN, ran : Seq(Executed)],
           hookPhase' \in {"body", "done", "failed"}, Logged'
    PROVE  HookInv'
<1>1. HookType'
  BY DEF HookInv, HookType
<1>2. OnStack'
  BY DEF OnStack, InPhase
<1>3. Protected(stack', stored, HK!Deleted)
  BY DEF Protected
<1>4. Guarded'
  BY <1>3, SameHooks DEF HookInv, Guarded
<1> QED
  BY <1>1, <1>2, <1>4 DEF HookInv

LEMMA AbortKeepsHooks ==
    ASSUME HK!HookAssumption, HookInv, HK!Abort PROVE HookInv'
<1> DEFINE n == Len(stack)
           q == [ran |-> raised.ran, ok |-> FALSE]
<1>1. /\ raised.on /\ n - 1 = 0 /\ ~(Doing.on # "abort")
      /\ hookPhase' = "failed" /\ hookLog' = [ran |-> stack[n].ran \o raised.ran, ok |-> FALSE]
      /\ raised' = HK!Calm /\ stack' = <<>>
      /\ hooks' = hooks /\ stored' = stored /\ moving' = moving
  BY DEF HK!Abort, HK!Tolerated, HK!Depth, HK!Current, HK!Top, Doing
<1>2. InPhase /\ ~moving.on /\ stack[n].left # <<>> /\ q \in Comings(Doing, n - 1)
  BY <1>1 DEF HookInv, OnStack
<1>3. /\ Stacked(stack, Written) /\ n \in 1 .. 6 /\ stack[n].left \in Lists
      /\ stack[n].ran \in Seq(Executed)
  BY <1>2, AtWork
<1>4. n = 1
  <2> HIDE DEF n
  <2> QED
    BY <1>1, <1>3
<1>5. Leads(stack[1].ran, stack[1].left, Written, 0)
  <2>1. \A k \in 1 .. n : Leads(stack[k].ran, stack[k].left, WholeOf(stack, Written, k), k - 1)
    BY <1>3 DEF Stacked
  <2>2. 1 \in 1 .. n /\ 1 - 1 = 0
    BY <1>4
  <2> HIDE DEF n
  <2>3. Leads(stack[1].ran, stack[1].left, WholeOf(stack, Written, 1), 1 - 1)
    BY <2>1, <2>2
  <2> QED
    BY <2>2, <2>3 DEF WholeOf
<1>6. q \in Courses /\ q.ran = raised.ran /\ q.ok = FALSE
  BY DEF HookInv, HookType, Courses
<1>7. ~HK!GoesOn(Head(stack[1].left), 0, q)
  BY <1>1, <1>4, <1>6 DEF HK!GoesOn, Doing
<1>8. q \in Comings(Head(stack[1].left), 0)
  BY <1>2, <1>4 DEF Doing
<1> HIDE DEF q, n
<1>9. [ran |-> stack[1].ran \o q.ran, ok |-> q.ok] \in HK!Readings[<<Written, 0>>]
  <2>1. stack[1].left \in Lists /\ stack[1].left # <<>>
    BY <1>2, <1>3, <1>4
  <2>2. 0 \in 0 .. 5 /\ q \in Courses
    BY <1>6
  <2> QED
    BY <1>5, <1>7, <1>8, <2>1, <2>2, LeadsOut
<1>10. hookLog' \in HK!Readings[<<Written, 0>>]
  BY <1>1, <1>4, <1>6, <1>9
<1>11. Logged'
  BY <1>1, <1>10 DEF Logged, Written
<1>12. ~raised'.on /\ raised' \in [on : BOOLEAN, ran : Seq(Executed)]
  BY <1>1, EmptySeq DEF HK!Calm
<1> QED
  BY <1>1, <1>2, <1>11, <1>12, PhaseOver

LEMMA EndPhaseKeepsHooks ==
    ASSUME HK!HookAssumption, HookInv, HK!EndPhase PROVE HookInv'
<1>1. /\ InPhase /\ ~raised.on /\ Len(stack) = 1 /\ stack[1].left = <<>>
      /\ hookPhase' = IF hookPhase = "pre" THEN "body" ELSE "done"
      /\ hookLog' = [ran |-> stack[1].ran, ok |-> TRUE] /\ stack' = <<>>
      /\ hooks' = hooks /\ stored' = stored /\ moving' = moving /\ raised' = raised
  BY DEF HK!EndPhase, HK!Running, HK!Top, InPhase
<1>2. ~moving.on
  BY <1>1 DEF HookInv, OnStack
<1>3. Stacked(stack, Written) /\ stack[1].ran \in Seq(Executed)
  BY <1>1, AtWork
<1>4. Leads(stack[1].ran, <<>>, Written, 0)
  <2>1. \A k \in 1 .. 1 : Leads(stack[k].ran, stack[k].left, WholeOf(stack, Written, k), k - 1)
    BY <1>1, <1>3 DEF Stacked
  <2>2. 1 \in 1 .. 1 /\ 1 - 1 = 0
    OBVIOUS
  <2>3. Leads(stack[1].ran, stack[1].left, WholeOf(stack, Written, 1), 1 - 1)
    BY <2>1, <2>2
  <2> QED
    BY <1>1, <2>2, <2>3 DEF WholeOf
<1>5. hookLog' \in HK!Readings[<<Written, 0>>] /\ hookLog'.ok
  BY <1>1, <1>3, <1>4, LeadsToEnd
<1>6. Logged'
  BY <1>1, <1>5 DEF Logged, Written, InPhase
<1>7. raised' \in [on : BOOLEAN, ran : Seq(Executed)]
  BY <1>1 DEF HookInv, HookType
<1> QED
  BY <1>1, <1>2, <1>6, <1>7, PhaseOver

LEMMA ListFilesKeepsHooks ==
    ASSUME HK!HookAssumption, HookInv, HK!ListFiles PROVE HookInv'
<1>1. /\ InPhase /\ stack[Len(stack)].left # <<>> /\ ~raised.on
      /\ Doing.type \in {"copy", "delete"}
      /\ moving' = [on |-> TRUE, left |-> stored[Doing.from], found |-> stored[Doing.from] # {}]
      /\ hooks' = hooks /\ hookPhase' = hookPhase /\ stack' = stack /\ raised' = raised
      /\ stored' = stored /\ hookLog' = hookLog
  BY DEF HK!ListFiles, HK!Busy, HK!Running, HK!Top, HK!Current, InPhase, Doing
<1>2. HookType'
  BY <1>1 DEF HookInv, HookType
<1>3. OnStack'
  BY <1>1 DEF HookInv, OnStack, InPhase, Written, Doing
<1>4. Logged'
  BY <1>1 DEF HookInv, Logged
<1>5. moving'.left = stored[Doing.from] /\ Doing' = Doing
  BY <1>1 DEF Doing
<1>6. FileNames(stored[Doing.from] \cap HK!First) \subseteq FileNames(stored[Doing.from])
  BY DEF FileNames
<1>7. Guarded'
  BY <1>1, <1>5, <1>6, SameHooks DEF HookInv, Guarded
<1> QED
  BY <1>2, <1>3, <1>4, <1>7 DEF HookInv

LEMMA FailKeepsHooks ==
    ASSUME HK!HookAssumption, HookInv, HK!Fail PROVE HookInv'
<1> DEFINE n == Len(stack)
           q == [ran |-> raised'.ran, ok |-> FALSE]
<1>1. /\ InPhase /\ stack[n].left # <<>> /\ ~raised.on /\ moving' = HK!Still
      /\ hooks' = hooks /\ hookPhase' = hookPhase /\ stack' = stack
      /\ stored' = stored /\ hookLog' = hookLog
      /\ \/ /\ Doing.type = "routine" /\ ~HK!Openable(Doing, n - 1)
            /\ raised' = [on |-> TRUE, ran |-> <<>>]
         \/ /\ Doing.type = "call" \/ moving.on
            /\ raised' = [on |-> TRUE, ran |-> <<[name |-> Doing.name, ok |-> FALSE]>>]
  BY DEF HK!Fail, HK!Busy, HK!Running, HK!Top, HK!Current, HK!Depth, HK!Ended, InPhase, Doing
<1>2. /\ ~moving'.on /\ moving'.on \in BOOLEAN
      /\ moving' = [on |-> moving'.on, left |-> moving'.left, found |-> moving'.found]
  BY <1>1 DEF HK!Still
<1>3. raised' \in [on : BOOLEAN, ran : Seq(Executed)] /\ q \in Comings(Doing, n - 1)
  <2>1. CASE /\ Doing.type = "routine" /\ ~HK!Openable(Doing, n - 1)
             /\ raised' = [on |-> TRUE, ran |-> <<>>]
    <3>1. q = [ran |-> <<>>, ok |-> FALSE]
      BY <2>1
    <3> HIDE DEF q
    <3> QED
      BY <2>1, <3>1, EmptySeq DEF Comings, HK!Comes
  <2>2. CASE /\ Doing.type = "call" \/ moving.on
             /\ raised' = [on |-> TRUE, ran |-> <<[name |-> Doing.name, ok |-> FALSE]>>]
    <3>1. Doing.type # "routine" /\ Doing \in HookActions
      BY <1>1, <2>2, AtWork DEF HookInv, OnStack
    <3> DEFINE c == [ran |-> <<[name |-> Doing.name, ok |-> FALSE]>>, ok |-> FALSE]
    <3>2. c \in Courses /\ c \in Comings(Doing, n - 1)
      BY <3>1, NamedCourse
    <3>3. q = c /\ raised' = [on |-> TRUE, ran |-> c.ran]
      BY <2>2
    <3> HIDE DEF q, c
    <3> QED
      BY <3>2, <3>3 DEF Courses
  <2> QED
    BY <1>1, <2>1, <2>2
<1>4. HookType'
  BY <1>1, <1>2, <1>3 DEF HookInv, HookType
<1>5. OnStack'
  <2>1. Doing' = Doing /\ Written' = Written
    BY <1>1 DEF Doing, Written
  <2>2. Stacked(stack', Written')
    BY <1>1, <2>1 DEF HookInv, OnStack
  <2>3. q \in Comings(Doing', Len(stack') - 1)
    BY <1>1, <1>3, <2>1
  <2> QED
    BY <1>1, <1>2, <2>2, <2>3 DEF OnStack, InPhase
<1>6. Logged'
  BY <1>1 DEF HookInv, Logged
<1>7. Guarded'
  BY <1>1, <1>2, SameHooks DEF HookInv, Guarded
<1> QED
  BY <1>4, <1>5, <1>6, <1>7 DEF HookInv

LEMMA RunAgainKeepsHooks ==
    ASSUME HookInv, HK!RunAgain PROVE HookInv'
<1>1. /\ hookPhase = "failed" /\ hookPhase' = "ready"
      /\ hooks' = hooks /\ stack' = stack /\ moving' = moving /\ raised' = raised
      /\ stored' = stored /\ hookLog' = hookLog
  BY DEF HK!RunAgain
<1>2. stack = <<>> /\ ~raised.on /\ ~moving.on
  BY <1>1 DEF HookInv, OnStack, InPhase
<1>3. HookType'
  BY <1>1 DEF HookInv, HookType
<1>4. OnStack' /\ Logged'
  BY <1>1, <1>2 DEF OnStack, Logged, InPhase
<1>5. Guarded'
  BY <1>1, <1>2, SameHooks DEF HookInv, Guarded
<1> QED
  BY <1>3, <1>4, <1>5 DEF HookInv

\* What a step does to the files: where nothing is deleted names only come,
\* elsewhere no file comes that was there at first.
LEMMA FilesKeepHooks ==
    ASSUME HookInv, hooks' = hooks, HK!Careful,
           \A y \in HookPlaces \ HK!Deleted : FileNames(stored[y]) \subseteq FileNames(stored'[y]),
           \A x \in HK!Deleted : stored'[x] \cap HK!First \subseteq stored[x], stack' = stack
    PROVE  Protected(stack', stored', HK!Deleted)
<1>1. Protected(stack, stored, HK!Deleted)
  BY DEF HookInv, Guarded
<1>2. ASSUME NEW x \in HK!Deleted, KeptIn(stored, HK!Deleted, x)
      PROVE  KeptIn(stored', HK!Deleted, x)
  <2>1. PICK y \in HookPlaces \ HK!Deleted :
          FileNames(stored[x] \cap HK!First) \subseteq FileNames(stored[y])
    BY <1>2 DEF KeptIn
  <2>2. FileNames(stored'[x] \cap HK!First) \subseteq FileNames(stored[x] \cap HK!First)
    BY DEF FileNames
  <2>3. FileNames(stored'[x] \cap HK!First) \subseteq FileNames(stored'[y])
    BY <2>1, <2>2
  <2> QED
    BY <2>1, <2>3 DEF KeptIn
<1>3. Protected(stack, stored', HK!Deleted)
  BY <1>1, <1>2, SafeStays
<1> QED
  BY <1>3

LEMMA DeletedPlaces ==
    ASSUME HK!HookAssumption, HookType PROVE HK!Deleted \subseteq HookPlaces
<1>1. ASSUME NEW list \in Lists PROVE HK!Elements(list) \subseteq HookActions
  <2>1. \A i \in DOMAIN list : list[i] \in HookActions
    BY LenProperties DEF Lists
  <2> QED
    BY <2>1 DEF HK!Elements
<1>2. /\ hooks.pre \in Lists /\ hooks.post \in Lists
      /\ \A p \in DOMAIN Routines : Routines[p] \in Lists
  BY DEF HookType, HK!HookAssumption, Lists
<1>3. HK!Listed \subseteq HookActions
  BY <1>1, <1>2 DEF HK!Listed
<1> QED
  BY <1>3 DEF HK!Deleted, HK!HookAssumption

LEMMA ArriveKeepsHooks ==
    ASSUME HK!HookAssumption, HookInv, HK!Arrive PROVE HookInv'
<1>1. PICK f \in LateFiles, p \in HookPlaces : stored' = [stored EXCEPT ![p] = @ \cup {f}]
  BY DEF HK!Arrive
<1>2. /\ hooks' = hooks /\ hookPhase' = hookPhase /\ stack' = stack /\ raised' = raised
      /\ moving' = moving /\ hookLog' = hookLog
  BY DEF HK!Arrive
<1>3. /\ DOMAIN stored = HookPlaces /\ f \notin HK!First
      /\ \A x \in HookPlaces : stored'[x] = IF x = p THEN stored[x] \cup {f} ELSE stored[x]
  BY <1>1 DEF HookInv, HookType, HK!HookAssumption
<1>4. HookType'
  BY <1>1, <1>2, <1>3 DEF HookInv, HookType
<1>5. OnStack' /\ Logged'
  BY <1>2 DEF HookInv, OnStack, Logged, InPhase, Written, Doing
<1>6. ASSUME HK!Careful PROVE Guarded'
  <2>1. HK!Deleted \subseteq HookPlaces
    BY DeletedPlaces DEF HookInv
  <2>n. \A x \in HookPlaces : FileNames(stored[x]) \subseteq FileNames(stored'[x])
    BY <1>3 DEF FileNames
  <2>o. \A x \in HK!Deleted : stored'[x] \cap HK!First \subseteq stored[x]
    BY <1>3, <2>1
  <2>2. Protected(stack', stored', HK!Deleted)
    BY <1>2, <1>6, <2>n, <2>o, FilesKeepHooks
  <2>3. \A g \in HK!First : Remains(g, stored', HK!Deleted)
    <3>1. \A g \in HK!First : Remains(g, stored, HK!Deleted)
      BY <1>6 DEF HookInv, Guarded
    <3>2. \A x \in HookPlaces : stored[x] \subseteq stored'[x]
      BY <1>3
    <3> QED
      BY <2>n, <3>1, <3>2 DEF Remains
  <2>4. ASSUME moving.on, Doing.type = "copy"
        PROVE  FileNames(stored'[Doing.from] \cap HK!First)
                  \subseteq FileNames(stored'[Doing.to]) \cup FileNames(moving.left)
    <3>1. Doing.from \in HookPlaces /\ Doing.to \in HookPlaces
      BY <2>4, AtWork DEF HookInv, OnStack, HK!HookAssumption
    <3>2. FileNames(stored[Doing.from] \cap HK!First)
             \subseteq FileNames(stored[Doing.to]) \cup FileNames(moving.left)
      BY <1>6, <2>4 DEF HookInv, Guarded
    <3>3. stored'[Doing.from] \cap HK!First = stored[Doing.from] \cap HK!First
      BY <1>3, <3>1
    <3> QED
      BY <2>n, <3>1, <3>2, <3>3
  <2>5. Doing' = Doing
    BY <1>2 DEF Doing
  <2> QED
    BY <1>2, <2>2, <2>3, <2>4, <2>5, SameHooks DEF Guarded
<1>7. Guarded'
  BY <1>2, <1>6, SameHooks DEF Guarded
<1> QED
  BY <1>4, <1>5, <1>7 DEF HookInv

\* No name is lost where a file is copied to.
LEMMA OverlaidNames ==
    ASSUME NEW there, NEW f
    PROVE  /\ FileNames(there) \subseteq FileNames(HK!Overlaid(there, f))
           /\ f.name \in FileNames(HK!Overlaid(there, f))
<1>1. HK!Copied(f) \in HK!Overlaid(there, f) /\ HK!Copied(f).name = f.name
  BY DEF HK!Overlaid, HK!Copied
<1>2. ASSUME NEW g \in there PROVE g.name \in FileNames(HK!Overlaid(there, f))
  <2>1. CASE g.name = f.name
    BY <1>1, <2>1 DEF FileNames
  <2>2. CASE g.name # f.name
    BY <2>2 DEF FileNames, HK!Overlaid
  <2> QED
    BY <2>1, <2>2
<1> QED
  BY <1>1, <1>2 DEF FileNames

LEMMA MoveFileKeepsHooks ==
    ASSUME HK!HookAssumption, HookInv, HK!MoveFile PROVE HookInv'
<1>1. /\ InPhase /\ stack[Len(stack)].left # <<>> /\ ~raised.on /\ moving.on
      /\ hooks' = hooks /\ hookPhase' = hookPhase /\ stack' = stack /\ raised' = raised
      /\ hookLog' = hookLog /\ Doing' = Doing
  BY DEF HK!MoveFile, HK!Busy, HK!Running, HK!Top, InPhase, Doing
<1>2. PICK f \in moving.left :
        /\ moving' = [moving EXCEPT !.left = @ \ {f}]
        /\ stored' = IF Doing.type = "copy"
                     THEN [stored EXCEPT ![Doing.to] = HK!Overlaid(@, f)]
                     ELSE [stored EXCEPT ![Doing.from] = @ \ {f}]
  BY DEF HK!MoveFile, HK!Top, HK!Current, Doing
<1>3. Doing.type \in {"copy", "delete"} /\ Doing \in HookActions
  BY <1>1, AtWork DEF HookInv, OnStack
<1>4. Doing.from \in HookPlaces /\ (Doing.type = "copy" => Doing.to \in HookPlaces)
  BY <1>3 DEF HK!HookAssumption
<1>5. DOMAIN stored = HookPlaces
  BY DEF HookInv, HookType
<1>6. moving'.on = moving.on /\ moving'.left = moving.left \ {f}
      /\ moving' = [on |-> moving'.on, left |-> moving'.left, found |-> moving'.found]
  BY <1>2 DEF HookInv, HookType
<1>7. HookType'
  BY <1>1, <1>2, <1>5, <1>6 DEF HookInv, HookType
<1>8. OnStack' /\ Logged'
  BY <1>1, <1>3, <1>6 DEF HookInv, OnStack, Logged, InPhase, Written
<1>9. ASSUME HK!Careful PROVE Guarded'
  <2>1. HK!Deleted \subseteq HookPlaces
    BY DeletedPlaces DEF HookInv
  <2>2. CASE Doing.type = "copy"
    <3>1. \A x \in HookPlaces : stored'[x] = IF x = Doing.to THEN HK!Overlaid(stored[x], f) ELSE stored[x]
      BY <1>2, <1>5, <2>2
    <3>n. /\ \A x \in HookPlaces : FileNames(stored[x]) \subseteq FileNames(stored'[x])
          /\ f.name \in FileNames(stored'[Doing.to])
      BY <1>4, <2>2, <3>1, OverlaidNames
    <3>2. Doing.to \notin HK!Deleted
      BY <1>1, <1>9, <2>2, HeadSafe
    <3>3. Protected(stack', stored', HK!Deleted)
      BY <1>1, <1>9, <2>1, <3>1, <3>2, <3>n, FilesKeepHooks
    <3>4. ASSUME NEW g \in HK!First PROVE Remains(g, stored', HK!Deleted)
      <4>1. Remains(g, stored, HK!Deleted)
        BY <1>9 DEF HookInv, Guarded
      <4>2. CASE \E y \in HookPlaces \ HK!Deleted : g.name \in FileNames(stored[y])
        BY <3>n, <4>2 DEF Remains
      <4>3. ASSUME NEW x \in HookPlaces, g \in stored[x]
            PROVE  Remains(g, stored', HK!Deleted)
        <5>1. CASE x = Doing.to
          <6>1. g.name \in FileNames(stored[x])
            BY <4>3 DEF FileNames
          <6> QED
            BY <3>2, <3>n, <4>3, <5>1, <6>1 DEF Remains
        <5>2. CASE x # Doing.to
          BY <3>1, <4>3, <5>2 DEF Remains
        <5> QED
          BY <5>1, <5>2
      <4> QED
        BY <4>1, <4>2, <4>3 DEF Remains
    <3>5. FileNames(stored[Doing.from] \cap HK!First)
             \subseteq FileNames(stored[Doing.to]) \cup FileNames(moving.left)
      BY <1>1, <1>9, <2>2 DEF HookInv, Guarded
    <3>6. FileNames(stored'[Doing.from] \cap HK!First)
             \subseteq FileNames(stored'[Doing.to]) \cup FileNames(moving.left \ {f})
      <4>1. stored'[Doing.from] = stored[Doing.from]
        BY <1>3, <1>4, <2>2, <3>1 DEF HK!HookAssumption
      <4>2. FileNames(moving.left) \subseteq FileNames(moving.left \ {f}) \cup {f.name}
        BY DEF FileNames
      <4>3. FileNames(stored[Doing.to]) \subseteq FileNames(stored'[Doing.to])
        BY <1>4, <2>2, <3>n
      <4> QED
        BY <3>n, <3>5, <4>1, <4>2, <4>3
    <3> QED
      BY <1>1, <1>6, <3>3, <3>4, <3>6, SameHooks DEF Guarded
  <2>3. CASE Doing.type = "delete"
    <3>1. \A x \in HookPlaces : stored'[x] = IF x = Doing.from THEN stored[x] \ {f} ELSE stored[x]
      BY <1>2, <1>5, <2>3
    <3>2. Doing.from \in HK!Deleted /\ KeptIn(stored, HK!Deleted, Doing.from)
      BY <1>1, <1>9, <2>3, HeadSafe
    <3>3. Protected(stack', stored', HK!Deleted)
      BY <1>1, <1>9, <2>1, <3>1, <3>2, FilesKeepHooks
    <3>4. PICK y \in HookPlaces \ HK!Deleted :
            FileNames(stored[Doing.from] \cap HK!First) \subseteq FileNames(stored[y])
      BY <3>2 DEF KeptIn
    <3>5. ASSUME NEW g \in HK!First PROVE Remains(g, stored', HK!Deleted)
      <4>1. Remains(g, stored, HK!Deleted)
        BY <1>9 DEF HookInv, Guarded
      <4>2. \A z \in HookPlaces \ HK!Deleted : stored'[z] = stored[z]
        BY <3>1, <3>2
      <4>3. CASE \E z \in HookPlaces \ HK!Deleted : g.name \in FileNames(stored[z])
        BY <4>2, <4>3 DEF Remains
      <4>4. ASSUME NEW x \in HookPlaces, g \in stored[x], g \notin stored'[x]
            PROVE  Remains(g, stored', HK!Deleted)
        <5>1. x = Doing.from
          BY <3>1, <4>4
        <5>2. g.name \in FileNames(stored[Doing.from] \cap HK!First)
          BY <4>4, <5>1 DEF FileNames
        <5>3. g.name \in FileNames(stored'[y])
          BY <3>4, <4>2, <5>2
        <5> QED
          BY <5>3 DEF Remains
      <4> QED
        BY <4>1, <4>3, <4>4 DEF Remains
    <3>6. \A g \in HK!First : Remains(g, stored', HK!Deleted)
      BY <3>5
    <3> QED
      BY <1>1, <2>3, <3>3, <3>6, SameHooks DEF Guarded
  <2> QED
    BY <1>3, <2>2, <2>3
<1>10. Guarded'
  BY <1>1, <1>9, SameHooks DEF Guarded
<1> QED
  BY <1>7, <1>8, <1>10 DEF HookInv

LEMMA KnownStays ==
    ASSUME HK!HookAssumption, HookInv, AllKnown, HK!Next PROVE AllKnown'
<1>0. DOMAIN stored = HookPlaces
  BY DEF HookInv, HookType
<1>1. CASE stored' = stored /\ (moving' = moving \/ ~moving'.on)
  BY <1>1 DEF AllKnown, Known, HK!First
<1>2. CASE HK!ListFiles
  <2>1. stored' = stored /\ moving'.left = stored[Doing.from]
    BY <1>2 DEF HK!ListFiles, Doing, HK!Current, HK!Top
  <2>2. Doing \in HookActions /\ Doing.type \in {"copy", "delete"}
    BY <1>2, AtWork DEF HK!ListFiles, HK!Busy, HK!Running, InPhase, Doing, HK!Current, HK!Top
  <2>3. Doing.from \in HookPlaces
    BY <2>2 DEF HK!HookAssumption
  <2> QED
    BY <2>1, <2>3 DEF AllKnown, Known, HK!First
<1>3. CASE HK!MoveFile
  <2>1. InPhase /\ stack[Len(stack)].left # <<>> /\ moving.on
    BY <1>3 DEF HK!MoveFile, HK!Busy, HK!Running, HK!Top, InPhase
  <2>2. PICK f \in moving.left :
          /\ moving' = [moving EXCEPT !.left = @ \ {f}]
          /\ stored' = IF Doing.type = "copy"
                       THEN [stored EXCEPT ![Doing.to] = HK!Overlaid(@, f)]
                       ELSE [stored EXCEPT ![Doing.from] = @ \ {f}]
    BY <1>3 DEF HK!MoveFile, HK!Top, HK!Current, Doing
  <2>3. moving'.left \subseteq moving.left
    BY <2>2 DEF HookInv, HookType
  <2>4. Known(moving.left) /\ \A p \in HookPlaces : Known(stored[p])
    BY <2>1 DEF AllKnown
  <2>5. \A p \in HookPlaces : stored'[p] \subseteq stored[p] \cup {HK!Copied(f)}
    <3>1. CASE Doing.type = "copy"
      BY <1>0, <2>2, <3>1 DEF HK!Overlaid
    <3>2. CASE Doing.type # "copy"
      BY <1>0, <2>2, <3>2
    <3> QED
      BY <3>1, <3>2
  <2>6. Known({HK!Copied(f)})
    <3>1. HK!Copied(f).name = f.name /\ HK!Copied(f).body = f.body
      BY DEF HK!Copied
    <3>2. \E h \in HK!First \cup LateFiles : f.name = h.name /\ f.body = h.body
      BY <2>2, <2>4 DEF Known
    <3> QED
      BY <3>1, <3>2 DEF Known
  <2>7. \A p \in HookPlaces : Known(stored'[p])
    BY <2>4, <2>5, <2>6 DEF Known
  <2>8. Known(moving'.left)
    BY <2>3, <2>4 DEF Known
  <2> QED
    BY <2>7, <2>8 DEF AllKnown, Known, HK!First
<1>4. CASE HK!Arrive
  <2>1. PICK f \in LateFiles, p \in HookPlaces : stored' = [stored EXCEPT ![p] = @ \cup {f}]
    BY <1>4 DEF HK!Arrive
  <2>2. moving' = moving /\ \A x \in HookPlaces : stored'[x] \subseteq stored[x] \cup {f}
    BY <1>0, <1>4, <2>1 DEF HK!Arrive
  <2>3. \A x \in HookPlaces : Known(stored'[x])
    BY <2>2 DEF AllKnown, Known
  <2> QED
    BY <2>2, <2>3 DEF AllKnown, Known, HK!First
<1>5. ASSUME HK!Start \/ HK!EndFiles \/ HK!Fail
      PROVE  stored' = stored /\ ~moving'.on
  <2>0. ~HK!Still.on
    BY DEF HK!Still
  <2>1. CASE HK!Start
    BY <2>0, <2>1 DEF HK!Start
  <2>2. CASE HK!EndFiles
    BY <2>0, <2>2 DEF HK!EndFiles
  <2>3. CASE HK!Fail
    BY <2>0, <2>3 DEF HK!Fail
  <2> QED
    BY <1>5, <2>1, <2>2, <2>3
<1>6. ASSUME \/ HK!RunCall \/ HK!OpenRoutine \/ HK!CloseRoutine \/ HK!LeaveRoutine \/ HK!Tolerate
             \/ HK!Abort \/ HK!EndPhase \/ HK!Body \/ HK!RunAgain
      PROVE  stored' = stored /\ moving' = moving
  <2>1. CASE HK!RunCall
    BY <2>1 DEF HK!RunCall
  <2>2. CASE HK!OpenRoutine
    BY <2>2 DEF HK!OpenRoutine
  <2>3. CASE HK!CloseRoutine
    BY <2>3 DEF HK!CloseRoutine
  <2>4. CASE HK!LeaveRoutine
    BY <2>4 DEF HK!LeaveRoutine
  <2>5. CASE HK!Tolerate
    BY <2>5 DEF HK!Tolerate
  <2>6. CASE HK!Abort
    BY <2>6 DEF HK!Abort
  <2>7. CASE HK!EndPhase
    BY <2>7 DEF HK!EndPhase
  <2>8. CASE HK!Body
    BY <2>8 DEF HK!Body
  <2>9. CASE HK!RunAgain
    BY <2>9 DEF HK!RunAgain
  <2> QED
    BY <1>6, <2>1, <2>2, <2>3, <2>4, <2>5, <2>6, <2>7, <2>8, <2>9
<1> QED
  BY <1>1, <1>2, <1>3, <1>4, <1>5, <1>6 DEF HK!Next

LEMMA HooksAreAsWritten ==
    ASSUME HK!HookAssumption, HookInv, AllKnown PROVE HK!HooksAsWritten
<1>1. InPhase => HK!Depth <= HK!MAX_ROUTINE_DEPTH
  <2> DEFINE n == Len(stack)
  <2>1. InPhase => n \in 1 .. 6
    BY AtWork
  <2> HIDE DEF n
  <2>2. InPhase => n - 1 <= 5
    BY <2>1
  <2> QED
    BY <2>2 DEF n, HK!Depth, HK!MAX_ROUTINE_DEPTH
<1>2. ASSUME HK!Careful, NEW f \in HK!First
      PROVE  \E p \in HookPlaces : \E g \in stored[p] : HK!LeftOf(f, g)
  <2>1. PICK p \in HookPlaces : f.name \in FileNames(stored[p])
    BY <1>2 DEF HookInv, Guarded, Remains, FileNames
  <2>2. PICK g \in stored[p] : g.name = f.name
    BY <2>1 DEF FileNames
  <2>3. PICK h \in HK!First \cup LateFiles : g.name = h.name /\ g.body = h.body
    BY <2>1, <2>2 DEF AllKnown, Known
  <2>4. HK!LeftOf(f, g)
    BY <2>2, <2>3 DEF HK!LeftOf, HK!Alone
  <2> QED
    BY <2>1, <2>2, <2>4
<1> QED
  BY <1>1, <1>2 DEF HK!HooksAsWritten, HookInv, Logged, InPhase

\* Hooks run as their settings say: what a phase executed is one of the courses
\* its list has, routines in place however they nest or name each other, the
\* stage runs exactly if its pre hooks went through, and hooks that move files
\* carefully lose none whose name no other file has, and one at least of each
\* name is left, whatever fails, whatever arrives and in whichever attempt
\* (HookRunner).
THEOREM HooksRunAsWritten == UnitsSpec => []HooksAsWritten
<1> DEFINE Inv == focus = "hooks" => HookInv /\ AllKnown
<1> USE UnitAssumption
<1>1. UnitsInit => Inv
  <2>1. ASSUME HK!HookAssumption, HK!Init PROVE AllKnown
    <3>1. \A p \in HookPlaces : stored[p] \subseteq HK!First
      BY <2>1 DEF HK!Init, HK!First
    <3>2. ~moving.on
      BY <2>1 DEF HK!Init, HK!Still
    <3> QED
      BY <3>1, <3>2 DEF AllKnown, Known
  <2> QED
    BY <2>1, InitHooks DEF UnitsInit, UnitAssumption
<1>2. Inv /\ [UnitsNext]_coreVars => Inv'
  <2> SUFFICES ASSUME Inv, [UnitsNext]_coreVars, focus' = "hooks"
               PROVE  HookInv' /\ AllKnown'
    OBVIOUS
  <2>1. focus = "hooks" /\ HookInv /\ AllKnown /\ HK!HookAssumption
    BY DEF UnitsNext, coreVars, UnitAssumption
  <2>k. ASSUME HK!Next PROVE AllKnown'
    BY <2>1, <2>k, KnownStays
  <2>2. ASSUME HK!Next PROVE HookInv'
    BY <2>1, <2>2, StartKeepsHooks, RunCallKeepsHooks, ListFilesKeepsHooks, MoveFileKeepsHooks,
       EndFilesKeepsHooks, OpenRoutineKeepsHooks, CloseRoutineKeepsHooks, FailKeepsHooks,
       LeaveRoutineKeepsHooks, TolerateKeepsHooks, AbortKeepsHooks, EndPhaseKeepsHooks,
       BodyKeepsHooks, RunAgainKeepsHooks, ArriveKeepsHooks DEF HK!Next
  <2>3. CASE UNCHANGED hookVars
    <3>1. UNCHANGED <<hooks, hookPhase, stack, moving, raised, stored, hookLog>>
      BY <2>3 DEF hookVars
    <3>2. HookType' /\ OnStack' /\ Logged'
      BY <2>1, <3>1 DEF HookInv, HookType, OnStack, Logged, InPhase, Written, Doing
    <3>3. Guarded'
      BY <2>1, <3>1, SameHooks DEF HookInv, Guarded, Doing
    <3>4. AllKnown'
      BY <2>1, <3>1 DEF AllKnown, Known, HK!First
    <3> QED
      BY <3>2, <3>3, <3>4 DEF HookInv
  <2> QED
    BY <2>1, <2>k, <2>2, <2>3 DEF UnitsNext, coreVars
<1>3. Inv => HooksAsWritten
  BY HooksAreAsWritten DEF HooksAsWritten, UnitAssumption
<1> QED
  BY <1>1, <1>2, <1>3, PTL DEF UnitsSpec
=============================================================================
