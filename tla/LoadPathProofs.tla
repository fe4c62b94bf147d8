--------------------------- MODULE LoadPathProofs ---------------------------
(***************************************************************************)
(* Proofs about module LoadPath, for any number of runs and days.          *)
(***************************************************************************)
EXTENDS LoadPath, FiniteSetTheorems, TLAPS

AllSteps == {"extract", "transform", "write", "publish", "done", "cleaned", "failed"}

Places == {"idle", "partition", "create", "load", "copy", "count", "cleanup",
           "promote", "merge", "verify", "drop", "stopped"}

Fields == {"todo", "day", "op", "table", "rows", "parts"}

\* The functions are defined for every run.
Shape ==
    /\ cfg \in Config
    /\ days \in [Runs -> SUBSET Days]
    /\ step \in [Runs -> AllSteps]
    /\ pc \in [Runs -> Places]
    /\ DOMAIN loc = Runs /\ \A r \in Runs : DOMAIN loc[r] = Fields
    /\ DOMAIN vault = Runs /\ \A r \in Runs : DOMAIN vault[r] = VaultStages
    /\ DOMAIN reported = Runs /\ \A r \in Runs : DOMAIN reported[r] = VaultStages
    /\ DOMAIN staged = Runs
    /\ DOMAIN open = Runs
    /\ \A r \in Runs : step[r] = "publish" => cfg.strategy # "direct"

\* A step leaves run q alone.
Same(q) ==
    /\ step'[q] = step[q] /\ pc'[q] = pc[q] /\ loc'[q] = loc[q]
    /\ vault'[q] = vault[q] /\ reported'[q] = reported[q]
    /\ staged'[q] = staged[q] /\ open'[q] = open[q]

\* A step of run r leaves the other runs alone and its record well formed.
Framed(r) == cfg' = cfg /\ days' = days /\ \A q \in Runs \ {r} : Same(q)

-----------------------------------------------------------------------------
LEMMA PipelineOrder ==
    ASSUME cfg \in Config
    PROVE  /\ NextStep("extract") = "transform"
           /\ NextStep("transform") = "write"
           /\ NextStep("write") = IF cfg.strategy = "direct" THEN "done" ELSE "publish"
           /\ cfg.strategy # "direct" => NextStep("publish") = "done"
<1>1. CASE cfg.strategy = "direct"
  <2>1. Pipeline = <<"extract", "transform", "write">>
    BY <1>1 DEF Pipeline
  <2> QED BY <1>1, <2>1 DEF NextStep
<1>2. CASE cfg.strategy # "direct"
  <2>1. Pipeline = <<"extract", "transform", "write", "publish">>
    BY <1>2 DEF Pipeline
  <2> QED BY <1>2, <2>1 DEF NextStep
<1> QED BY <1>1, <1>2

\* The actions of one run, one by one.
StepOf(r) ==
    \/ Work(r) \/ Crash(r) \/ CopyFails(r) \/ Restart(r) \/ GiveUp(r)

LEMMA StepFrame ==
    ASSUME Shape, NEW r \in Runs, StepOf(r)
    PROVE  Shape' /\ Framed(r)
<1> USE DEF At, Goto, Raise, Advance, DbUnchanged, StagingFailed, AfterFailedVerify
<1>1. CASE VaultBegin(r, "extract")
  BY <1>1 DEF VaultBegin, Shape, Framed, Same, Places, AllSteps, Fields, Steps, VaultStages, ResetDataDir, NoLocals
<1>2. CASE VaultBegin(r, "transform")
  BY <1>2 DEF VaultBegin, Shape, Framed, Same, Places, AllSteps, Fields, Steps, VaultStages, ResetDataDir, NoLocals
<1>3. CASE VaultPartition(r, "extract")
  BY <1>3 DEF VaultPartition, Shape, Framed, Same, Places, AllSteps, Fields, Steps, VaultStages
<1>4. CASE VaultPartition(r, "transform")
  BY <1>4 DEF VaultPartition, Shape, Framed, Same, Places, AllSteps, Fields, Steps, VaultStages
<1>5. CASE VaultSave(r, "extract")
  BY PipelineOrder, <1>5 DEF VaultSave, Shape, Framed, Same, Places, AllSteps, Fields, Steps, VaultStages, NoLocals
<1>6. CASE VaultSave(r, "transform")
  BY PipelineOrder, <1>6 DEF VaultSave, Shape, Framed, Same, Places, AllSteps, Fields, Steps, VaultStages, NoLocals
<1>7. CASE WriteBegin(r)
  BY <1>7 DEF WriteBegin, Shape, Framed, Same, Places, AllSteps, Fields, Steps, VaultStages, NoLocals
<1>8. CASE SetupResource(r)
  BY <1>8 DEF SetupResource, Shape, Framed, Same, Places, AllSteps, Fields, Steps, VaultStages
<1>9. CASE PartitionGone(r)
  BY <1>9 DEF PartitionGone, Shape, Framed, Same, Places, AllSteps, Fields, Steps, VaultStages
<1>10. CASE Prepare(r)
  BY <1>10 DEF Prepare, Shape, Framed, Same, Places, AllSteps, Fields, Steps, VaultStages
<1>11. CASE CopyFromFile(r)
  BY <1>11 DEF CopyFromFile, Shape, Framed, Same, Places, AllSteps, Fields, Steps, VaultStages
<1>12. CASE VerifyStaged(r)
  BY <1>12 DEF VerifyStaged, Shape, Framed, Same, Places, AllSteps, Fields, Steps, VaultStages
<1>13. CASE DropStaging(r)
  BY <1>13 DEF DropStaging, Shape, Framed, Same, Places, AllSteps, Fields, Steps, VaultStages
<1>14. CASE WriteSave(r)
  BY PipelineOrder, <1>14 DEF WriteSave, Shape, Framed, Same, Places, AllSteps, Fields, Steps, VaultStages, NoLocals
<1>15. CASE PublishBegin(r)
  BY <1>15 DEF PublishBegin, Shape, Framed, Same, Places, AllSteps, Fields, Steps, VaultStages, NoLocals
<1>16. CASE ValidateSchema(r)
  BY <1>16 DEF ValidateSchema, Shape, Framed, Same, Places, AllSteps, Fields, Steps, VaultStages
<1>17. CASE ApplyMergeOperation(r)
  BY <1>17 DEF ApplyMergeOperation, Shape, Framed, Same, Places, AllSteps, Fields, Steps, VaultStages
<1>18. CASE VerifyPromotion(r)
  BY <1>18 DEF VerifyPromotion, Shape, Framed, Same, Places, AllSteps, Fields, Steps, VaultStages
<1>19. CASE DropSource(r)
  BY <1>19 DEF DropSource, Shape, Framed, Same, Places, AllSteps, Fields, Steps, VaultStages
<1>20. CASE PublishSave(r)
  BY PipelineOrder, <1>20 DEF PublishSave, Shape, Framed, Same, Places, AllSteps, Fields, Steps, VaultStages, NoLocals
<1>21. CASE Crash(r)
  BY <1>21 DEF Crash, Shape, Framed, Same, Places, AllSteps, Fields, Steps, VaultStages
<1>22. CASE CopyFails(r)
  BY <1>22 DEF CopyFails, Shape, Framed, Same, Places, AllSteps, Fields, Steps, VaultStages
<1>23. CASE Restart(r)
  BY <1>23 DEF Restart, Shape, Framed, Same, Places, AllSteps, Fields, Steps, VaultStages
<1>24. CASE GiveUp(r)
  BY <1>24 DEF GiveUp, Shape, Framed, Same, Places, AllSteps, Fields, Steps, VaultStages
<1> QED BY <1>1, <1>2, <1>3, <1>4, <1>5, <1>6, <1>7, <1>8, <1>9, <1>10, <1>11, <1>12, <1>13, <1>14, <1>15, <1>16, <1>17, <1>18, <1>19, <1>20, <1>21, <1>22, <1>23, <1>24 DEF StepOf, Work, Extract, Transform, Write, Publish

-----------------------------------------------------------------------------
(* The vault. *)

\* Rows a run may have extracted.
Proper(r, rows) == rows \subseteq {r} \X days[r] \X (1..MaxRows) \X {"live"}

UpTo(s) == IF s = "extract" THEN {"extract"} ELSE VaultStages

\* While a stage fills its directory, what it has counted is what is there.
Filling(r) ==
    LET files == vault[r][step[r]] IN
    /\ Proper(r, loc[r].rows)
    /\ files \subseteq loc[r].rows
    /\ CleanedUp(r) \/ files = loc[r].rows
    /\ step[r] = "extract" => loc[r].todo \subseteq days[r]

\* What a stage reported is what is there, and the stage does not run again.
Filed(r, s) ==
    /\ Proper(r, reported[r][s])
    /\ vault[r][s] \subseteq reported[r][s]
    /\ CleanedUp(r) \/ vault[r][s] = reported[r][s]
    /\ step[r] \notin UpTo(s)

RunVault(r) ==
    /\ \A s \in VaultStages : Proper(r, vault[r][s])
    /\ step[r] \in VaultStages /\ pc[r] = "partition" => Filling(r)
    /\ \A s \in VaultStages : reported[r][s] # NoPayload => Filed(r, s)
    /\ step[r] \in {"write", "publish", "done", "cleaned"} =>
           reported[r].transform # NoPayload

VaultInv == Shape /\ \A r \in Runs : RunVault(r)

LEMMA CleanedStays ==
    ASSUME Shape, NEW r \in Runs, StepOf(r), NEW q \in Runs, CleanedUp(q)
    PROVE  CleanedUp(q)'
<1>1. \A p \in Runs : step[p] = "cleaned" => step'[p] = "cleaned"
  BY StepFrame DEF StepOf, Work, Extract, Transform, Write, Publish, Framed, Same, Shape,
     VaultBegin, VaultPartition, VaultSave, WriteBegin, SetupResource, PartitionGone,
     Prepare, CopyFromFile, VerifyStaged, DropStaging, WriteSave, PublishBegin,
     ValidateSchema, ApplyMergeOperation, VerifyPromotion, DropSource, PublishSave,
     Crash, CopyFails, Restart, GiveUp, At, Raise, Steps, VaultStages
<1>2. days' = days
  BY StepFrame DEF Framed
<1>3. \A p : PartitionDate(p)' = PartitionDate(p)
  BY <1>2 DEF PartitionDate
<1> QED BY <1>1, <1>3 DEF CleanedUp, SharesDate

LEMMA OtherVaults ==
    ASSUME VaultInv, NEW r \in Runs, StepOf(r), NEW q \in Runs \ {r}
    PROVE  RunVault(q)'
<1>1. days' = days /\ Same(q) /\ RunVault(q)
  BY StepFrame DEF VaultInv, Framed
<1>2. CleanedUp(q) => CleanedUp(q)'
  BY CleanedStays DEF VaultInv
<1> QED BY <1>1, <1>2 DEF Same, RunVault, Filling, Filed, Proper, UpTo

LEMMA BeginVault ==
    ASSUME VaultInv, NEW r \in Runs, NEW s \in VaultStages, VaultBegin(r, s)
    PROVE  RunVault(r)'
<1>1. Shape /\ RunVault(r) BY DEF VaultInv
<1>2. /\ days' = days /\ step' = step /\ step[r] = s /\ reported' = reported
      /\ vault'[r] = [vault[r] EXCEPT ![s] = {}]
      /\ loc'[r].rows = {} /\ loc'[r].todo = PartitionsToProcess(r, s)
  BY <1>1 DEF VaultBegin, At, ResetDataDir, NoLocals, Shape, Fields
<1>3. \A t \in VaultStages : reported[r][t] # NoPayload => t # s
  BY <1>1, <1>2 DEF RunVault, Filed, UpTo, VaultStages
<1>4. \A t \in VaultStages : Proper(r, vault[r][t])' /\ Proper(r, {})'
  BY <1>1, <1>2 DEF RunVault, Proper, Shape, VaultStages
<1>5. Filling(r)'
  BY <1>1, <1>2, <1>4 DEF Filling, PartitionsToProcess, Shape
<1>6. \A t \in VaultStages : reported[r][t] # NoPayload => Filed(r, t)'
  <2> TAKE t \in VaultStages
  <2> HAVE reported[r][t] # NoPayload
  <2>1. Filed(r, t) /\ t # s BY <1>1, <1>3 DEF RunVault
  <2>2. vault'[r][t] = vault[r][t] BY <1>1, <1>2, <2>1 DEF Shape
  <2>3. CleanedUp(r) => CleanedUp(r)'
    BY <1>1, CleanedStays DEF StepOf, Work, Extract, Transform, VaultStages
  <2> QED BY <1>2, <2>1, <2>2, <2>3 DEF Filed, Proper, UpTo
<1> QED BY <1>1, <1>2, <1>4, <1>5, <1>6 DEF RunVault, VaultStages

LEMMA PartitionVault ==
    ASSUME VaultInv, NEW r \in Runs, NEW s \in VaultStages, VaultPartition(r, s)
    PROVE  RunVault(r)'
<1>1. Shape /\ RunVault(r) /\ Filling(r) /\ step[r] = s
  BY DEF VaultInv, RunVault, VaultPartition, At
<1>2. PICK d \in loc[r].todo : \E out \in (IF s = "extract" THEN ExtractedRows(r, d)
                                                   ELSE TransformedRows(r, d)) :
        LET files == vault[r][s] \cup out IN
          /\ vault' = [vault EXCEPT ![r][s] = files]
          /\ loc' = [loc EXCEPT ![r].todo = @ \ {d},
                                ![r].rows = @ \cup (IF s = "extract" THEN out
                                              ELSE {x \in files : DayOf(x) = d})]
  BY DEF VaultPartition
<1>3. PICK out \in (IF s = "extract" THEN ExtractedRows(r, d) ELSE TransformedRows(r, d)) :
          /\ vault' = [vault EXCEPT ![r][s] = vault[r][s] \cup out]
          /\ loc' = [loc EXCEPT ![r].todo = @ \ {d},
                                ![r].rows = @ \cup (IF s = "extract" THEN out
                                       ELSE {x \in vault[r][s] \cup out : DayOf(x) = d})]
  BY <1>2
<1>4. /\ days' = days /\ step' = step /\ reported' = reported
      /\ loc'[r].todo = loc[r].todo \ {d}
      /\ loc'[r].rows = loc[r].rows \cup
             (IF s = "extract" THEN out ELSE {x \in vault[r][s] \cup out : DayOf(x) = d})
      /\ vault'[r][s] = vault[r][s] \cup out
      /\ \A t \in VaultStages \ {s} : vault'[r][t] = vault[r][t]
  BY <1>1, <1>3 DEF VaultPartition, Shape, Fields
<1>5. CleanedUp(r) => CleanedUp(r)'
  BY <1>1, CleanedStays DEF StepOf, Work, Extract, Transform, VaultStages
<1>6. /\ Proper(r, out)
      /\ out \subseteq {x \in vault[r][s] \cup out : DayOf(x) = d}
  <2>1. CASE s = "extract"
    <3>1. d \in days[r] BY <1>1, <1>2, <2>1 DEF Filling
    <3>2. PICK keys \in Sources[d] : out = {<<r, d, k, "live">> : k \in keys}
      BY <1>3, <2>1 DEF ExtractedRows
    <3>3. \A x \in out : \E k \in keys : x = <<r, d, k, "live">>
      BY <3>2
    <3>4. \A x \in out : DayOf(x) = d
      BY <3>3 DEF DayOf
    <3>5. keys \subseteq 1..MaxRows
      <4>1. d \in Days BY <1>1, <3>1 DEF Shape
      <4> QED BY <4>1, LoadAssumption
    <3>6. out \subseteq {r} \X days[r] \X (1..MaxRows) \X {"live"}
      BY <3>1, <3>3, <3>5
    <3> QED BY <3>4, <3>6 DEF Proper
  <2>2. CASE s = "transform"
    <3>1. out = {x \in vault[r].extract : DayOf(x) = d} \/ out = {}
      BY <1>3, <2>2 DEF TransformedRows
    <3>2. Proper(r, vault[r].extract) BY <1>1 DEF RunVault, VaultStages
    <3> QED BY <3>1, <3>2 DEF Proper
  <2> QED BY <2>1, <2>2 DEF VaultStages
<1>7. \A A, B : Proper(r, A) /\ Proper(r, B) => Proper(r, A \cup B)
  BY DEF Proper
<1>8. \A t \in VaultStages : Proper(r, vault[r][t])'
  <2>1. \A t \in VaultStages : Proper(r, vault'[r][t])
    BY <1>1, <1>4, <1>6, <1>7 DEF RunVault
  <2> QED BY <1>4, <2>1 DEF Proper
<1>9. Filling(r)'
  <2>1. s # "extract" => Proper(r, {x \in vault[r][s] \cup out : DayOf(x) = d})
    <3>1. Proper(r, vault[r][s] \cup out) BY <1>1, <1>6, <1>7 DEF RunVault
    <3> QED BY <3>1 DEF Proper
  <2>2. Proper(r, loc'[r].rows)
    BY <1>1, <1>4, <1>6, <1>7, <2>1 DEF Filling
  <2>3. vault'[r][s] \subseteq loc'[r].rows
    BY <1>1, <1>4, <1>6 DEF Filling
  <2>4. CleanedUp(r) \/ vault'[r][s] = loc'[r].rows
    BY <1>1, <1>4, <1>6 DEF Filling
  <2>5. s = "extract" => loc'[r].todo \subseteq days[r]
    BY <1>1, <1>4 DEF Filling
  <2> QED BY <1>1, <1>4, <1>5, <2>2, <2>3, <2>4, <2>5 DEF Filling, Proper
<1>10. \A t \in VaultStages : reported[r][t] # NoPayload => Filed(r, t)'
  <2> TAKE t \in VaultStages
  <2> HAVE reported[r][t] # NoPayload
  <2>1. Filed(r, t) /\ t # s BY <1>1 DEF RunVault, Filed, UpTo, VaultStages
  <2> QED BY <1>4, <1>5, <2>1 DEF Filed, Proper, UpTo
<1> QED BY <1>1, <1>4, <1>8, <1>9, <1>10 DEF RunVault, VaultStages

LEMMA SaveVault ==
    ASSUME VaultInv, NEW r \in Runs, NEW s \in VaultStages, VaultSave(r, s)
    PROVE  RunVault(r)'
<1>1. Shape /\ RunVault(r) /\ Filling(r) /\ step[r] = s
  BY DEF VaultInv, RunVault, VaultSave, At
<1>2. /\ days' = days /\ vault' = vault /\ pc'[r] = "idle"
      /\ reported'[r] = [reported[r] EXCEPT ![s] = loc[r].rows]
      /\ step'[r] = IF s = "extract" THEN "transform" ELSE "write"
  BY <1>1, PipelineOrder DEF VaultSave, Advance, Goto, Shape, VaultStages
<1>3. CleanedUp(r) => CleanedUp(r)'
  BY <1>1, CleanedStays DEF StepOf, Work, Extract, Transform, VaultStages
<1>4. ASSUME NEW t \in VaultStages, reported'[r][t] # NoPayload PROVE Filed(r, t)'
  <2>1. CASE t = s
    BY <1>1, <1>2, <1>3, <2>1 DEF Filed, Filling, UpTo, Proper, Shape, VaultStages
  <2>2. CASE t # s
    <3>1. Filed(r, t) /\ reported'[r][t] = reported[r][t]
      BY <1>1, <1>2, <1>4, <2>2 DEF RunVault, Shape
    <3> QED BY <1>1, <1>2, <1>3, <2>2, <3>1 DEF Filed, Proper, UpTo, VaultStages
  <2> QED BY <2>1, <2>2
<1>5. \A t \in VaultStages : Proper(r, vault[r][t])'
  BY <1>1, <1>2 DEF RunVault, Proper
<1>6. s = "transform" => reported'[r].transform # NoPayload
  <2>1. Proper(r, loc[r].rows) /\ days[r] \subseteq Days
    BY <1>1 DEF Filling, Shape
  <2>2. loc[r].rows \in SUBSET (Runs \X Days \X (1..MaxRows) \X {"live"})
    BY <2>1 DEF Proper
  <2> QED BY <1>1, <1>2, <2>2, LoadAssumption DEF Shape
<1> QED BY <1>2, <1>4, <1>5, <1>6 DEF RunVault, VaultStages

\* Every other step of a run leaves its vault and its reports alone.
LEMMA QuietVault ==
    ASSUME VaultInv, NEW r \in Runs, StepOf(r), vault' = vault, reported' = reported,
           pc'[r] # "partition",
           \/ step'[r] = step[r]
           \/ step[r] \in {"write", "publish"} /\ step'[r] \in {"publish", "done"}
           \/ step'[r] = "failed"
    PROVE  RunVault(r)'
<1>1. Shape /\ RunVault(r) /\ days' = days
  BY StepFrame DEF VaultInv, Framed
<1>2. CleanedUp(r) => CleanedUp(r)'
  BY <1>1, CleanedStays
<1>3. \A t \in VaultStages : Filed(r, t) => Filed(r, t)'
  BY <1>1, <1>2 DEF Filed, Proper, UpTo, VaultStages
<1>4. \A t \in VaultStages : Proper(r, vault[r][t])'
  BY <1>1 DEF RunVault, Proper
<1> QED BY <1>1, <1>3, <1>4 DEF RunVault

LEMMA StepVault ==
    ASSUME VaultInv, NEW r \in Runs, StepOf(r)
    PROVE  VaultInv'
<1>1. Shape /\ Shape' BY StepFrame DEF VaultInv
<1>2. ASSUME NEW s \in VaultStages,
             VaultBegin(r, s) \/ VaultPartition(r, s) \/ VaultSave(r, s)
      PROVE  RunVault(r)'
  BY <1>2, BeginVault, PartitionVault, SaveVault
<1>3. ASSUME ~ \E s \in VaultStages :
                 VaultBegin(r, s) \/ VaultPartition(r, s) \/ VaultSave(r, s)
      PROVE  RunVault(r)'
  <2> USE <1>1 DEF Shape, At, Goto, Raise, StagingFailed, AfterFailedVerify
  <2>1. CASE WriteBegin(r)
    BY <2>1, QuietVault DEF WriteBegin
  <2>2. CASE SetupResource(r)
    BY <2>2, QuietVault DEF SetupResource
  <2>3. CASE PartitionGone(r)
    BY <2>3, QuietVault DEF PartitionGone
  <2>4. CASE Prepare(r)
    BY <2>4, QuietVault DEF Prepare
  <2>5. CASE CopyFromFile(r)
    BY <2>5, QuietVault DEF CopyFromFile
  <2>6. CASE VerifyStaged(r)
    BY <2>6, QuietVault DEF VerifyStaged
  <2>7. CASE DropStaging(r)
    BY <2>7, QuietVault DEF DropStaging
  <2>8. CASE WriteSave(r)
    BY PipelineOrder, <2>8, QuietVault DEF WriteSave, Advance
  <2>9. CASE PublishBegin(r)
    BY <2>9, QuietVault DEF PublishBegin
  <2>10. CASE ValidateSchema(r)
    BY <2>10, QuietVault DEF ValidateSchema
  <2>11. CASE ApplyMergeOperation(r)
    BY <2>11, QuietVault DEF ApplyMergeOperation
  <2>12. CASE VerifyPromotion(r)
    BY <2>12, QuietVault DEF VerifyPromotion
  <2>13. CASE DropSource(r)
    BY <2>13, QuietVault DEF DropSource
  <2>14. CASE PublishSave(r)
    BY PipelineOrder, <2>14, QuietVault DEF PublishSave, Advance
  <2>15. CASE Crash(r)
    BY <2>15, QuietVault DEF Crash
  <2>16. CASE CopyFails(r)
    BY <2>16, QuietVault DEF CopyFails
  <2>17. CASE Restart(r)
    BY <2>17, QuietVault DEF Restart
  <2>18. CASE GiveUp(r)
    BY <2>18, QuietVault DEF GiveUp
  <2> QED BY <1>3, <2>1, <2>2, <2>3, <2>4, <2>5, <2>6, <2>7, <2>8, <2>9, <2>10, <2>11, <2>12, <2>13, <2>14, <2>15, <2>16, <2>17, <2>18
         DEF StepOf, Work, Extract, Transform, Write, Publish, VaultStages
<1>4. \A q \in Runs \ {r} : RunVault(q)'
  BY OtherVaults
<1> QED BY <1>1, <1>2, <1>3, <1>4 DEF VaultInv

LEMMA CleanupVault ==
    ASSUME VaultInv, NEW r \in Runs, CleanupTask(r)
    PROVE  VaultInv'
<1>1. Shape /\ \A q \in Runs : RunVault(q)
  BY DEF VaultInv
<1>2. /\ days' = days /\ reported' = reported /\ pc' = pc /\ loc' = loc
      /\ step'[r] = "cleaned" /\ step[r] = "done"
      /\ \A q \in Runs \ {r} : step'[q] = step[q]
      /\ \A q \in SharesDate(r) : vault'[q] = [s \in VaultStages |-> {}]
      /\ \A q \in Runs \ SharesDate(r) : vault'[q] = vault[q]
  BY <1>1 DEF CleanupTask, Shape, SharesDate
<1>3. Shape'
  BY <1>1, <1>2 DEF CleanupTask, Shape, AllSteps, SharesDate
<1>4. \A q : PartitionDate(q)' = PartitionDate(q)
  BY <1>2 DEF PartitionDate
<1>5. \A q \in Runs : CleanedUp(q) => CleanedUp(q)'
  BY <1>2, <1>4 DEF CleanedUp, SharesDate
<1>6. \A q \in SharesDate(r) : CleanedUp(q)'
  BY <1>2, <1>4 DEF CleanedUp, SharesDate
<1>7. ASSUME NEW q \in Runs PROVE RunVault(q)'
  <2>1. CASE q \in SharesDate(r)
    <3>1. \A s \in VaultStages : vault'[q][s] = {}
      BY <1>2, <2>1
    <3>2. \A s \in VaultStages : Filed(q, s) => Filed(q, s)'
      BY <1>2, <1>6, <2>1, <3>1 DEF Filed, Proper, UpTo, VaultStages
    <3>3. step[q] \in VaultStages /\ Filling(q) => Filling(q)'
      BY <1>2, <1>6, <2>1, <3>1 DEF Filling, Proper, VaultStages
    <3> QED BY <1>1, <1>2, <3>1, <3>2, <3>3 DEF RunVault, Proper, VaultStages
  <2>2. CASE q \notin SharesDate(r)
    <3>1. q # r BY <2>2 DEF SharesDate
    <3>2. step'[q] = step[q] /\ vault'[q] = vault[q]
      BY <1>2, <2>2, <3>1
    <3> QED BY <1>1, <1>2, <1>5, <3>2 DEF RunVault, Filed, Filling, Proper, UpTo
  <2> QED BY <2>1, <2>2
<1> QED BY <1>3, <1>7 DEF VaultInv

LEMMA InitShape == Init => Shape
<1> SUFFICES ASSUME Init PROVE Shape OBVIOUS
<1>1. cfg \in Config /\ days \in [Runs -> SUBSET Days]
  BY LoadAssumption DEF Init
<1> QED BY <1>1 DEF Init, Shape, NoLocals, AllSteps, Places, Fields

\* The inductive invariant of the vault.
LEMMA VaultInductive == Spec => []VaultInv
<1>1. Init => VaultInv
  BY InitShape DEF Init, VaultInv, RunVault, Proper, VaultStages
<1>2. VaultInv /\ [Next]_vars => VaultInv'
  <2> SUFFICES ASSUME VaultInv, [Next]_vars PROVE VaultInv' OBVIOUS
  <2>1. CASE Next
    BY <2>1, StepVault, CleanupVault DEF Next, StepOf
  <2>2. CASE UNCHANGED vars
    <3>1. \A q : PartitionDate(q)' = PartitionDate(q)
      BY <2>2 DEF vars, PartitionDate
    <3>2. \A q : CleanedUp(q)' <=> CleanedUp(q)
      BY <2>2, <3>1 DEF vars, run, CleanedUp, SharesDate
    <3>3. Shape'
      BY <2>2 DEF vars, run, VaultInv, Shape
    <3> QED BY <2>2, <3>2, <3>3 DEF vars, run, VaultInv, RunVault, Filed, Filling,
                                     Proper, UpTo
  <2> QED BY <2>1, <2>2
<1> QED BY <1>1, <1>2, PTL DEF Spec

\* What a vault stage reported is exactly what its directory holds, whatever
\* failed attempts of it left behind, until a cleanup wipes the directory
\* (reset_data_dir, and the payload the stage returns).
THEOREM VaultHoldsReport == Spec => []VaultExact
<1>1. VaultInv => VaultExact
  BY DEF VaultInv, RunVault, Filed, VaultExact
<1> QED BY <1>1, VaultInductive, PTL

-----------------------------------------------------------------------------
(* Counting rows. *)

LEMMA CountOfSet ==
    ASSUME NEW S, IsFiniteSet(S)
    PROVE  CountAll(SetToBag(S)) = Cardinality(S)
<1>1. DOMAIN SetToBag(S) = S /\ \A x \in S : SetToBag(S)[x] = 1
  BY DEF SetToBag
<1>2. Copies(SetToBag(S), BagToSet(SetToBag(S))) = S \X {1}
  BY <1>1 DEF Copies, BagToSet
<1>3. Cardinality(S) \in Nat /\ Cardinality(S \X {1}) = Cardinality(S) * Cardinality({1})
  BY FS_Product, FS_Singleton, FS_CardinalityType
<1>4. Cardinality({1}) = 1 BY FS_Singleton
<1> QED BY <1>2, <1>3, <1>4 DEF CountAll, CountOf

LEMMA EmptyPlus ==
    ASSUME NEW S
    PROVE  EmptyBag (+) SetToBag(S) = SetToBag(S)
BY DEF EmptyBag, SetToBag, (+)

LEMMA ProperFinite ==
    ASSUME Shape, NEW r \in Runs, NEW rows, Proper(r, rows)
    PROVE  IsFiniteSet(rows)
<1>1. MaxRows \in Nat /\ IsFiniteSet(days[r]) /\ IsFiniteSet(1..MaxRows)
  <2>1. MaxRows \in Nat /\ IsFiniteSet(Days) /\ days[r] \in SUBSET Days
    BY LoadAssumption DEF Shape
  <2>2. IsFiniteSet(days[r]) BY <2>1, FS_Subset
  <2> QED BY <2>1, <2>2, FS_Interval
<1>2. IsFiniteSet(days[r] \X (1..MaxRows))
  BY <1>1, FS_Product
<1> DEFINE f == [x \in rows |-> <<DayOf(x), KeyOf(x)>>]
<1>3. f \in [rows -> days[r] \X (1..MaxRows)]
  BY DEF Proper, DayOf, KeyOf
<1>4. \A x \in rows : x = <<r, DayOf(x), KeyOf(x), "live">>
  BY DEF Proper, DayOf, KeyOf
<1>5. \A x, y \in rows : f[x] = f[y] => x = y
  BY <1>4
<1>6. f \in Injection(rows, days[r] \X (1..MaxRows))
  BY <1>3, <1>5 DEF Injection, IsInjective
<1> QED BY <1>2, <1>6, FS_Injection

-----------------------------------------------------------------------------
(* Staging and promotion, for runs that share no staging table. *)

Payload(r) == reported[r].transform

OneDay(r, d) == \A x \in Payload(r) : DayOf(x) = d

\* The verification of stage() counts a whole table against the total of the
\* run, and each table holds one day: only a run of one day gets through.
OnePart(r, parts) ==
    \E d \in DOMAIN parts : /\ DOMAIN parts = {d} /\ OneDay(r, d)
                           /\ parts[d] = Cardinality(Payload(r))

Holding(r, t) == t \in catalog /\ tables[t] = SetToBag(Payload(r))

WriteState(r) ==
    LET me == loc[r] IN
    /\ pc[r] # "create"
    /\ pc[r] \in {"load", "copy", "count"} =>
          /\ Payload(r) # {}
          /\ DOMAIN me.parts # {} =>
                 OnePart(r, me.parts) /\ me.todo \cap DOMAIN me.parts = {}
    /\ pc[r] = "load" => IF DOMAIN me.parts = {} THEN me.todo # {}
                         ELSE me.table > Working /\ Holding(r, me.table)
    /\ pc[r] \in {"copy", "count", "cleanup"} => me.table > Working
    /\ pc[r] \in {"copy", "count"} => me.day \in me.todo
    /\ pc[r] = "copy" => me.table \in catalog /\ tables[me.table] = EmptyBag
    /\ pc[r] = "count" =>
          \E X \in SUBSET Payload(r) :
              /\ \A x \in X : DayOf(x) = me.day
              /\ me.table \in catalog /\ tables[me.table] = SetToBag(X)

PublishState(r) ==
    LET me == loc[r]
        parts == staged[r].parts IN
    /\ Payload(r) # {} /\ OnePart(r, parts) /\ staged[r].table > Working
    /\ staged[r].table \in catalog => Holding(r, staged[r].table)
    /\ \A d \in DOMAIN parts : open[r] \subseteq Scope(d)
    /\ pc[r] \in {"promote", "merge", "verify", "drop"} => me.table = staged[r].table
    /\ pc[r] \in {"promote", "merge", "verify", "drop"} => me.todo \subseteq DOMAIN parts
    /\ pc[r] \in {"merge", "verify", "drop"} =>
          me.day \in DOMAIN parts /\ staged[r].table \in catalog
    /\ pc[r] = "drop" => open[r] = {}

OpenState(r) ==
    /\ step[r] \notin {"extract", "transform", "write"}
    /\ staged[r].table > Working
    /\ Holding(r, staged[r].table)

RunStage(r) ==
    /\ step[r] = "write" => WriteState(r)
    /\ step[r] = "publish" => PublishState(r)
    /\ open[r] # {} => OpenState(r)

\* The tables a run may still write to or read from.
UsesStaged(r) == step[r] = "publish" \/ open[r] # {}

Holds(r) == {loc[r].table} \cup (IF UsesStaged(r) THEN {staged[r].table} ELSE {})

Ownership ==
    /\ born \in Nat
    /\ \A r \in Runs : Holds(r) \subseteq 0 .. Generated(born)
    /\ \A r, q \in Runs : r # q => Holds(r) \cap Holds(q) \subseteq {Target}

StageInv == Isolated => Target \in catalog /\ Ownership /\ \A r \in Runs : RunStage(r)

\* What the provers need to know of StageInv in a step of run r.
LEMMA StageFacts ==
    ASSUME VaultInv, StageInv, Isolated, NEW r \in Runs
    PROVE  /\ Shape /\ RunVault(r) /\ RunStage(r) /\ Ownership /\ Target \in catalog
           /\ loc[r].table \in Nat /\ born \in Nat
           /\ UsesStaged(r) => staged[r].table \in Nat
           /\ cfg.strategy = "clone" /\ ~cfg.named
           /\ Destination = Generated(born + 1) /\ Destination > Working
BY DEF VaultInv, StageInv, Ownership, Holds, Isolated, Destination, Generated, Working

\* Statements of a run touch production and the tables of the run only.
LEMMA TablesFrame ==
    ASSUME VaultInv, StageInv, Isolated, NEW r \in Runs, StepOf(r)
    PROVE  /\ Target \in DOMAIN tables'
           /\ \A t \in 2 .. Generated(born) : t \notin Holds(r) =>
                 /\ t \in catalog <=> t \in DOMAIN tables'
                 /\ t \in catalog => tables'[t] = tables[t]
<1> USE StageFacts DEF catalog
<1>0. CASE tables' = tables
  BY <1>0
<1>1. CASE SetupResource(r)
  BY <1>1 DEF SetupResource, Put, Target
<1>2. CASE Prepare(r)
  BY <1>2 DEF Prepare, Put, Target, Generated, Working
<1>3. CASE CopyFromFile(r)
  BY <1>3 DEF CopyFromFile, Holds, At
<1>4. CASE DropStaging(r)
  BY <1>4 DEF DropStaging, Drop, Holds, At, RunStage, WriteState, Target, Working
<1>5. CASE ApplyMergeOperation(r)
  BY <1>5 DEF ApplyMergeOperation, Target
<1>6. CASE DropSource(r)
  BY <1>6 DEF DropSource, Drop, Holds, At, RunStage, PublishState, Target, Working
<1>7. ASSUME ~ SetupResource(r), ~ Prepare(r), ~ CopyFromFile(r), ~ DropStaging(r),
             ~ ApplyMergeOperation(r), ~ DropSource(r)
      PROVE  tables' = tables
  BY <1>7 DEF StepOf, Work, Extract, Transform, Write, Publish, DbUnchanged,
     VaultBegin, VaultPartition, VaultSave, WriteBegin, PartitionGone, VerifyStaged, WriteSave, PublishBegin, ValidateSchema, VerifyPromotion, PublishSave, Crash, CopyFails, Restart, GiveUp
<1> QED BY <1>0, <1>1, <1>2, <1>3, <1>4, <1>5, <1>6, <1>7

LEMMA OtherStages ==
    ASSUME VaultInv, StageInv, Isolated, NEW r \in Runs, StepOf(r), NEW q \in Runs \ {r}
    PROVE  RunStage(q)'
<1>1. /\ cfg' = cfg /\ Same(q) /\ RunStage(q) /\ Ownership
      /\ Holds(q) \cap Holds(r) \subseteq {Target} /\ Holds(q) \subseteq 0 .. Generated(born)
  BY StepFrame, StageFacts DEF Framed, Ownership
<1>2. \A t \in Holds(q) : t > Working =>
          /\ t \in catalog <=> t \in DOMAIN tables'
          /\ t \in catalog => tables'[t] = tables[t]
  BY <1>1, TablesFrame DEF Target, Working, Generated, Ownership
<1>3. step[q] = "write" /\ WriteState(q) => WriteState(q)'
  <2>1. /\ OnePart(q, loc[q].parts)' <=> OnePart(q, loc[q].parts)
        /\ Payload(q)' = Payload(q)
    BY <1>1 DEF Same, OnePart, OneDay, Payload
  <2>2. loc[q].table > Working =>
          /\ loc[q].table \in catalog <=> loc[q].table \in DOMAIN tables'
          /\ loc[q].table \in catalog => tables'[loc[q].table] = tables[loc[q].table]
    BY <1>2 DEF Holds
  <2>3. Same(q) BY <1>1
  <2> QED BY <2>1, <2>2, <2>3 DEF Same, WriteState, Holding, catalog, Working
<1>4. UsesStaged(q) /\ staged[q].table > Working =>
          /\ staged[q].table \in catalog <=> staged[q].table \in DOMAIN tables'
          /\ staged[q].table \in catalog =>
                 tables'[staged[q].table] = tables[staged[q].table]
  BY <1>2 DEF Holds
<1>5. step[q] = "publish" /\ PublishState(q) => PublishState(q)'
  <2>1. /\ OnePart(q, staged[q].parts)' <=> OnePart(q, staged[q].parts)
        /\ Payload(q)' = Payload(q) /\ \A d : Scope(d)' = Scope(d)
    BY <1>1 DEF Same, OnePart, OneDay, Payload, Scope
  <2> QED BY <1>1, <1>4, <2>1 DEF Same, PublishState, Holding, catalog, Working, UsesStaged
<1>6. open[q] # {} /\ OpenState(q) => OpenState(q)'
  <2>1. Payload(q)' = Payload(q)
    BY <1>1 DEF Same, Payload
  <2> QED BY <1>1, <1>4, <2>1 DEF Same, OpenState, Holding, catalog, Working, UsesStaged
<1> QED BY <1>1, <1>3, <1>5, <1>6 DEF RunStage, Same

LEMMA PublishLocals ==
    ASSUME Shape, NEW r \in Runs
    PROVE  /\ PublishBegin(r) => \/ loc' = loc /\ pc'[r] = "stopped"
                                \/ /\ loc'[r].todo = DOMAIN staged[r].parts
                                   /\ loc'[r].table = staged[r].table
                                   /\ pc'[r] = "promote"
           /\ ApplyMergeOperation(r) => /\ loc'[r].table = loc[r].table
                                        /\ loc'[r].day = loc[r].day
                                        /\ loc'[r].todo = loc[r].todo
<1>1. ASSUME PublishBegin(r)
      PROVE  \/ loc' = loc /\ pc'[r] = "stopped"
             \/ /\ loc' = [loc EXCEPT ![r] = [NoLocals EXCEPT
                              !.todo = DOMAIN staged[r].parts, !.table = staged[r].table]]
                /\ pc'[r] = "promote"
  BY <1>1 DEF PublishBegin, Goto, Shape
<1>2. ASSUME ApplyMergeOperation(r)
      PROVE  loc' = loc \/ loc' = [loc EXCEPT ![r].op = loc[r].op + 1]
  BY <1>2 DEF ApplyMergeOperation, Raise
<1> QED BY <1>1, <1>2 DEF Shape, Fields, NoLocals

LEMMA HoldsStep ==
    ASSUME VaultInv, StageInv, Isolated, NEW r \in Runs, StepOf(r)
    PROVE  \/ born' = born /\ Holds(r)' \subseteq Holds(r) \cup {Target}
           \/ /\ born' = born + 1
              /\ Holds(r)' \subseteq Holds(r) \cup {Generated(born')}
<1> USE StageFacts DEF At, Goto, Raise, Advance, DbUnchanged, StagingFailed, NoLocals, Holds,
                      UsesStaged, Shape, Fields
<1>1. CASE VaultBegin(r, "extract")
  BY <1>1 DEF VaultBegin
<1>2. CASE VaultBegin(r, "transform")
  BY <1>2 DEF VaultBegin
<1>3. CASE VaultPartition(r, "extract")
  BY <1>3 DEF VaultPartition
<1>4. CASE VaultPartition(r, "transform")
  BY <1>4 DEF VaultPartition
<1>5. CASE VaultSave(r, "extract")
  BY PipelineOrder, <1>5 DEF VaultSave, RunStage, OpenState
<1>6. CASE VaultSave(r, "transform")
  BY PipelineOrder, <1>6 DEF VaultSave, RunStage, OpenState
<1>7. CASE WriteBegin(r)
  BY <1>7 DEF WriteBegin
<1>8. CASE SetupResource(r)
  BY <1>8 DEF SetupResource
<1>9. CASE PartitionGone(r)
  BY <1>9 DEF PartitionGone
<1>10. CASE Prepare(r)
  BY <1>10 DEF Prepare, Generated, Working
<1>11. CASE CopyFromFile(r)
  BY <1>11 DEF CopyFromFile, RunStage, WriteState, Target, Working
<1>12. CASE VerifyStaged(r)
  BY <1>12 DEF VerifyStaged, RunStage, WriteState, Target, Working
<1>13. CASE DropStaging(r)
  BY <1>13 DEF DropStaging
<1>14. CASE WriteSave(r)
  BY PipelineOrder, <1>14 DEF WriteSave
<1>15. CASE PublishBegin(r)
  <2>1. /\ born' = born /\ step' = step /\ staged' = staged /\ open' = open
        /\ step[r] = "publish"
        /\ loc'[r].table \in {loc[r].table, staged[r].table}
    BY <1>15, PublishLocals DEF PublishBegin
  <2> QED BY <2>1
<1>16. CASE ValidateSchema(r)
  BY <1>16 DEF ValidateSchema
<1>17. CASE ApplyMergeOperation(r)
  <2>1. born' = born /\ step' = step /\ staged' = staged /\ step[r] = "publish"
    BY <1>17 DEF ApplyMergeOperation
  <2>2. loc'[r].table = loc[r].table
    BY <1>17, PublishLocals
  <2> QED BY <2>1, <2>2
<1>18. CASE VerifyPromotion(r)
  BY <1>18 DEF VerifyPromotion
<1>19. CASE DropSource(r)
  BY <1>19 DEF DropSource
<1>20. CASE PublishSave(r)
  BY PipelineOrder, <1>20 DEF PublishSave
<1>21. CASE Crash(r)
  BY <1>21 DEF Crash
<1>22. CASE CopyFails(r)
  BY <1>22 DEF CopyFails
<1>23. CASE Restart(r)
  BY <1>23 DEF Restart
<1>24. CASE GiveUp(r)
  BY <1>24 DEF GiveUp
<1> QED BY <1>1, <1>2, <1>3, <1>4, <1>5, <1>6, <1>7, <1>8, <1>9, <1>10, <1>11, <1>12, <1>13, <1>14, <1>15, <1>16, <1>17, <1>18, <1>19, <1>20, <1>21, <1>22, <1>23, <1>24 DEF StepOf, Work, Extract, Transform, Write, Publish

LEMMA OwnershipStep ==
    ASSUME VaultInv, StageInv, Isolated, NEW r \in Runs, StepOf(r)
    PROVE  Ownership'
<1>1. Ownership BY StageFacts
<1>2. \A q \in Runs \ {r} : Holds(q)' = Holds(q)
  BY StageFacts, StepFrame DEF Framed, Same, Holds, UsesStaged
<1>3. \A q \in Runs : Holds(q) \subseteq 0 .. Generated(born)
  BY <1>1 DEF Ownership
<1> QED BY <1>1, <1>2, <1>3, HoldsStep DEF Ownership, Generated, Target

\* Outside the statements of the write and publish stages there is nothing to
\* show about a run that has no unconfirmed change.
LEMMA RestingStage ==
    ASSUME NEW r \in Runs, open'[r] = {},
           \/ step'[r] \notin {"write", "publish"}
           \/ step'[r] = "write" /\ pc'[r] \in {"idle", "stopped"}
    PROVE  RunStage(r)'
BY DEF RunStage, WriteState

LEMMA VaultStage ==
    ASSUME VaultInv, StageInv, Isolated, NEW r \in Runs, NEW s \in VaultStages,
           VaultBegin(r, s) \/ VaultPartition(r, s) \/ VaultSave(r, s)
    PROVE  RunStage(r)'
<1>1. Shape /\ RunStage(r) BY StageFacts
<1>2. step[r] = s /\ open' = open
  BY DEF VaultBegin, VaultPartition, VaultSave, At
<1>3. open[r] = {}
  BY <1>1, <1>2 DEF RunStage, OpenState, VaultStages
<1>4. \/ step'[r] \in VaultStages
      \/ step'[r] = "write" /\ pc'[r] = "idle"
  BY <1>1, <1>2, PipelineOrder DEF VaultBegin, VaultPartition, VaultSave, Advance, Goto,
     Shape, VaultStages
<1> QED BY <1>2, <1>3, <1>4, RestingStage DEF VaultStages

LEMMA WritePayload ==
    ASSUME VaultInv, NEW r \in Runs, step[r] \in {"write", "publish"}
    PROVE  /\ vault[r].transform \subseteq Payload(r)
           /\ IsFiniteSet(Payload(r)) /\ Proper(r, Payload(r))
<1>1. Proper(r, Payload(r)) /\ vault[r].transform \subseteq Payload(r)
  BY DEF VaultInv, RunVault, Filed, VaultStages, Payload
<1> QED BY <1>1, ProperFinite DEF VaultInv

LEMMA WriteStage ==
    ASSUME VaultInv, StageInv, Isolated, NEW r \in Runs, Write(r)
    PROVE  RunStage(r)'
<1> USE DEF At, Goto
<1>1. Shape /\ RunStage(r) /\ StepOf(r) /\ step[r] = "write"
  BY StageFacts DEF StepOf, Work, Write, WriteBegin, SetupResource, PartitionGone, Prepare,
     CopyFromFile, VerifyStaged, DropStaging, WriteSave
<1>2. WriteState(r) /\ open[r] = {}
  BY <1>1 DEF RunStage, OpenState
<1>3. /\ vault[r].transform \subseteq Payload(r)
      /\ IsFiniteSet(Payload(r)) /\ Proper(r, Payload(r))
  BY <1>1, WritePayload
<1>4. CASE WriteBegin(r)
  <2>1. /\ step' = step /\ open' = open /\ reported' = reported
        /\ loc'[r].todo = {DayOf(x) : x \in vault[r].transform}
        /\ loc'[r].parts = <<>>
        /\ pc'[r] = IF vault[r].transform = {} THEN "stopped" ELSE "load"
    BY <1>1, <1>4, StageFacts DEF WriteBegin, Shape, Fields, NoLocals
  <2>2. DOMAIN <<>> = {} OBVIOUS
  <2> QED BY <1>1, <1>2, <1>3, <2>1, <2>2 DEF RunStage, WriteState, Payload
<1>5. CASE SetupResource(r)
  BY <1>2, <1>5 DEF SetupResource, WriteState
<1>6. CASE PartitionGone(r)
  BY <1>1, <1>2, <1>6, RestingStage DEF PartitionGone, Raise, Shape
<1>7. CASE Prepare(r)
  <2>1. /\ step' = step /\ open' = open /\ reported' = reported
        /\ loc'[r].day \in loc[r].todo /\ loc'[r].table = Destination
        /\ loc'[r].todo = loc[r].todo /\ loc'[r].parts = loc[r].parts
        /\ pc[r] = "load" /\ pc'[r] = "copy"
        /\ tables' = Put(tables, Destination, EmptyBag)
    BY <1>1, <1>7, StageFacts DEF Prepare, Shape, Fields, Cloned
  <2>2. Destination > Working BY StageFacts
  <2>3. OnePart(r, loc[r].parts)' <=> OnePart(r, loc[r].parts)
    BY <2>1 DEF OnePart, OneDay, Payload
  <2> QED BY <1>1, <1>2, <2>1, <2>2, <2>3 DEF RunStage, WriteState, Payload, Put, catalog
<1>8. CASE CopyFromFile(r)
  <2>1. /\ loc[r].table > Working /\ loc[r].table \in catalog
        /\ tables[loc[r].table] = EmptyBag /\ loc[r].table # Target
    BY <1>2, <1>8, StageFacts DEF CopyFromFile, WriteState, Target, Working
  <2>2. /\ step' = step /\ open' = open /\ reported' = reported /\ loc' = loc
        /\ pc[r] = "copy" /\ pc'[r] = "count"
        /\ tables' = [tables EXCEPT ![loc[r].table] =
                         EmptyBag (+) SetToBag(Incoming(r, loc[r].day))]
    BY <1>1, <1>8, <2>1 DEF CopyFromFile, TableExists, Shape
  <2>3. tables'[loc[r].table] = SetToBag(Incoming(r, loc[r].day))
    BY <2>1, <2>2, EmptyPlus DEF catalog
  <2>4. /\ Incoming(r, loc[r].day) \in SUBSET Payload(r)
        /\ \A x \in Incoming(r, loc[r].day) : DayOf(x) = loc[r].day
    BY <1>3 DEF Incoming
  <2>5. /\ OnePart(r, loc[r].parts)' <=> OnePart(r, loc[r].parts)
        /\ Payload(r)' = Payload(r) /\ DOMAIN tables' = DOMAIN tables
    BY <2>2 DEF OnePart, OneDay, Payload
  <2> QED BY <1>1, <1>2, <2>1, <2>2, <2>3, <2>4, <2>5 DEF RunStage, WriteState, catalog
<1>9. CASE VerifyStaged(r)
  <2>1. /\ pc[r] = "count" /\ step' = step /\ reported' = reported /\ tables' = tables
        /\ loc[r].table > Working /\ loc[r].table # Target
    BY <1>2, <1>9, StageFacts DEF VerifyStaged, DbUnchanged, WriteState, Target, Working
  <2>2. open' = open
    BY <1>9, <2>1 DEF VerifyStaged
  <2>3. PICK X \in SUBSET Payload(r) :
          /\ \A x \in X : DayOf(x) = loc[r].day
          /\ loc[r].table \in catalog /\ tables[loc[r].table] = SetToBag(X)
    BY <1>2, <2>1 DEF WriteState
  <2>4. CASE StagedCountMatches(r)
    <3>1. X = Payload(r)
      <4>1. IsFiniteSet(X) BY <1>3, FS_Subset
      <4>2. Cardinality(X) = Cardinality(Payload(r))
        BY <2>3, <2>4, <4>1, CountOfSet DEF StagedCountMatches, ExpectedCount, Payload
      <4> QED BY <1>3, <4>2, FS_Subset
    <3>2. OneDay(r, loc[r].day) /\ loc[r].day \in loc[r].todo /\ Payload(r) # {}
      BY <1>2, <2>1, <2>3, <3>1 DEF OneDay, WriteState
    <3>3. DOMAIN loc[r].parts = {}
      BY <1>2, <2>1, <3>2 DEF WriteState, OnePart, OneDay
    <3>4. /\ loc'[r].parts = Put(loc[r].parts, loc[r].day, CountAll(tables[loc[r].table]))
          /\ loc'[r].todo = loc[r].todo \ {loc[r].day}
          /\ loc'[r].table = loc[r].table /\ pc'[r] = "load"
      BY <1>1, <1>9, <2>3, <2>4 DEF VerifyStaged, Shape, Fields
    <3>5. /\ DOMAIN loc'[r].parts = {loc[r].day}
          /\ loc'[r].parts[loc[r].day] = Cardinality(Payload(r))
      BY <2>4, <3>3, <3>4 DEF Put, StagedCountMatches, ExpectedCount, Payload
    <3>6. Payload(r)' = Payload(r) BY <2>1 DEF Payload
    <3>7. OnePart(r, loc[r].parts)'
      BY <3>2, <3>5, <3>6 DEF OnePart, OneDay
    <3>8. Holding(r, loc[r].table)'
      BY <2>1, <2>3, <3>1, <3>4, <3>6 DEF Holding, catalog
    <3>9. WriteState(r)'
      BY <2>1, <3>2, <3>4, <3>5, <3>6, <3>7, <3>8 DEF WriteState
    <3> QED BY <1>1, <1>2, <2>1, <2>2, <3>9 DEF RunStage
  <2>5. CASE ~ StagedCountMatches(r)
    BY <1>1, <1>2, <1>9, <2>1, <2>2, <2>5, StageFacts
       DEF VerifyStaged, StagingFailed, RunStage, WriteState, Shape
  <2> QED BY <2>4, <2>5
<1>10. CASE DropStaging(r)
  BY <1>1, <1>2, <1>10, RestingStage DEF DropStaging, Raise, Shape
<1>11. CASE WriteSave(r)
  <2>1. /\ loc[r].todo = {} /\ pc[r] = "load" /\ pc'[r] = "idle"
        /\ step'[r] = "publish" /\ open' = open /\ reported' = reported /\ tables' = tables
        /\ staged'[r] = [table |-> loc[r].table, parts |-> loc[r].parts]
    BY <1>1, <1>11, StageFacts, PipelineOrder DEF WriteSave, Advance, DbUnchanged, Shape
  <2>2. /\ DOMAIN loc[r].parts # {} /\ OnePart(r, loc[r].parts) /\ Payload(r) # {}
        /\ loc[r].table > Working /\ Holding(r, loc[r].table)
    BY <1>2, <2>1 DEF WriteState
  <2>3. OnePart(r, staged[r].parts)' /\ Payload(r)' = Payload(r)
    BY <2>1, <2>2 DEF OnePart, OneDay, Payload
  <2>4. PublishState(r)'
    BY <1>2, <2>1, <2>2, <2>3 DEF PublishState, Holding, catalog
  <2> QED BY <1>2, <2>1, <2>4 DEF RunStage
<1> QED BY <1>4, <1>5, <1>6, <1>7, <1>8, <1>9, <1>10, <1>11 DEF Write

LEMMA PublishStage ==
    ASSUME VaultInv, StageInv, Isolated, NEW r \in Runs, Publish(r)
    PROVE  RunStage(r)'
<1> USE DEF At, Goto
<1>1. Shape /\ RunStage(r) /\ StepOf(r) /\ step[r] = "publish"
  BY StageFacts DEF StepOf, Work, Publish, PublishBegin, ValidateSchema,
     ApplyMergeOperation, VerifyPromotion, DropSource, PublishSave
<1>2. /\ PublishState(r)
      /\ open[r] # {} => OpenState(r)
      /\ staged[r].table # Target /\ staged[r].table \in Nat
  BY <1>1, StageFacts DEF RunStage, PublishState, UsesStaged, Target, Working
<1>3. /\ cfg' = cfg /\ reported' = reported /\ staged' = staged
  BY DEF Publish, PublishBegin, ValidateSchema, ApplyMergeOperation, VerifyPromotion,
     DropSource, PublishSave, Raise
<1>4. /\ OnePart(r, staged[r].parts)' <=> OnePart(r, staged[r].parts)
      /\ Payload(r)' = Payload(r) /\ \A d : Scope(d)' = Scope(d)
  BY <1>3 DEF OnePart, OneDay, Payload, Scope
<1>5. PICK d \in DOMAIN staged[r].parts : DOMAIN staged[r].parts = {d}
  BY <1>2 DEF PublishState, OnePart
<1>6. CASE PublishBegin(r)
  BY <1>1, <1>2, <1>3, <1>4, <1>6, PublishLocals
     DEF PublishBegin, DbUnchanged, RunStage, PublishState, OpenState, Holding, catalog
<1>7. CASE ValidateSchema(r)
  <2>1. /\ loc'[r].day \in loc[r].todo /\ loc'[r].table = loc[r].table /\ step' = step
        /\ loc'[r].todo = loc[r].todo
        /\ tables' = tables /\ open' = open /\ pc[r] = "promote"
        /\ \/ pc'[r] = "merge" /\ loc[r].table \in catalog
           \/ pc'[r] = "stopped"
    BY <1>1, <1>7 DEF ValidateSchema, DbUnchanged, Shape, Fields
  <2> QED BY <1>1, <1>2, <1>3, <1>4, <2>1
          DEF RunStage, PublishState, OpenState, Holding, catalog
<1>8. CASE ApplyMergeOperation(r)
  <2>1. /\ pc[r] = "merge" /\ step' = step /\ loc[r].table = staged[r].table
        /\ loc'[r].table = loc[r].table /\ loc'[r].day = loc[r].day
        /\ loc'[r].todo = loc[r].todo /\ loc[r].day = d /\ staged[r].table \in catalog
    BY <1>1, <1>2, <1>5, <1>8, PublishLocals DEF ApplyMergeOperation, Raise, PublishState
  <2>2. \/ pc'[r] = "stopped" /\ open' = open /\ tables' = tables
        \/ /\ pc'[r] \in {"merge", "verify"}
           /\ open'[r] = open[r] \cup Scope(d)
           /\ DOMAIN tables' = DOMAIN tables
           /\ tables'[staged[r].table] = tables[staged[r].table]
    BY <1>1, <1>2, <1>8, <2>1 DEF ApplyMergeOperation, Raise, Shape, catalog
  <2>3. DOMAIN tables' = DOMAIN tables /\ tables'[staged[r].table] = tables[staged[r].table]
    BY <2>2
  <2>4. Holding(r, staged[r].table) /\ Holding(r, staged[r].table)'
    BY <1>2, <1>3, <1>4, <2>1, <2>3 DEF PublishState, Holding, catalog
  <2>5. \A e \in DOMAIN staged[r].parts : open'[r] \subseteq Scope(e)
    BY <1>2, <1>5, <2>2 DEF PublishState
  <2>6. PublishState(r)'
    BY <1>2, <1>3, <1>4, <2>1, <2>2, <2>4, <2>5 DEF PublishState, catalog
  <2> QED BY <1>1, <1>2, <1>3, <2>1, <2>4, <2>6 DEF RunStage, OpenState, PublishState
<1>9. CASE VerifyPromotion(r)
  <2>1. /\ pc[r] = "verify" /\ step' = step /\ loc' = loc /\ tables' = tables
        /\ loc[r].day = d /\ staged[r].table \in catalog
    BY <1>2, <1>5, <1>9 DEF VerifyPromotion, DbUnchanged, PublishState
  <2>2. \/ pc'[r] = "drop" /\ open'[r] = open[r] \ Scope(d)
        \/ pc'[r] = "stopped" /\ open' = open
    BY <1>1, <1>9, <2>1 DEF VerifyPromotion, AfterFailedVerify, Shape
  <2>3. open[r] \subseteq Scope(d) BY <1>2 DEF PublishState
  <2> QED BY <1>1, <1>2, <1>3, <1>4, <2>1, <2>2, <2>3
          DEF RunStage, PublishState, OpenState, Holding, catalog
<1>10. CASE DropSource(r)
  <2>1. /\ pc[r] = "drop" /\ pc'[r] = "promote" /\ step' = step /\ open' = open
        /\ loc[r].table = staged[r].table /\ open[r] = {} /\ loc[r].day = d
        /\ loc'[r].table = loc[r].table /\ loc'[r].todo = loc[r].todo \ {d}
        /\ DOMAIN tables' = catalog \ {staged[r].table}
    BY <1>1, <1>2, <1>5, <1>10 DEF DropSource, Drop, PublishState, Shape, Fields
  <2>2. loc'[r].todo \subseteq DOMAIN staged[r].parts
    BY <1>2, <2>1 DEF PublishState
  <2> QED BY <1>1, <1>2, <1>3, <1>4, <2>1, <2>2 DEF RunStage, PublishState, catalog
<1>11. CASE PublishSave(r)
  <2>1. /\ step'[r] = "done" /\ open' = open /\ tables' = tables
    BY <1>1, <1>11, StageFacts, PipelineOrder DEF PublishSave, Advance, DbUnchanged, Shape
  <2> QED BY <1>1, <1>2, <1>3, <1>4, <2>1 DEF RunStage, OpenState, Holding, catalog
<1> QED BY <1>6, <1>7, <1>8, <1>9, <1>10, <1>11 DEF Publish

LEMMA FaultStage ==
    ASSUME VaultInv, StageInv, Isolated, NEW r \in Runs,
           Crash(r) \/ CopyFails(r) \/ Restart(r) \/ GiveUp(r)
    PROVE  RunStage(r)'
<1>1. Shape /\ RunStage(r) /\ cfg.strategy = "clone"
  BY StageFacts
<1>2. /\ cfg' = cfg /\ reported' = reported /\ staged' = staged /\ open' = open
      /\ tables' = tables /\ loc' = loc
      /\ step'[r] = step[r] \/ step'[r] = "failed"
      /\ pc'[r] \in {"idle", "stopped"} \/ CopyFails(r) \/ GiveUp(r)
  BY <1>1 DEF Crash, CopyFails, Restart, GiveUp, Raise, DbUnchanged, Goto, Shape
<1>3. /\ OnePart(r, staged[r].parts)' <=> OnePart(r, staged[r].parts)
      /\ Payload(r)' = Payload(r) /\ \A d : Scope(d)' = Scope(d)
  BY <1>2 DEF OnePart, OneDay, Payload, Scope
<1>4. open[r] # {} => OpenState(r)'
  BY <1>1, <1>2, <1>3 DEF RunStage, OpenState, Holding, catalog
<1>5. CASE step'[r] = "failed"
  BY <1>2, <1>4, <1>5 DEF RunStage
<1>6. CASE step'[r] = step[r] /\ pc'[r] \in {"idle", "stopped"}
  BY <1>1, <1>2, <1>3, <1>4, <1>6
     DEF RunStage, WriteState, PublishState, Holding, catalog
<1>7. CASE CopyFails(r)
  BY <1>1, <1>2, <1>4, <1>7 DEF CopyFails, At, StagingFailed, Goto, Shape, RunStage, WriteState
<1>8. CASE GiveUp(r)
  BY <1>1, <1>5, <1>8 DEF GiveUp, Shape
<1> QED BY <1>2, <1>5, <1>6, <1>7, <1>8

LEMMA StepStage ==
    ASSUME VaultInv, StageInv, NEW r \in Runs, StepOf(r)
    PROVE  StageInv'
<1>1. cfg' = cfg BY StepFrame DEF VaultInv, Framed
<1> SUFFICES ASSUME Isolated
             PROVE  Target \in DOMAIN tables' /\ Ownership' /\ \A q \in Runs : RunStage(q)'
  BY <1>1 DEF StageInv, Isolated, catalog
<1>2. RunStage(r)'
  BY VaultStage, WriteStage, PublishStage, FaultStage
     DEF StepOf, Work, Extract, Transform, VaultStages
<1> QED BY <1>2, TablesFrame, OwnershipStep, OtherStages

LEMMA CleanupStage ==
    ASSUME VaultInv, StageInv, NEW r \in Runs, CleanupTask(r)
    PROVE  StageInv'
<1> SUFFICES ASSUME Isolated
             PROVE  Target \in DOMAIN tables' /\ Ownership' /\ \A q \in Runs : RunStage(q)'
  BY DEF CleanupTask, StageInv, Isolated, catalog
<1>1. /\ cfg' = cfg /\ tables' = tables /\ born' = born /\ pc' = pc /\ loc' = loc
      /\ reported' = reported /\ staged' = staged /\ open' = open
      /\ step[r] = "done" /\ step'[r] = "cleaned"
      /\ \A q \in Runs \ {r} : step'[q] = step[q]
  BY DEF CleanupTask, DbUnchanged, VaultInv, Shape
<1>2. \A q \in Runs : Holds(q)' = Holds(q)
  BY <1>1 DEF Holds, UsesStaged
<1>3. Ownership'
  BY <1>1, <1>2, StageFacts DEF Ownership
<1>4. ASSUME NEW q \in Runs PROVE RunStage(q)'
  <2>1. RunStage(q) BY StageFacts
  <2>2. /\ Payload(q)' = Payload(q) /\ \A d : Scope(d)' = Scope(d)
        /\ \A d : OneDay(q, d)' <=> OneDay(q, d)
    BY <1>1 DEF OneDay, Payload, Scope
  <2> QED BY <1>1, <2>1, <2>2 DEF RunStage, WriteState, PublishState, OpenState, OnePart,
                                 Holding, catalog
<1> QED BY <1>1, <1>3, <1>4 DEF StageInv, catalog

\* The inductive invariant of staging and promotion.
LEMMA StageInductive == Spec => [](VaultInv /\ StageInv)
<1>1. Init => VaultInv
  BY InitShape DEF Init, VaultInv, RunVault, Proper, VaultStages
<1>2. Init => StageInv
  <2> SUFFICES ASSUME Init, Isolated
               PROVE  Target \in catalog /\ Ownership /\ \A r \in Runs : RunStage(r)
    BY DEF StageInv
  <2>1. Target \in catalog
    BY DEF Init, Isolated, catalog
  <2>2. \A r \in Runs : Holds(r) = {Target}
    BY DEF Init, Holds, UsesStaged, NoLocals
  <2> QED BY <2>1, <2>2 DEF Init, Ownership, RunStage, Target, Generated
<1>3. VaultInv /\ StageInv /\ [Next]_vars => (VaultInv /\ StageInv)'
  <2> SUFFICES ASSUME VaultInv, StageInv, [Next]_vars PROVE (VaultInv /\ StageInv)'
    OBVIOUS
  <2>1. CASE Next
    BY <2>1, StepVault, CleanupVault, StepStage, CleanupStage DEF Next, StepOf
  <2>2. CASE UNCHANGED vars
    <3>1. VaultInv'
      <4>1. \A q : PartitionDate(q)' = PartitionDate(q)
        BY <2>2 DEF vars, PartitionDate
      <4>2. \A q : CleanedUp(q)' <=> CleanedUp(q)
        BY <2>2, <4>1 DEF vars, run, CleanedUp, SharesDate
      <4>3. Shape'
        BY <2>2 DEF vars, run, VaultInv, Shape
      <4> QED BY <2>2, <4>2, <4>3 DEF vars, run, VaultInv, RunVault, Filed, Filling,
                                      Proper, UpTo
    <3>2. StageInv'
      <4> SUFFICES ASSUME Isolated
                   PROVE  Target \in DOMAIN tables' /\ Ownership'
                          /\ \A q \in Runs : RunStage(q)'
        BY <2>2 DEF vars, StageInv, Isolated, catalog
      <4>1. \A q \in Runs : Holds(q)' = Holds(q)
        BY <2>2 DEF vars, run, Holds, UsesStaged
      <4>2. Ownership /\ Target \in catalog /\ \A q \in Runs : RunStage(q)
        BY DEF StageInv
      <4>3. ASSUME NEW q \in Runs PROVE RunStage(q)'
        <5>1. /\ Payload(q)' = Payload(q) /\ \A d : Scope(d)' = Scope(d)
              /\ \A d : OneDay(q, d)' <=> OneDay(q, d)
          BY <2>2 DEF vars, run, OneDay, Payload, Scope
        <5> QED BY <2>2, <4>2, <5>1 DEF vars, run, RunStage, WriteState, PublishState,
                                       OpenState, OnePart, Holding, catalog
      <4> QED BY <2>2, <4>1, <4>2, <4>3 DEF vars, Ownership, catalog
    <3> QED BY <3>1, <3>2
  <2> QED BY <2>1, <2>2
<1> QED BY <1>1, <1>2, <1>3, PTL DEF Spec

\* A run that changed production without having confirmed the change still
\* owns a staging table with every row of its transform payload: promote()
\* drops its source only after the count matched, a clone belongs to one call
\* of write, and what stage() lets through holds all the rows of the run.
THEOREM PromotionCanBeRepeated == Spec => []PromotionRepeatable
<1>1. StageInv => PromotionRepeatable
  BY DEF StageInv, RunStage, OpenState, Holding, Payload, PromotionRepeatable
<1> QED BY <1>1, StageInductive, PTL

-----------------------------------------------------------------------------
(* Promotions of a snapshot that interleave. *)

Owners == Runs \cup {Old}

AllRows == Owners \X Days \X (1..MaxRows) \X {"live", "deleted"}

Production == tables[Target]

RecordOf(x) == <<OwnerOf(x), DayOf(x), KeyOf(x)>>

KeysOf(rows) == {KeyOf(x) : x \in rows}

Promoting == Isolated /\ cfg.mode = "snapshot"

\* Production is a bag of rows.
IsTable(bag) ==
    /\ DOMAIN bag \subseteq AllRows
    /\ \A x \in DOMAIN bag : bag[x] \in Nat /\ bag[x] > 0

\* Keys that no soft delete marks while the snapshots are comparable.
Heads == IF cfg.soft THEN {1} ELSE 1..MaxRows

\* A day that is not empty has a live row with such a key.
Headed(bag, d, heads) ==
    OnDay(bag, d) # {} => \E x \in OnDay(bag, d) : Live(x) /\ KeyOf(x) \in heads

Distinct(bag, d) ==
    /\ \A x \in OnDay(bag, d) : bag[x] = 1
    /\ \A x, y \in OnDay(bag, d) : RecordOf(x) = RecordOf(y) => x = y

WholeDay(d) ==
    /\ Complete(d)
    /\ Distinct(Production, d)
    /\ cfg.soft \/ \A x \in OnDay(Production, d) : Live(x)

\* One owner's rows for all the keys, and a live row beside them.
Doubled(bag, d, keys, heads) ==
    \E o \in Owners :
        /\ \A k \in keys : <<o, d, k, "live">> \in DOMAIN bag
        /\ \E x \in OnDay(bag, d) :
              /\ Live(x) /\ KeyOf(x) \in heads
              /\ (\A k \in keys : x # <<o, d, k, "live">>) \/ bag[x] > 1

\* The run has inserted its rows and has only to mark and to count.
Inserted(r) ==
    step[r] = "publish" /\ (pc[r] = "verify" \/ (pc[r] = "merge" /\ loc[r].op = 3))

\* A run that cannot confirm day d as it stands: it has to delete and insert
\* again first, or the day holds more live rows than it will count.
Blocks(r, d) ==
    /\ d \in open[r]
    /\ Inserted(r) => Doubled(Production, d, KeysOf(Payload(r)), Heads)

MergeState(r) ==
    step[r] = "publish" /\ pc[r] = "merge" => loc[r].op \in 1 .. (IF cfg.soft THEN 3 ELSE 2)

Steady(d) == cfg.soft => Comparable(d)

DayState(d) ==
    /\ Headed(Production, d, Heads)
    /\ WholeDay(d) \/ \E r \in Runs : Blocks(r, d)

DayInv ==
    Promoting =>
        /\ IsTable(Production)
        /\ \A r \in Runs : MergeState(r)
        /\ \A d \in Days : Steady(d) => DayState(d)

LEMMA SnapshotOps ==
    ASSUME cfg.mode = "snapshot", cfg \in Config
    PROVE  /\ Len(MergeOps) = (IF cfg.soft THEN 3 ELSE 2)
           /\ MergeOps[1] = "delete" /\ MergeOps[2] = "insert"
           /\ cfg.soft => MergeOps[3] = "soft_delete"
<1>1. Policies[cfg.mode] = <<"delete", "insert">>
  BY DEF Policies
<1>2. CASE cfg.soft
  <2>1. MergeOps = <<"delete", "insert">> \o <<"soft_delete">>
    BY <1>1, <1>2 DEF MergeOps
  <2> QED BY <1>2, <2>1
<1>3. CASE ~cfg.soft
  <2>1. MergeOps = <<"delete", "insert">> \o <<>>
    BY <1>1, <1>3 DEF MergeOps
  <2> QED BY <1>3, <2>1
<1> QED BY <1>2, <1>3

LEMMA MergedCases ==
    ASSUME NEW d, NEW t
    PROVE  /\ Merged("delete", d, t) = Without(Production, OnDay(Production, d))
           /\ Merged("insert", d, t) = Production (+) tables[t]
           /\ Merged("soft_delete", d, t) = MarkMissing(Production, d, KeysOf(BagToSet(tables[t])))
BY DEF Merged, Production, KeysOf

\* The two tables agree on day d.
SameDay(old, new, d) ==
    /\ OnDay(new, d) = OnDay(old, d)
    /\ \A x \in OnDay(old, d) : new[x] = old[x]

LEMMA DeleteEffect ==
    ASSUME NEW old, IsTable(old), NEW d, NEW new, new = Without(old, OnDay(old, d))
    PROVE  /\ IsTable(new) /\ OnDay(new, d) = {}
           /\ \A e : e # d => SameDay(old, new, e)
BY DEF Without, OnDay, BagToSet, IsTable, SameDay

LEMMA InsertEffect ==
    ASSUME NEW old, IsTable(old), NEW d, NEW S \in SUBSET AllRows,
           \A x \in S : DayOf(x) = d, NEW new, new = old (+) SetToBag(S)
    PROVE  /\ IsTable(new) /\ OnDay(new, d) = OnDay(old, d) \cup S
           /\ \A e : e # d => SameDay(old, new, e)
           /\ DOMAIN old \subseteq DOMAIN new /\ S \subseteq DOMAIN new
           /\ \A x \in S : new[x] = IF x \in DOMAIN old THEN old[x] + 1 ELSE 1
<1>1. DOMAIN SetToBag(S) = S /\ \A x \in S : SetToBag(S)[x] = 1
  BY DEF SetToBag
<1>2. /\ DOMAIN new = DOMAIN old \cup S
      /\ \A x \in S : new[x] = IF x \in DOMAIN old THEN old[x] + 1 ELSE 1
      /\ \A x \in DOMAIN old \ S : new[x] = old[x]
  BY <1>1 DEF (+), IsTable
<1>3. IsTable(new)
  BY <1>2 DEF IsTable
<1>4. OnDay(new, d) = OnDay(old, d) \cup S
  BY <1>2 DEF OnDay, BagToSet
<1>5. \A e : e # d => SameDay(old, new, e)
  BY <1>2 DEF SameDay, OnDay, BagToSet
<1> QED BY <1>2, <1>3, <1>4, <1>5

\* Lost: the live rows of the day whose keys the source lacks.
Lost(bag, d, keys) == {x \in OnDay(bag, d) : Live(x) /\ KeyOf(x) \notin keys}

Marked(x) == <<OwnerOf(x), DayOf(x), KeyOf(x), "deleted">>

LEMMA RowForm ==
    ASSUME NEW x \in AllRows
    PROVE  /\ OwnerOf(x) \in Owners /\ DayOf(x) \in Days /\ KeyOf(x) \in 1..MaxRows
           /\ x = <<OwnerOf(x), DayOf(x), KeyOf(x), "live">> <=> Live(x)
           /\ x = Marked(x) <=> ~Live(x)
           /\ Marked(x) \in AllRows /\ ~Live(Marked(x))
           /\ OwnerOf(Marked(x)) = OwnerOf(x) /\ DayOf(Marked(x)) = DayOf(x)
           /\ KeyOf(Marked(x)) = KeyOf(x)
BY DEF AllRows, OwnerOf, DayOf, KeyOf, Live, Marked

\* What MarkMissing does to a table whose lost rows are known.
MarkedFrom(old, d, lost, new) ==
    /\ DOMAIN new = (DOMAIN old \ lost) \cup {Marked(x) : x \in lost}
    /\ \A x \in DOMAIN old : x \notin lost /\ (Live(x) \/ DayOf(x) # d) =>
           x \in DOMAIN new /\ new[x] = old[x]
    /\ \A x \in DOMAIN old : ~Live(x) /\ (\A y \in lost : x # Marked(y)) =>
           x \in DOMAIN new /\ new[x] = old[x]
    /\ \A x \in lost : Marked(x) \notin DOMAIN old => new[Marked(x)] = old[x]

LEMMA MarkEffect ==
    ASSUME NEW old, IsTable(old), NEW d, NEW keys, NEW new, new = MarkMissing(old, d, keys)
    PROVE  IsTable(new) /\ MarkedFrom(old, d, Lost(old, d, keys), new)
<1> DEFINE lost == Lost(old, d, keys)
           rest == Without(old, lost)
           names == {<<OwnerOf(x), d, KeyOf(x), "deleted">> : x \in lost}
           marked == [row \in names |-> old[<<OwnerOf(row), d, KeyOf(row), "live">>]]
<1>1. new = rest (+) marked
  BY DEF MarkMissing, Lost
<1>2. lost \subseteq DOMAIN old /\ \A x \in lost : x \in AllRows /\ DayOf(x) = d /\ Live(x)
  BY DEF Lost, OnDay, BagToSet, IsTable
<1>3. names = {Marked(x) : x \in lost}
  BY <1>2 DEF Marked
<1>4. DOMAIN rest = DOMAIN old \ lost /\ \A x \in DOMAIN old \ lost : rest[x] = old[x]
  BY DEF Without, BagToSet
<1>5. \A x \in lost : marked[Marked(x)] = old[x]
  <2> TAKE x \in lost
  <2>1. x = <<OwnerOf(x), d, KeyOf(x), "live">>
    BY <1>2, RowForm
  <2>2. Marked(x) \in names BY <1>3
  <2>3. OwnerOf(Marked(x)) = OwnerOf(x) /\ KeyOf(Marked(x)) = KeyOf(x)
    BY <1>2, RowForm
  <2>4. marked[Marked(x)] = old[<<OwnerOf(Marked(x)), d, KeyOf(Marked(x)), "live">>]
    BY <2>2
  <2> QED BY <2>1, <2>3, <2>4
<1>6. DOMAIN marked = names OBVIOUS
<1>7. \A x \in lost : old[x] \in Nat /\ old[x] > 0
  BY <1>2 DEF IsTable
<1> HIDE DEF rest, names, marked, lost
<1>8. DOMAIN new = (DOMAIN old \ lost) \cup names
  BY <1>1, <1>4, <1>6 DEF (+)
<1>9. \A x \in DOMAIN new : new[x] = (IF x \in DOMAIN old \ lost THEN old[x] ELSE 0)
                                  + (IF x \in names THEN marked[x] ELSE 0)
  BY <1>1, <1>4, <1>6 DEF (+)
<1>10. \A x \in names : marked[x] \in Nat /\ marked[x] > 0
  BY <1>3, <1>5, <1>7
<1>11. names \subseteq AllRows /\ \A x \in names : ~Live(x) /\ DayOf(x) = d
  BY <1>2, <1>3, RowForm
<1>12. IsTable(new)
  BY <1>8, <1>9, <1>10, <1>11 DEF IsTable
<1>13. \A x \in (DOMAIN old \ lost) \ names : x \in DOMAIN new /\ new[x] = old[x]
  BY <1>8, <1>9 DEF IsTable
<1>14. \A x \in lost : Marked(x) \notin DOMAIN old => new[Marked(x)] = old[x]
  BY <1>3, <1>5, <1>7, <1>8, <1>9
<1>15. \A x \in DOMAIN old : x \notin lost /\ (Live(x) \/ DayOf(x) # d) =>
           x \in DOMAIN new /\ new[x] = old[x]
  BY <1>11, <1>13
<1>16. \A x \in DOMAIN old : ~Live(x) /\ (\A y \in lost : x # Marked(y)) =>
           x \in DOMAIN new /\ new[x] = old[x]
  BY <1>2, <1>3, <1>13
<1>17. DOMAIN new = (DOMAIN old \ lost) \cup {Marked(x) : x \in lost}
  BY <1>3, <1>8
<1>18. MarkedFrom(old, d, lost, new)
  BY <1>14, <1>15, <1>16, <1>17 DEF MarkedFrom
<1> QED BY <1>12, <1>18 DEF lost

LEMMA MarkElsewhere ==
    ASSUME NEW old, IsTable(old), NEW d, NEW keys, NEW new, new = MarkMissing(old, d, keys)
    PROVE  \A e : e # d => SameDay(old, new, e)
<1> DEFINE lost == Lost(old, d, keys)
<1>0. MarkedFrom(old, d, lost, new)
  BY MarkEffect
<1>2. lost \subseteq OnDay(old, d) /\ \A x \in lost : Live(x) /\ KeyOf(x) \notin keys
  BY DEF Lost
<1> HIDE DEF lost
<1>1. /\ DOMAIN new = (DOMAIN old \ lost) \cup {Marked(x) : x \in lost}
      /\ \A x \in DOMAIN old : x \notin lost /\ (Live(x) \/ DayOf(x) # d) =>
             x \in DOMAIN new /\ new[x] = old[x]
      /\ \A x \in DOMAIN old : ~Live(x) /\ (\A y \in lost : x # Marked(y)) =>
             x \in DOMAIN new /\ new[x] = old[x]
      /\ \A x \in lost : Marked(x) \notin DOMAIN old => new[Marked(x)] = old[x]
  BY <1>0 DEF MarkedFrom
<1>3. \A x \in OnDay(old, d) : x \in DOMAIN old /\ x \in AllRows /\ DayOf(x) = d
  BY DEF OnDay, BagToSet, IsTable
<1>4. \A x \in lost : DayOf(Marked(x)) = d /\ ~Live(Marked(x))
  BY <1>2, <1>3, RowForm
<1> SUFFICES ASSUME NEW e, e # d PROVE SameDay(old, new, e) OBVIOUS
<1>5. OnDay(new, e) = OnDay(old, e)
  BY <1>1, <1>2, <1>3, <1>4 DEF OnDay, BagToSet
<1>6. \A x \in OnDay(old, e) : new[x] = old[x]
  BY <1>1, <1>2, <1>3 DEF OnDay, BagToSet
<1> QED BY <1>5, <1>6 DEF SameDay

LEMMA MarkKeeps ==
    ASSUME NEW old, IsTable(old), NEW d, NEW keys, NEW heads \in SUBSET keys,
           NEW new, new = MarkMissing(old, d, keys)
    PROVE  /\ Headed(old, d, heads) => Headed(new, d, heads)
           /\ \A K \in SUBSET keys : Doubled(old, d, K, heads) => Doubled(new, d, K, heads)
           /\ Distinct(old, d) =>
                 /\ Distinct(new, d)
                 /\ Records(OnDay(new, d)) = Records(OnDay(old, d))
<1> DEFINE lost == Lost(old, d, keys)
<1>0. MarkedFrom(old, d, lost, new)
  BY MarkEffect
<1>2. lost \subseteq OnDay(old, d) /\ \A x \in lost : Live(x) /\ KeyOf(x) \notin keys
  BY DEF Lost
<1> HIDE DEF lost
<1>1. /\ DOMAIN new = (DOMAIN old \ lost) \cup {Marked(x) : x \in lost}
      /\ \A x \in DOMAIN old : x \notin lost /\ (Live(x) \/ DayOf(x) # d) =>
             x \in DOMAIN new /\ new[x] = old[x]
      /\ \A x \in DOMAIN old : ~Live(x) /\ (\A y \in lost : x # Marked(y)) =>
             x \in DOMAIN new /\ new[x] = old[x]
      /\ \A x \in lost : Marked(x) \notin DOMAIN old => new[Marked(x)] = old[x]
  BY <1>0 DEF MarkedFrom
<1>3. \A x \in OnDay(old, d) : x \in DOMAIN old /\ x \in AllRows /\ DayOf(x) = d
  BY DEF OnDay, BagToSet, IsTable
<1>4. \A x \in lost : DayOf(Marked(x)) = d /\ ~Live(Marked(x))
  BY <1>2, <1>3, RowForm
<1>5. OnDay(new, d) = (OnDay(old, d) \ lost) \cup {Marked(x) : x \in lost}
  BY <1>1, <1>2, <1>4 DEF OnDay, BagToSet
<1>6. \A x \in OnDay(old, d) : Live(x) /\ KeyOf(x) \in keys =>
         x \in OnDay(new, d) /\ new[x] = old[x]
  BY <1>1, <1>2, <1>3, <1>5
<1>7. Headed(old, d, heads) => Headed(new, d, heads)
  <2> SUFFICES ASSUME Headed(old, d, heads), OnDay(new, d) # {}
               PROVE  \E x \in OnDay(new, d) : Live(x) /\ KeyOf(x) \in heads
    BY DEF Headed
  <2>1. OnDay(old, d) # {} BY <1>2, <1>5
  <2> QED BY <1>6, <2>1 DEF Headed
<1>8. ASSUME NEW K \in SUBSET keys, Doubled(old, d, K, heads)
      PROVE  Doubled(new, d, K, heads)
  <2>1. PICK o \in Owners :
          /\ \A k \in K : <<o, d, k, "live">> \in DOMAIN old
          /\ \E x \in OnDay(old, d) :
                /\ Live(x) /\ KeyOf(x) \in heads
                /\ (\A k \in K : x # <<o, d, k, "live">>) \/ old[x] > 1
    BY <1>8 DEF Doubled
  <2>2. \A k \in K : <<o, d, k, "live">> \in DOMAIN new
    <3> TAKE k \in K
    <3>1. <<o, d, k, "live">> \in OnDay(old, d) /\ Live(<<o, d, k, "live">>)
          /\ KeyOf(<<o, d, k, "live">>) \in keys
      BY <2>1 DEF OnDay, BagToSet, DayOf, KeyOf, Live
    <3> QED BY <1>6, <3>1 DEF OnDay, BagToSet
  <2> QED BY <1>6, <2>1, <2>2 DEF Doubled
<1>9. ASSUME Distinct(old, d)
      PROVE  Distinct(new, d) /\ Records(OnDay(new, d)) = Records(OnDay(old, d))
  <2>1. /\ \A x \in OnDay(old, d) : old[x] = 1
        /\ \A x, y \in OnDay(old, d) : RecordOf(x) = RecordOf(y) => x = y
    BY <1>9 DEF Distinct
  <2>2. \A x \in lost : RecordOf(Marked(x)) = RecordOf(x)
    BY <1>2, <1>3, RowForm DEF RecordOf
  <2>3. \A x \in lost : Marked(x) \notin OnDay(old, d)
    BY <1>2, <1>4, <2>1, <2>2
  <2>4. \A x \in lost : Marked(x) \notin DOMAIN old
    BY <1>4, <2>3 DEF OnDay, BagToSet
  <2>5. \A x \in OnDay(new, d) : new[x] = 1
    <3>1. ASSUME NEW x \in OnDay(old, d) \ lost PROVE new[x] = 1
      BY <1>1, <1>3, <2>1, <2>3
    <3> QED BY <1>1, <1>2, <1>5, <2>1, <2>4, <3>1
  <2>6. ASSUME NEW x \in OnDay(new, d) PROVE \E y \in OnDay(old, d) :
           /\ RecordOf(y) = RecordOf(x)
           /\ y \in lost => x = Marked(y)
           /\ y \notin lost => x = y
    BY <1>2, <1>5, <2>2
  <2>7. \A x, y \in OnDay(new, d) : RecordOf(x) = RecordOf(y) => x = y
    BY <2>1, <2>6
  <2>8. \A y \in OnDay(old, d) : \E x \in OnDay(new, d) : RecordOf(x) = RecordOf(y)
    BY <1>5, <2>2
  <2>9. Records(OnDay(new, d)) = Records(OnDay(old, d))
    <3>1. \A rows : Records(rows) = {RecordOf(x) : x \in rows}
      BY DEF Records, RecordOf
    <3>2. \A x \in OnDay(new, d) : RecordOf(x) \in {RecordOf(y) : y \in OnDay(old, d)}
      BY <2>6
    <3>3. \A y \in OnDay(old, d) : RecordOf(y) \in {RecordOf(x) : x \in OnDay(new, d)}
      BY <2>8
    <3>4. {RecordOf(x) : x \in OnDay(new, d)} = {RecordOf(x) : x \in OnDay(old, d)}
      BY <3>2, <3>3
    <3> QED BY <3>1, <3>4
  <2> QED BY <2>5, <2>7, <2>9 DEF Distinct
<1> QED BY <1>7, <1>8, <1>9

-----------------------------------------------------------------------------
(* Counting the live rows of a day. *)

LEMMA AllRowsFinite == IsFiniteSet(AllRows)
<1>1. /\ IsFiniteSet(Owners) /\ IsFiniteSet(Days) /\ IsFiniteSet(1..MaxRows)
      /\ IsFiniteSet({"live", "deleted"})
  <2>1. {"live", "deleted"} = {"live"} \cup {"deleted"} OBVIOUS
  <2>2. IsFiniteSet({"live"}) /\ IsFiniteSet({Old}) BY FS_Singleton
  <2>3. IsFiniteSet({"live", "deleted"}) BY <2>1, <2>2, FS_AddElement
  <2>4. IsFiniteSet(Runs) /\ IsFiniteSet(Days) /\ MaxRows \in Nat BY LoadAssumption
  <2>5. IsFiniteSet(Owners) BY <2>4, FS_AddElement DEF Owners
  <2>6. IsFiniteSet(1..MaxRows) BY <2>4, FS_Interval
  <2> QED BY <2>3, <2>4, <2>5, <2>6
<1> DEFINE Pairs == (Owners \X Days) \X ((1..MaxRows) \X {"live", "deleted"})
           f == [x \in AllRows |-> <<<<x[1], x[2]>>, <<x[3], x[4]>>>>]
<1>2. IsFiniteSet(Owners \X Days) /\ IsFiniteSet((1..MaxRows) \X {"live", "deleted"})
  BY <1>1, FS_Product
<1>3. IsFiniteSet(Pairs)
  BY <1>2, FS_Product
<1>4. f \in [AllRows -> Pairs]
  BY DEF AllRows
<1>5. \A x, y \in AllRows : f[x] = f[y] => x = y
  BY DEF AllRows
<1>6. f \in Injection(AllRows, Pairs)
  BY <1>4, <1>5 DEF Injection, IsInjective
<1> QED BY <1>3, <1>6, FS_Injection

LEMMA CopiesFinite ==
    ASSUME NEW bag, IsTable(bag), NEW rows
    PROVE  IsFiniteSet(Copies(bag, rows))
<1> DEFINE D == DOMAIN bag \cap rows
           F == {{x} \X (1 .. bag[x]) : x \in D}
           f == [x \in D |-> {x} \X (1 .. bag[x])]
<1>1. IsFiniteSet(D)
  BY AllRowsFinite, FS_Subset DEF IsTable
<1>2. f \in Surjection(D, F)
  BY DEF Surjection
<1>3. IsFiniteSet(F)
  BY <1>1, <1>2, FS_Surjection
<1>4. \A x \in D : IsFiniteSet({x} \X (1 .. bag[x]))
  <2> TAKE x \in D
  <2>1. bag[x] \in Nat BY DEF IsTable
  <2>2. IsFiniteSet(1 .. bag[x]) BY <2>1, FS_Interval
  <2>3. IsFiniteSet({x}) BY FS_Singleton
  <2> QED BY <2>2, <2>3, FS_Product
<1>5. \A T \in F : IsFiniteSet(T)
  BY <1>4
<1>6. IsFiniteSet(UNION F)
  BY <1>3, <1>5, FS_UNION
<1> QED BY <1>6 DEF Copies, BagToSet

\* A doubled day is never confirmed: it holds more live rows than the run.
LEMMA DoubledCount ==
    ASSUME NEW bag, IsTable(bag), NEW d, NEW P, IsFiniteSet(P), NEW r,
           \A x \in P : x = <<r, d, KeyOf(x), "live">>,
           NEW heads, Doubled(bag, d, KeysOf(P), heads)
    PROVE  CountOf(bag, {x \in OnDay(bag, d) : Live(x)}) # Cardinality(P)
<1> DEFINE seen == {x \in OnDay(bag, d) : Live(x)}
           S == Copies(bag, seen)
<1>1. IsFiniteSet(S) BY CopiesFinite
<1>2. PICK o \in Owners :
        /\ \A k \in KeysOf(P) : <<o, d, k, "live">> \in DOMAIN bag
        /\ \E x \in OnDay(bag, d) :
              /\ Live(x) /\ KeyOf(x) \in heads
              /\ (\A k \in KeysOf(P) : x # <<o, d, k, "live">>) \/ bag[x] > 1
  BY DEF Doubled
<1>3. PICK x \in seen : (\A k \in KeysOf(P) : x # <<o, d, k, "live">>) \/ bag[x] > 1
  BY <1>2
<1>4. \A y \in seen : y \in DOMAIN bag /\ bag[y] \in Nat /\ bag[y] > 0
  BY DEF OnDay, BagToSet, IsTable
<1>5. \A y \in seen : \A i \in 1 .. bag[y] : <<y, i>> \in S
  BY <1>4 DEF Copies, BagToSet
<1> DEFINE extra == IF bag[x] > 1 THEN <<x, 2>> ELSE <<x, 1>>
           f == [y \in P |-> <<<<o, d, KeyOf(y), "live">>, 1>>]
<1>6. extra \in S
  BY <1>3, <1>4, <1>5
<1>7. \A y \in P : <<o, d, KeyOf(y), "live">> \in seen
  <2> TAKE y \in P
  <2>1. <<o, d, KeyOf(y), "live">> \in DOMAIN bag BY <1>2 DEF KeysOf
  <2> QED BY <2>1 DEF OnDay, BagToSet, DayOf, Live
<1>8. \A y \in P : f[y] \in S
  BY <1>4, <1>5, <1>7
<1>9. \A y \in P : f[y] # extra
  <2> TAKE y \in P
  <2>1. CASE bag[x] > 1
    BY <2>1
  <2>2. CASE ~ (bag[x] > 1)
    <3>1. KeyOf(y) \in KeysOf(P) BY DEF KeysOf
    <3>2. x # <<o, d, KeyOf(y), "live">> BY <1>3, <2>2, <3>1
    <3> QED BY <2>2, <3>2
  <2> QED BY <2>1, <2>2
<1>10. f \in [P -> S \ {extra}]
  BY <1>8, <1>9
<1>11. \A y, z \in P : f[y] = f[z] => y = z
  OBVIOUS
<1>12. f \in Injection(P, S \ {extra})
  BY <1>10, <1>11 DEF Injection, IsInjective
<1>13. IsFiniteSet(S \ {extra}) /\ Cardinality(S \ {extra}) = Cardinality(S) - 1
  BY <1>1, <1>6, FS_RemoveElement
<1>14. Cardinality(P) <= Cardinality(S \ {extra})
  BY <1>12, <1>13, FS_Injection
<1>15. Cardinality(P) \in Nat /\ Cardinality(S) \in Nat
  BY <1>1, FS_CardinalityType
<1> QED BY <1>13, <1>14, <1>15 DEF CountOf

-----------------------------------------------------------------------------
(* The days of production. *)

LEMMA SameDayKeeps ==
    ASSUME NEW old, NEW new, NEW d, SameDay(old, new, d)
    PROVE  /\ \A heads : Headed(old, d, heads) => Headed(new, d, heads)
           /\ Distinct(old, d) => Distinct(new, d)
           /\ \A K, heads : Doubled(old, d, K, heads) => Doubled(new, d, K, heads)
<1>1. /\ OnDay(new, d) = OnDay(old, d)
      /\ \A x \in OnDay(old, d) : new[x] = old[x]
  BY DEF SameDay
<1>2. \A o, k : <<o, d, k, "live">> \in DOMAIN old => <<o, d, k, "live">> \in DOMAIN new
  <2> SUFFICES ASSUME NEW o, NEW k, <<o, d, k, "live">> \in DOMAIN old
               PROVE  <<o, d, k, "live">> \in DOMAIN new
    OBVIOUS
  <2>1. <<o, d, k, "live">> \in OnDay(old, d)
    BY DEF OnDay, BagToSet, DayOf
  <2> QED BY <1>1, <2>1 DEF OnDay, BagToSet
<1>3. \A K, heads : Doubled(old, d, K, heads) => Doubled(new, d, K, heads)
  BY <1>1, <1>2 DEF Doubled
<1> QED BY <1>1, <1>3 DEF Headed, Distinct

\* A report, once saved, stays.
ReportsStay ==
    \A r \in Runs : Payload(r) # NoPayload => Payload(r)' = Payload(r)

LEMMA StepReports ==
    ASSUME VaultInv, NEW r \in Runs, StepOf(r)
    PROVE  ReportsStay
<1>1. \A q \in Runs \ {r} : reported'[q] = reported[q]
  BY StepFrame DEF VaultInv, Framed, Same
<1>2. CASE VaultSave(r, "extract")
  BY <1>1, <1>2 DEF VaultSave, ReportsStay, Payload, VaultInv, Shape, VaultStages
<1>3. CASE VaultSave(r, "transform")
  BY <1>1, <1>3 DEF VaultSave, At, ReportsStay, Payload, VaultInv, RunVault, Filed, UpTo,
                    VaultStages
<1>4. ASSUME ~VaultSave(r, "extract"), ~VaultSave(r, "transform")
      PROVE  reported' = reported
  BY <1>4 DEF StepOf, Work, Extract, Transform, Write, Publish, VaultBegin, VaultPartition,
     WriteBegin, SetupResource, PartitionGone, Prepare, CopyFromFile, VerifyStaged,
     DropStaging, WriteSave, PublishBegin, ValidateSchema, ApplyMergeOperation,
     VerifyPromotion, DropSource, PublishSave, Crash, CopyFails, Restart, GiveUp, Raise
<1> QED BY <1>2, <1>3, <1>4 DEF ReportsStay, Payload

LEMMA WholeStays ==
    ASSUME cfg' = cfg, days' = days, ReportsStay, NEW d, WholeDay(d),
           Records(OnDay(Production', d)) = Records(OnDay(Production, d)),
           Distinct(Production', d),
           cfg.soft \/ \A x \in OnDay(Production', d) : Live(x)
    PROVE  WholeDay(d)'
<1>1. Complete(d) BY DEF WholeDay
<1>2. Complete(d)'
  <2>1. CASE Records(OnDay(Production, d)) = {<<Old, d, 1>>}
    BY <2>1 DEF Complete, Production
  <2>2. CASE Records(OnDay(Production, d)) # {<<Old, d, 1>>}
    <3>1. PICK r \in Runs :
            /\ d \in days[r] /\ Payload(r) # NoPayload
            /\ Records(OnDay(Production, d)) # {}
            /\ Records(OnDay(Production, d)) = Records({x \in Payload(r) : DayOf(x) = d})
      BY <1>1, <2>2 DEF Complete, Production, Payload
    <3>2. Payload(r)' = Payload(r)
      BY <3>1 DEF ReportsStay
    <3>3. /\ d \in days'[r] /\ reported'[r].transform # NoPayload
          /\ Records(OnDay(tables'[Target], d)) # {}
          /\ Records(OnDay(tables'[Target], d))
               = Records({x \in reported'[r].transform : DayOf(x) = d})
      BY <3>1, <3>2 DEF Production, Payload
    <3> QED BY <3>3 DEF Complete
  <2> QED BY <2>1, <2>2
<1> QED BY <1>2 DEF WholeDay

LEMMA DayStays ==
    ASSUME cfg' = cfg, days' = days, ReportsStay, NEW d,
           SameDay(Production, Production', d), WholeDay(d)
    PROVE  WholeDay(d)'
<1>1. OnDay(Production', d) = OnDay(Production, d)
  BY DEF SameDay
<1>2. Distinct(Production', d)
  BY SameDayKeeps DEF WholeDay
<1>3. cfg.soft \/ \A x \in OnDay(Production', d) : Live(x)
  BY <1>1 DEF WholeDay
<1> QED BY <1>1, <1>2, <1>3, WholeStays

\* Snapshots that are comparable after a step were so before it.
LEMMA SteadyBefore ==
    ASSUME cfg' = cfg, ReportsStay, NEW d, Steady(d)'
    PROVE  Steady(d)
<1> SUFFICES ASSUME cfg.soft PROVE Comparable(d)
  BY DEF Steady
<1>1. Comparable(d)' BY DEF Steady
<1>2. SnapshotsOf(d) \subseteq SnapshotsOf(d)'
  <2> DEFINE On(rows) == {KeyOf(x) : x \in {y \in rows : DayOf(y) = d}}
  <2>1. /\ SnapshotsOf(d) = {{1}} \cup {On(Payload(r)) : r \in {q \in Runs : Payload(q) # NoPayload}}
        /\ SnapshotsOf(d)' = {{1}} \cup {On(Payload(r)') : r \in {q \in Runs : Payload(q)' # NoPayload}}
    BY DEF SnapshotsOf, Payload
  <2> HIDE DEF On
  <2> QED BY <2>1 DEF ReportsStay
<1> QED BY <1>1, <1>2 DEF Comparable

\* What a run promotes: rows of one day.
LEMMA PayloadForm ==
    ASSUME VaultInv, StageInv, Isolated, NEW r \in Runs, step[r] = "publish",
           NEW d \in DOMAIN staged[r].parts
    PROVE  /\ \A x \in Payload(r) : x \in AllRows /\ Live(x) /\ x = <<r, d, KeyOf(x), "live">>
           /\ Payload(r) # {} /\ IsFiniteSet(Payload(r)) /\ Proper(r, Payload(r))
           /\ Payload(r) # NoPayload
           /\ KeysOf(Payload(r)) \in SnapshotsOf(d) /\ d \in days[r] /\ d \in Days
           /\ KeysOf(Payload(r)) \subseteq 1..MaxRows
           /\ DOMAIN staged[r].parts = {d} /\ staged[r].parts[d] = Cardinality(Payload(r))
<1>1. Shape /\ PublishState(r)
  BY StageFacts DEF RunStage
<1>2. /\ DOMAIN staged[r].parts = {d} /\ staged[r].parts[d] = Cardinality(Payload(r))
      /\ OneDay(r, d) /\ Payload(r) # {}
  BY <1>1 DEF PublishState, OnePart
<1>3. Proper(r, Payload(r)) /\ IsFiniteSet(Payload(r))
  BY WritePayload
<1>4. Payload(r) # NoPayload
  BY DEF VaultInv, RunVault, Payload
<1>5. days[r] \subseteq Days BY <1>1 DEF Shape
<1>6. ASSUME NEW x \in Payload(r)
      PROVE  /\ x = <<r, d, KeyOf(x), "live">> /\ Live(x)
             /\ d \in days[r] /\ KeyOf(x) \in 1..MaxRows
  <2>1. DayOf(x) = d BY <1>2 DEF OneDay
  <2>2. x \in {r} \X days[r] \X (1..MaxRows) \X {"live"} BY <1>3 DEF Proper
  <2> QED BY <2>1, <2>2 DEF DayOf, KeyOf, Live
<1>7. \A x \in Payload(r) : x \in AllRows
  BY <1>5, <1>6 DEF AllRows, Owners
<1>8. KeysOf(Payload(r)) \in SnapshotsOf(d)
  <2>1. {x \in Payload(r) : DayOf(x) = d} = Payload(r) BY <1>2 DEF OneDay
  <2>2. KeysOf(Payload(r)) = {KeyOf(x) : x \in {y \in reported[r].transform : DayOf(y) = d}}
    BY <2>1 DEF KeysOf, Payload
  <2> QED BY <1>4, <2>2 DEF SnapshotsOf, Payload
<1>9. KeysOf(Payload(r)) \subseteq 1..MaxRows
  BY <1>6 DEF KeysOf
<1> QED BY <1>2, <1>3, <1>4, <1>5, <1>6, <1>7, <1>8, <1>9

\* Of two payloads for a day with soft deletes one has all the keys, and both
\* have a key that is never marked.
LEMMA PayloadKeys ==
    ASSUME NEW d, Steady(d), NEW K \in SnapshotsOf(d), K # {}, K \subseteq 1..MaxRows
    PROVE  /\ \E k \in K : k \in Heads
           /\ cfg.soft => /\ Heads \subseteq K
                          /\ \A L \in SnapshotsOf(d) : K \subseteq L \/ L \subseteq K
<1>1. CASE cfg.soft
  <2>1. {1} \in SnapshotsOf(d) BY DEF SnapshotsOf
  <2>2. \A L \in SnapshotsOf(d) : K \subseteq L \/ L \subseteq K
    BY <1>1 DEF Steady, Comparable
  <2>3. 1 \in K BY <2>1, <2>2
  <2> QED BY <1>1, <2>2, <2>3 DEF Heads
<1>2. CASE ~cfg.soft
  BY <1>2 DEF Heads
<1> QED BY <1>1, <1>2

\* Apart from the statements of promote() and their verification, a step of a
\* run changes neither production nor what is open, and brings no run closer
\* to a verification.
LEMMA QuietFacts ==
    ASSUME VaultInv, StageInv, Isolated, NEW r \in Runs, StepOf(r),
           ~ApplyMergeOperation(r), ~VerifyPromotion(r)
    PROVE  /\ Production' = Production /\ open'[r] = open[r]
           /\ \/ step'[r] # "publish" \/ pc'[r] \notin {"merge", "verify"}
              \/ pc'[r] = "merge" /\ loc'[r].op = 1
              \/ pc'[r] = pc[r] /\ step'[r] = step[r] /\ loc'[r].op = loc[r].op
<1> USE StageFacts DEF At, Goto, Raise, Advance, DbUnchanged, StagingFailed, Production, catalog,
                      Shape, Fields
<1>1. CASE VaultBegin(r, "extract")
  BY <1>1 DEF VaultBegin
<1>2. CASE VaultBegin(r, "transform")
  BY <1>2 DEF VaultBegin
<1>3. CASE VaultPartition(r, "extract")
  BY <1>3 DEF VaultPartition
<1>4. CASE VaultPartition(r, "transform")
  BY <1>4 DEF VaultPartition
<1>5. CASE VaultSave(r, "extract")
  BY PipelineOrder, <1>5 DEF VaultSave
<1>6. CASE VaultSave(r, "transform")
  BY PipelineOrder, <1>6 DEF VaultSave
<1>7. CASE WriteBegin(r)
  BY <1>7 DEF WriteBegin
<1>8. CASE SetupResource(r)
  BY <1>8 DEF SetupResource, RunStage, WriteState
<1>9. CASE PartitionGone(r)
  BY <1>9 DEF PartitionGone
<1>10. CASE Prepare(r)
  BY <1>10 DEF Prepare, Put, Target, Generated, Working
<1>11. CASE CopyFromFile(r)
  BY <1>11 DEF CopyFromFile, RunStage, WriteState, Target, Working
<1>12. CASE VerifyStaged(r)
  BY <1>12 DEF VerifyStaged, RunStage, WriteState, Target, Working
<1>13. CASE DropStaging(r)
  BY <1>13 DEF DropStaging, Drop, RunStage, WriteState, Target, Working
<1>14. CASE WriteSave(r)
  BY PipelineOrder, <1>14 DEF WriteSave
<1>15. CASE PublishBegin(r)
  BY PublishLocals, <1>15 DEF PublishBegin
<1>16. CASE ValidateSchema(r)
  BY <1>16 DEF ValidateSchema
<1>17. CASE DropSource(r)
  BY <1>17 DEF DropSource, Drop, RunStage, PublishState, Target, Working
<1>18. CASE PublishSave(r)
  BY PipelineOrder, <1>18 DEF PublishSave
<1>19. CASE Crash(r)
  BY <1>19 DEF Crash
<1>20. CASE CopyFails(r)
  BY <1>20 DEF CopyFails
<1>21. CASE Restart(r)
  BY <1>21 DEF Restart
<1>22. CASE GiveUp(r)
  BY <1>22 DEF GiveUp
<1> QED BY <1>1, <1>2, <1>3, <1>4, <1>5, <1>6, <1>7, <1>8, <1>9, <1>10, <1>11, <1>12, <1>13, <1>14, <1>15, <1>16, <1>17, <1>18, <1>19, <1>20, <1>21, <1>22 DEF StepOf, Work, Extract, Transform, Write, Publish

LEMMA DayFacts ==
    ASSUME DayInv, Promoting
    PROVE  /\ IsTable(Production) /\ \A r \in Runs : MergeState(r)
           /\ \A d \in Days : Steady(d) => Headed(Production, d, Heads)
           /\ \A d \in Days : Steady(d) => WholeDay(d) \/ \E r \in Runs : Blocks(r, d)
BY DEF DayInv, DayState

\* What has to be shown of the days after a step.
LEMMA DayGoal ==
    ASSUME cfg' = cfg, ReportsStay, IsTable(Production'), \A r \in Runs : MergeState(r)',
           \A d \in Days : Steady(d) => Headed(Production', d, Heads),
           \A d \in Days : Steady(d) => WholeDay(d)' \/ \E r \in Runs : Blocks(r, d)'
    PROVE  DayInv'
<1>1. Heads' = Heads BY DEF Heads
<1>2. ASSUME NEW d \in Days, Steady(d)' PROVE DayState(d)'
  <2>1. Steady(d) BY <1>2, SteadyBefore
  <2> QED BY <1>1, <2>1 DEF DayState
<1> QED BY <1>2 DEF DayInv

LEMMA SameDayTwice == \A bag, d : SameDay(bag, bag, d)
BY DEF SameDay

\* A run that a step leaves alone blocks what it blocked, if the day kept its rows.
LEMMA BlocksStays ==
    ASSUME VaultInv, ReportsStay, cfg' = cfg, NEW q \in Runs, Same(q), NEW d, Blocks(q, d),
           \A K : Doubled(Production, d, K, Heads) => Doubled(Production', d, K, Heads)
    PROVE  Blocks(q, d)'
<1>1. Inserted(q)' <=> Inserted(q)
  BY DEF Inserted, Same
<1>2. Inserted(q) => Payload(q)' = Payload(q)
  BY DEF Inserted, ReportsStay, VaultInv, RunVault, Payload
<1>3. d \in open'[q] BY DEF Same, Blocks
<1>4. Inserted(q) => Doubled(Production', d, KeysOf(Payload(q)'), Heads)
  BY <1>2 DEF Blocks
<1>5. Heads' = Heads BY DEF Heads
<1> QED BY <1>1, <1>3, <1>4, <1>5 DEF Blocks, KeysOf

LEMMA QuietDay ==
    ASSUME VaultInv, StageInv, DayInv, Promoting, NEW r \in Runs, StepOf(r),
           ~ApplyMergeOperation(r), ~VerifyPromotion(r)
    PROVE  DayInv'
<1>1. Isolated /\ Shape BY StageFacts DEF Promoting
<1>2. /\ cfg' = cfg /\ days' = days /\ ReportsStay
      /\ \A q \in Runs \ {r} : Same(q)
  BY <1>1, StepFrame, StepReports DEF Framed
<1>3. /\ Production' = Production /\ open'[r] = open[r]
      /\ \/ step'[r] # "publish" \/ pc'[r] \notin {"merge", "verify"}
         \/ pc'[r] = "merge" /\ loc'[r].op = 1
         \/ pc'[r] = pc[r] /\ step'[r] = step[r] /\ loc'[r].op = loc[r].op
  BY <1>1, QuietFacts
<1>4. \A q \in Runs : MergeState(q)'
  BY <1>2, <1>3, DayFacts DEF MergeState, Same
<1>5. ASSUME NEW d \in Days, Steady(d) PROVE WholeDay(d)' \/ \E q \in Runs : Blocks(q, d)'
  <2>1. CASE WholeDay(d)
    BY <1>2, <1>3, <2>1, DayStays, SameDayTwice
  <2>2. ASSUME NEW q \in Runs, Blocks(q, d) PROVE Blocks(q, d)'
    <3>1. CASE q # r
      BY <1>2, <1>3, <2>2, <3>1, BlocksStays
    <3>2. CASE q = r
      <4>1. d \in open'[r] BY <1>3, <2>2, <3>2 DEF Blocks
      <4>2. Inserted(r)' => Inserted(r)
        BY <1>3 DEF Inserted
      <4>3. Inserted(r) => Payload(r)' = Payload(r)
        BY <1>2 DEF Inserted, ReportsStay, VaultInv, RunVault, Payload
      <4>4. Inserted(r)' => Doubled(Production', d, KeysOf(Payload(r)'), Heads)
        BY <1>3, <2>2, <3>2, <4>2, <4>3 DEF Blocks
      <4>5. Heads' = Heads BY <1>2 DEF Heads
      <4> QED BY <3>2, <4>1, <4>4, <4>5 DEF Blocks, KeysOf
    <3> QED BY <3>1, <3>2
  <2> QED BY <1>5, <2>1, <2>2, DayFacts
<1>6. IsTable(Production') /\ \A d \in Days : Steady(d) => Headed(Production', d, Heads)
  BY <1>3, DayFacts
<1> QED BY <1>2, <1>4, <1>5, <1>6, DayGoal

LEMMA VerifyDay ==
    ASSUME VaultInv, StageInv, DayInv, Promoting, NEW r \in Runs, VerifyPromotion(r)
    PROVE  DayInv'
<1>1. Isolated /\ Shape /\ StepOf(r) /\ cfg.mode = "snapshot"
  BY StageFacts DEF Promoting, StepOf, Work, Publish
<1>2. /\ cfg' = cfg /\ days' = days /\ ReportsStay
      /\ \A q \in Runs \ {r} : Same(q)
  BY <1>1, StepFrame, StepReports DEF Framed
<1>3. /\ Production' = Production /\ step[r] = "publish" /\ pc[r] = "verify"
      /\ pc'[r] \in {"drop", "stopped"}
  BY <1>1 DEF VerifyPromotion, At, DbUnchanged, Production, Goto, Shape, AfterFailedVerify
<1>4. \A q \in Runs : MergeState(q)'
  BY <1>2, <1>3, DayFacts DEF MergeState, Same
<1>5. PublishState(r)
  BY <1>1, <1>3, StageFacts DEF RunStage
<1>6. loc[r].day \in DOMAIN staged[r].parts
  BY <1>3, <1>5 DEF PublishState
<1>7. ASSUME NEW d \in Days, Blocks(r, d) PROVE d \in open'[r]
  <2>1. /\ d \in open[r] /\ Doubled(Production, d, KeysOf(Payload(r)), Heads)
    BY <1>3, <1>7 DEF Blocks, Inserted
  <2>2. d = loc[r].day
    BY <1>1, <1>5, <1>6, <2>1 DEF PublishState, Scope
  <2>3. ~PromotedCountMatches(r)
    <3>1. /\ \A x \in Payload(r) : x = <<r, d, KeyOf(x), "live">>
          /\ IsFiniteSet(Payload(r)) /\ staged[r].parts[d] = Cardinality(Payload(r))
      BY <1>1, <1>3, <1>6, <2>2, PayloadForm
    <3>2. CountOf(Production, {x \in OnDay(Production, d) : Live(x)}) # Cardinality(Payload(r))
      BY <2>1, <3>1, DoubledCount, DayFacts
    <3> QED BY <1>1, <2>2, <3>1, <3>2 DEF PromotedCountMatches, Production
  <2> QED BY <2>1, <2>3 DEF VerifyPromotion
<1>8. ASSUME NEW d \in Days, Steady(d) PROVE WholeDay(d)' \/ \E q \in Runs : Blocks(q, d)'
  <2>1. CASE WholeDay(d)
    BY <1>2, <1>3, <2>1, DayStays, SameDayTwice
  <2>2. ASSUME NEW q \in Runs, Blocks(q, d) PROVE Blocks(q, d)'
    <3>1. CASE q # r
      BY <1>2, <1>3, <2>2, <3>1, BlocksStays
    <3>2. CASE q = r
      BY <1>3, <1>7, <2>2, <3>2 DEF Blocks, Inserted
    <3> QED BY <3>1, <3>2
  <2> QED BY <1>8, <2>1, <2>2, DayFacts
<1>9. IsTable(Production') /\ \A d \in Days : Steady(d) => Headed(Production', d, Heads)
  BY <1>3, DayFacts
<1> QED BY <1>2, <1>4, <1>8, <1>9, DayGoal

\* One merge statement, on the day the run promotes.
LEMMA MergeFacts ==
    ASSUME VaultInv, StageInv, DayInv, Promoting, NEW r \in Runs, ApplyMergeOperation(r)
    PROVE  /\ step[r] = "publish" /\ step' = step /\ loc[r].day \in DOMAIN staged[r].parts
           /\ loc[r].op \in 1 .. (IF cfg.soft THEN 3 ELSE 2)
           /\ tables[loc[r].table] = SetToBag(Payload(r))
           /\ open[r] \subseteq {loc[r].day}
           /\ \/ pc'[r] = "stopped" /\ tables' = tables /\ open' = open
              \/ /\ Production' = Merged(MergeOps[loc[r].op], loc[r].day, loc[r].table)
                 /\ loc[r].day \in open'[r] /\ loc'[r].op = loc[r].op + 1
                 /\ pc'[r] = IF loc[r].op < Len(MergeOps) THEN "merge" ELSE "verify"
<1>1. Isolated /\ cfg.mode = "snapshot" /\ Shape /\ RunStage(r) /\ Target \in catalog
  BY StageFacts DEF Promoting
<1>2. step[r] = "publish" /\ pc[r] = "merge" /\ step' = step
  BY DEF ApplyMergeOperation, At, Raise
<1>3. PublishState(r) BY <1>1, <1>2 DEF RunStage
<1>4. /\ loc[r].table = staged[r].table /\ loc[r].day \in DOMAIN staged[r].parts
      /\ staged[r].table \in catalog /\ Holding(r, staged[r].table)
      /\ open[r] \subseteq Scope(loc[r].day)
  BY <1>2, <1>3 DEF PublishState
<1>5. loc[r].op \in 1 .. (IF cfg.soft THEN 3 ELSE 2)
  BY <1>2, DayFacts DEF MergeState
<1>6. CASE CanRun(r, MergeOps[loc[r].op])
  <2>1. /\ tables' = [tables EXCEPT ![Target] =
                         Merged(MergeOps[loc[r].op], loc[r].day, loc[r].table)]
        /\ open' = [open EXCEPT ![r] = open[r] \cup Scope(loc[r].day)]
        /\ loc' = [loc EXCEPT ![r].op = loc[r].op + 1]
        /\ pc' = [pc EXCEPT ![r] = IF loc[r].op < Len(MergeOps) THEN "merge" ELSE "verify"]
    BY <1>6 DEF ApplyMergeOperation, Goto
  <2>2. Production' = Merged(MergeOps[loc[r].op], loc[r].day, loc[r].table)
    BY <1>1, <2>1 DEF Production, catalog
  <2>3. /\ loc[r].day \in open'[r] /\ loc'[r].op = loc[r].op + 1
        /\ pc'[r] = IF loc[r].op < Len(MergeOps) THEN "merge" ELSE "verify"
    BY <1>1, <2>1 DEF Shape, Fields, Scope
  <2> QED BY <1>1, <1>2, <1>4, <1>5, <2>2, <2>3 DEF Holding, Scope
<1>7. CASE ~CanRun(r, MergeOps[loc[r].op])
  <2>1. pc'[r] = "stopped" /\ tables' = tables /\ open' = open
    BY <1>1, <1>7 DEF ApplyMergeOperation, Raise, Goto, Shape
  <2> QED BY <1>1, <1>2, <1>4, <1>5, <2>1 DEF Holding, Scope
<1> QED BY <1>6, <1>7

LEMMA MergeDay ==
    ASSUME VaultInv, StageInv, DayInv, Promoting, NEW r \in Runs, ApplyMergeOperation(r)
    PROVE  DayInv'
<1>0. PICK d : d = loc[r].day
  OBVIOUS
<1> DEFINE P == Payload(r)
           old == Production
           new == Production'
<1>1. Isolated /\ Shape /\ StepOf(r) /\ cfg.mode = "snapshot"
  BY StageFacts DEF Promoting, StepOf, Work, Publish
<1>2. /\ cfg' = cfg /\ days' = days /\ ReportsStay
      /\ \A q \in Runs \ {r} : Same(q)
  BY <1>1, StepFrame, StepReports DEF Framed
<1>3. /\ step[r] = "publish" /\ step'[r] = "publish" /\ d \in DOMAIN staged[r].parts
      /\ loc[r].op \in 1 .. (IF cfg.soft THEN 3 ELSE 2)
      /\ tables[loc[r].table] = SetToBag(P) /\ open[r] \subseteq {d}
  BY <1>0, MergeFacts
<1>4. /\ \A x \in P : x \in AllRows /\ Live(x) /\ x = <<r, d, KeyOf(x), "live">>
      /\ P # {} /\ P # NoPayload /\ d \in days[r] /\ d \in Days
      /\ KeysOf(P) \in SnapshotsOf(d) /\ KeysOf(P) \subseteq 1..MaxRows
  BY <1>1, <1>3, PayloadForm
<1>5. P' = P BY <1>2, <1>4 DEF ReportsStay
<1>6. IsTable(old) /\ \A e \in Days : Steady(e) => Headed(old, e, Heads) BY DayFacts
<1>7. /\ Len(MergeOps) = (IF cfg.soft THEN 3 ELSE 2)
      /\ MergeOps[1] = "delete" /\ MergeOps[2] = "insert"
      /\ cfg.soft => MergeOps[3] = "soft_delete"
  BY <1>1, SnapshotOps DEF Shape
<1>8. CASE pc'[r] = "stopped" /\ tables' = tables /\ open' = open
  <2>1. new = old BY <1>8 DEF Production
  <2>2. ASSUME NEW e \in Days, Steady(e) PROVE WholeDay(e)' \/ \E q \in Runs : Blocks(q, e)'
    <3>1. CASE WholeDay(e)
      BY <1>2, <2>1, <3>1, DayStays, SameDayTwice
    <3>2. ASSUME NEW q \in Runs, Blocks(q, e) PROVE Blocks(q, e)'
      <4>1. CASE q # r
        BY <1>2, <2>1, <3>2, <4>1, BlocksStays
      <4>2. CASE q = r
        BY <1>8, <3>2, <4>2 DEF Blocks, Inserted
      <4> QED BY <4>1, <4>2
    <3> QED BY <2>2, <3>1, <3>2, DayFacts
  <2>3. \A q \in Runs : MergeState(q)'
    BY <1>2, <1>8, DayFacts DEF MergeState, Same
  <2> QED BY <1>2, <1>6, <2>1, <2>2, <2>3, DayGoal
<1>9. Heads' = Heads BY <1>2 DEF Heads
<1>10. ASSUME new = Merged(MergeOps[loc[r].op], d, loc[r].table),
             d \in open'[r], loc'[r].op = loc[r].op + 1,
             pc'[r] = IF loc[r].op < Len(MergeOps) THEN "merge" ELSE "verify"
      PROVE  DayInv'
  <2>1. \A q \in Runs : MergeState(q)'
    <3>1. MergeState(r)'
      BY <1>2, <1>3, <1>7, <1>10 DEF MergeState
    <3> QED BY <1>2, <3>1, DayFacts DEF MergeState, Same
  <2>2. SUFFICES /\ IsTable(new) /\ \A e : e # d => SameDay(old, new, e)
                 /\ Steady(d) => /\ Headed(new, d, Heads)
                                 /\ WholeDay(d)' \/ \E q \in Runs : Blocks(q, d)'
    <3>1. \A e \in Days : Steady(e) => Headed(new, e, Heads)
      BY <1>6, <2>2, SameDayKeeps
    <3>2. ASSUME NEW e \in Days, Steady(e), e # d
          PROVE  WholeDay(e)' \/ \E q \in Runs : Blocks(q, e)'
      <4>1. SameDay(old, new, e) BY <2>2, <3>2
      <4>2. CASE WholeDay(e)
        BY <1>2, <4>1, <4>2, DayStays
      <4>3. ASSUME NEW q \in Runs, Blocks(q, e) PROVE Blocks(q, e)'
        <5>1. q # r BY <1>3, <3>2, <4>3 DEF Blocks
        <5>2. \A K : Doubled(old, e, K, Heads) => Doubled(new, e, K, Heads)
          BY <4>1, SameDayKeeps
        <5> QED BY <1>2, <4>3, <5>1, <5>2, BlocksStays
      <4> QED BY <3>2, <4>2, <4>3, DayFacts
    <3> QED BY <1>2, <2>1, <2>2, <3>1, <3>2, DayGoal
  <2>3. CASE loc[r].op = 1
    <3>1. new = Without(old, OnDay(old, d))
      BY <1>7, <1>10, <2>3, MergedCases
    <3>2. IsTable(new) /\ OnDay(new, d) = {} /\ \A e : e # d => SameDay(old, new, e)
      BY <1>6, <3>1, DeleteEffect
    <3>3. pc'[r] = "merge" /\ loc'[r].op = 2
      BY <1>7, <1>10, <2>3
    <3>4. Blocks(r, d)'
      BY <1>10, <3>3 DEF Blocks, Inserted
    <3> QED BY <3>2, <3>4 DEF Headed
  <2>4. CASE loc[r].op = 2
    <3>1. new = old (+) SetToBag(P)
      BY <1>3, <1>7, <1>10, <2>4, MergedCases
    <3>2. P \in SUBSET AllRows /\ \A x \in P : DayOf(x) = d
      BY <1>4 DEF DayOf
    <3>3. /\ IsTable(new) /\ OnDay(new, d) = OnDay(old, d) \cup P
          /\ \A e : e # d => SameDay(old, new, e)
          /\ DOMAIN old \subseteq DOMAIN new /\ P \subseteq DOMAIN new
          /\ \A x \in P : new[x] = IF x \in DOMAIN old THEN old[x] + 1 ELSE 1
      BY <1>6, <3>1, <3>2, InsertEffect
    <3>4. \A k \in KeysOf(P) : <<r, d, k, "live">> \in P
      BY <1>4 DEF KeysOf
    <3>5. Steady(d) => Headed(new, d, Heads)
      <4> SUFFICES ASSUME Steady(d) PROVE Headed(new, d, Heads) OBVIOUS
      <4>1. KeysOf(P) # {} BY <1>4 DEF KeysOf
      <4>2. PICK k \in KeysOf(P) : k \in Heads
        BY <1>4, <4>1, PayloadKeys
      <4>3. /\ <<r, d, k, "live">> \in OnDay(new, d)
            /\ Live(<<r, d, k, "live">>) /\ KeyOf(<<r, d, k, "live">>) = k
        BY <1>4, <3>3, <3>4 DEF Live, KeyOf
      <4> QED BY <4>2, <4>3 DEF Headed
    <3>6. CASE OnDay(old, d) = {}
      <4>1. OnDay(new, d) = P BY <3>3, <3>6
      <4>2. \A x \in P : x \notin DOMAIN old
        BY <3>2, <3>6 DEF OnDay, BagToSet
      <4>3. Distinct(new, d)
        <5>1. \A x \in P : new[x] = 1 BY <3>3, <4>2
        <5>2. \A x, y \in P : RecordOf(x) = RecordOf(y) => x = y
          BY <1>4 DEF RecordOf
        <5> QED BY <4>1, <5>1, <5>2 DEF Distinct
      <4>4. Complete(d)'
        <5>1. {x \in P : DayOf(x) = d} = P BY <3>2
        <5>2. Records(P) # {} BY <1>4 DEF Records
        <5>3. /\ d \in days'[r] /\ reported'[r].transform # NoPayload
              /\ Records(OnDay(tables'[Target], d)) # {}
              /\ Records(OnDay(tables'[Target], d))
                   = Records({x \in reported'[r].transform : DayOf(x) = d})
          BY <1>2, <1>4, <1>5, <4>1, <5>1, <5>2 DEF Production, Payload
        <5> QED BY <5>3 DEF Complete
      <4>5. WholeDay(d)'
        BY <1>4, <4>1, <4>3, <4>4 DEF WholeDay
      <4> QED BY <3>3, <3>5, <4>5
    <3>7. CASE OnDay(old, d) # {} /\ Steady(d)
      <4>1. PICK x \in OnDay(old, d) : Live(x) /\ KeyOf(x) \in Heads
        BY <1>4, <1>6, <3>7 DEF Headed
      <4>2. x \in OnDay(new, d) /\ x \in DOMAIN old /\ old[x] \in Nat /\ old[x] > 0
        BY <1>6, <3>3 DEF OnDay, BagToSet, IsTable
      <4>3. (\A k \in KeysOf(P) : x # <<r, d, k, "live">>) \/ new[x] > 1
        BY <3>3, <3>4, <4>2
      <4>4. r \in Owners BY DEF Owners
      <4>5. Doubled(new, d, KeysOf(P), Heads)
        BY <3>3, <3>4, <4>1, <4>2, <4>3, <4>4 DEF Doubled
      <4>6. Blocks(r, d)'
        BY <1>5, <1>9, <1>10, <4>5 DEF Blocks, KeysOf
      <4> QED BY <3>3, <3>5, <4>6
    <3> QED BY <3>3, <3>6, <3>7
  <2>5. CASE loc[r].op = 3
    <3>1. cfg.soft /\ MergeOps[3] = "soft_delete"
      BY <1>3, <1>7, <2>5
    <3>2. new = MarkMissing(old, d, KeysOf(P))
      <4>1. BagToSet(tables[loc[r].table]) = P
        BY <1>3 DEF BagToSet, SetToBag
      <4> QED BY <1>10, <2>5, <3>1, <4>1, MergedCases
    <3>3. IsTable(new)
      BY <1>6, <3>2, MarkEffect
    <3>4. \A e : e # d => SameDay(old, new, e)
      BY <1>6, <3>2, MarkElsewhere
    <3>5. SUFFICES ASSUME Steady(d)
                   PROVE  /\ Headed(new, d, Heads)
                          /\ WholeDay(d)' \/ \E q \in Runs : Blocks(q, d)'
      BY <3>3, <3>4
    <3>6. /\ Heads \in SUBSET KeysOf(P)
          /\ \A L \in SnapshotsOf(d) : KeysOf(P) \subseteq L \/ L \subseteq KeysOf(P)
      <4>1. KeysOf(P) # {} BY <1>4 DEF KeysOf
      <4> QED BY <1>4, <3>1, <3>5, <4>1, PayloadKeys
    <3>7. /\ Headed(old, d, Heads) => Headed(new, d, Heads)
          /\ \A K \in SUBSET KeysOf(P) : Doubled(old, d, K, Heads) => Doubled(new, d, K, Heads)
          /\ Distinct(old, d) =>
                Distinct(new, d) /\ Records(OnDay(new, d)) = Records(OnDay(old, d))
      BY <1>6, <3>2, <3>6, MarkKeeps
    <3>8. Headed(new, d, Heads) BY <1>4, <1>6, <3>5, <3>7
    <3>9. CASE WholeDay(d)
      <4>1. Distinct(new, d) /\ Records(OnDay(new, d)) = Records(OnDay(old, d))
        BY <3>7, <3>9 DEF WholeDay
      <4>2. WholeDay(d)'
        BY <1>2, <3>1, <3>9, <4>1, WholeStays
      <4> QED BY <3>8, <4>2
    <3>10. ASSUME NEW q \in Runs, Blocks(q, d) PROVE \E p \in Runs : Blocks(p, d)'
      <4>1. CASE ~Inserted(q)
        <5>1. q # r
          BY <1>3, <2>5, <4>1 DEF Inserted, ApplyMergeOperation, At
        <5>2. Same(q) BY <1>2, <5>1
        <5>3. ~Inserted(q)' /\ d \in open'[q]
          BY <3>10, <4>1, <5>2 DEF Inserted, Same, Blocks
        <5> QED BY <5>3 DEF Blocks
      <4>2. CASE Inserted(q)
        <5>1. step[q] = "publish" /\ Doubled(old, d, KeysOf(Payload(q)), Heads)
          BY <3>10, <4>2 DEF Inserted, Blocks
        <5>2. KeysOf(Payload(q)) \in SnapshotsOf(d)
          <6>1. PublishState(q) BY <1>1, <5>1, StageFacts DEF RunStage
          <6>2. /\ loc[q].day \in DOMAIN staged[q].parts /\ open[q] \subseteq {loc[q].day}
            BY <1>1, <4>2, <6>1 DEF Inserted, PublishState, Scope
          <6>3. d \in DOMAIN staged[q].parts BY <3>10, <6>2 DEF Blocks
          <6> QED BY <1>1, <5>1, <6>3, PayloadForm
        <5>3. CASE KeysOf(P) \subseteq KeysOf(Payload(q))
          <6>1. Doubled(old, d, KeysOf(P), Heads)
            BY <5>1, <5>3 DEF Doubled
          <6>2. Doubled(new, d, KeysOf(P), Heads)
            BY <3>7, <6>1
          <6>3. Blocks(r, d)'
            BY <1>5, <1>9, <1>10, <6>2 DEF Blocks, KeysOf
          <6> QED BY <6>3
        <5>4. CASE KeysOf(Payload(q)) \subseteq KeysOf(P) /\ q # r
          <6>1. Doubled(new, d, KeysOf(Payload(q)), Heads)
            BY <3>7, <5>1, <5>4
          <6>2. Same(q) /\ Payload(q)' = Payload(q)
            BY <1>2, <5>4 DEF Same, Payload
          <6>3. Blocks(q, d)'
            BY <1>9, <3>10, <6>1, <6>2 DEF Blocks, Same, KeysOf
          <6> QED BY <6>3
        <5> QED BY <3>6, <5>2, <5>3, <5>4
      <4> QED BY <4>1, <4>2
    <3> QED BY <1>4, <3>5, <3>8, <3>9, <3>10, DayFacts
  <2> QED BY <1>3, <2>3, <2>4, <2>5
<1> QED BY <1>0, <1>8, <1>10, MergeFacts

LEMMA StepDay ==
    ASSUME VaultInv, StageInv, DayInv, NEW r \in Runs, StepOf(r)
    PROVE  DayInv'
<1>1. CASE Promoting
  BY <1>1, QuietDay, VerifyDay, MergeDay
<1>2. CASE ~Promoting
  <2>1. cfg' = cfg BY StepFrame DEF VaultInv, Framed
  <2> QED BY <1>2, <2>1 DEF DayInv, Promoting, Isolated
<1> QED BY <1>1, <1>2

LEMMA StillDay ==
    ASSUME DayInv, cfg' = cfg, days' = days, tables' = tables, pc' = pc, loc' = loc,
           reported' = reported, open' = open,
           \A q \in Runs : step'[q] = step[q] \/ step'[q] = "cleaned"
    PROVE  DayInv'
<1> SUFFICES ASSUME Promoting PROVE DayInv'
  BY DEF DayInv, Promoting, Isolated
<1>1. Production' = Production BY DEF Production
<1>2. ReportsStay BY DEF ReportsStay, Payload
<1>3. \A d : WholeDay(d) => WholeDay(d)'
  BY <1>1, <1>2, DayStays, SameDayTwice
<1>4. \A q \in Runs : Inserted(q)' => Inserted(q)
  BY DEF Inserted
<1>5. \A q \in Runs, d \in Days : Blocks(q, d) => Blocks(q, d)'
  <2>1. \A q \in Runs : KeysOf(Payload(q))' = KeysOf(Payload(q))
    BY DEF KeysOf, Payload
  <2>2. Heads' = Heads BY DEF Heads
  <2>3. ASSUME NEW q \in Runs, NEW d \in Days, Blocks(q, d) PROVE Blocks(q, d)'
    <3>1. Inserted(q)' => Doubled(Production', d, KeysOf(Payload(q)), Heads)
      BY <1>1, <1>4, <2>3 DEF Blocks
    <3> QED BY <2>1, <2>2, <2>3, <3>1 DEF Blocks, KeysOf, Payload
  <2> QED BY <2>3
<1>6. \A q \in Runs : MergeState(q)'
  BY DayFacts DEF MergeState
<1> QED BY <1>1, <1>2, <1>3, <1>5, <1>6, DayFacts, DayGoal

\* What production held before is one record for every day.
LEMMA InitDay == Init => DayInv
<1> SUFFICES ASSUME Init, Promoting
             PROVE  /\ IsTable(Production) /\ \A r \in Runs : MergeState(r)
                    /\ \A d \in Days : Headed(Production, d, Heads)
                    /\ \A d \in Days : WholeDay(d)
  BY DEF DayInv, DayState
<1>1. Production = [x \in PreLoaded |-> 1]
  BY DEF Init, Promoting, Isolated, Production, SetToBag
<1>2. \A d \in Days : OnDay(Production, d) = {<<Old, d, 1, "live">>}
  BY <1>1 DEF PreLoaded, OnDay, BagToSet, DayOf
<1>3. IsTable(Production)
  BY <1>1, LoadAssumption DEF IsTable, PreLoaded, AllRows, Owners
<1>4. \A r \in Runs : MergeState(r)
  BY DEF Init, MergeState
<1>5. \A d \in Days : Headed(Production, d, Heads)
  <2>1. 1 \in Heads BY LoadAssumption DEF Heads
  <2> QED BY <1>2, <2>1 DEF Headed, Live, KeyOf
<1>6. ASSUME NEW d \in Days PROVE WholeDay(d)
  <2>1. Records(OnDay(Production, d)) = {<<Old, d, 1>>}
    <3>1. /\ OwnerOf(<<Old, d, 1, "live">>) = Old /\ DayOf(<<Old, d, 1, "live">>) = d
          /\ KeyOf(<<Old, d, 1, "live">>) = 1
      BY DEF OwnerOf, DayOf, KeyOf
    <3> QED BY <1>2, <3>1 DEF Records
  <2>2. Complete(d)
    BY <2>1 DEF Complete, Production
  <2>3. Distinct(Production, d)
    <3>1. <<Old, d, 1, "live">> \in PreLoaded
      BY DEF PreLoaded
    <3>2. Production[<<Old, d, 1, "live">>] = 1
      BY <1>1, <3>1
    <3> QED BY <1>2, <3>2 DEF Distinct
  <2> QED BY <1>2, <2>2, <2>3 DEF WholeDay, Live
<1> QED BY <1>3, <1>4, <1>5, <1>6

\* The inductive invariant of promotions that interleave.
LEMMA DayInductive == Spec => []DayInv
<1>1. VaultInv /\ StageInv /\ DayInv /\ [Next]_vars => DayInv'
  <2> SUFFICES ASSUME VaultInv, StageInv, DayInv, [Next]_vars PROVE DayInv'
    OBVIOUS
  <2>1. ASSUME NEW r \in Runs, StepOf(r) PROVE DayInv'
    BY <2>1, StepDay
  <2>2. ASSUME NEW r \in Runs, CleanupTask(r) PROVE DayInv'
    <3>1. /\ cfg' = cfg /\ days' = days /\ tables' = tables /\ pc' = pc /\ loc' = loc
          /\ reported' = reported /\ open' = open
      BY <2>2 DEF CleanupTask, DbUnchanged
    <3>2. \A q \in Runs : step'[q] = step[q] \/ step'[q] = "cleaned"
      BY <2>2 DEF CleanupTask, VaultInv, Shape
    <3> QED BY <3>1, <3>2, StillDay
  <2>3. CASE UNCHANGED vars
    <3>1. /\ cfg' = cfg /\ days' = days /\ tables' = tables /\ pc' = pc /\ loc' = loc
          /\ reported' = reported /\ open' = open /\ step' = step
      BY <2>3 DEF vars, run
    <3> QED BY <3>1, StillDay
  <2> QED BY <2>1, <2>2, <2>3 DEF Next, StepOf
<1> QED BY <1>1, InitDay, StageInductive, PTL DEF Spec

LEMMA DistinctRecords ==
    ASSUME NEW bag, IsTable(bag), NEW d, Distinct(bag, d)
    PROVE  Cardinality(Records(OnDay(bag, d))) = Cardinality(OnDay(bag, d))
<1> DEFINE rows == OnDay(bag, d)
           f == [x \in rows |-> RecordOf(x)]
<1>1. IsFiniteSet(rows)
  <2>1. rows \subseteq AllRows BY DEF OnDay, BagToSet, IsTable
  <2> QED BY <2>1, AllRowsFinite, FS_Subset
<1>2. f \in [rows -> Records(rows)]
  BY DEF Records, RecordOf
<1>3. f \in Surjection(rows, Records(rows))
  BY <1>2 DEF Surjection, Records, RecordOf
<1>4. f \in Injection(rows, Records(rows))
  BY <1>2 DEF Injection, IsInjective, Distinct
<1> HIDE DEF rows, f
<1>5. Cardinality(Records(rows)) = Cardinality(rows)
  BY <1>1, <1>3, <1>4, FS_Surjection
<1> QED BY <1>5 DEF rows

\* A day of a snapshot whose changes have all been confirmed holds the records
\* of one load, each of them once, for any number of runs that promote at the
\* same time, fail and start again (with soft deletes: if the snapshots of the
\* day are comparable).  The statements of promote() are no transaction, but a
\* day that two promotions filled holds a live row beside those the run has
\* inserted, so that the count of _verify_promotion is wrong for each of them
\* until a run deletes the day again.
THEOREM ConfirmedDaysAreWhole == Spec => []ConfirmedDayWhole
<1>1. DayInv => ConfirmedDayWhole
  <2> SUFFICES ASSUME DayInv, Promoting,
                      NEW d \in Days, \A r \in Runs : d \notin open[r], Steady(d)
               PROVE  /\ Complete(d)
                      /\ \A x \in OnDay(Production, d) : Production[x] = 1
                      /\ Cardinality(Records(OnDay(Production, d)))
                            = Cardinality(OnDay(Production, d))
                      /\ cfg.soft \/ \A x \in OnDay(Production, d) : Live(x)
    BY DEF ConfirmedDayWhole, Promoting, Production, Steady
  <2>1. IsTable(Production) /\ WholeDay(d)
    BY DayFacts DEF Blocks
  <2> QED BY <2>1, DistinctRecords DEF WholeDay, Distinct
<1> QED BY <1>1, DayInductive, PTL
=============================================================================
