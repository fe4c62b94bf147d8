------------------------- MODULE DaemonEngineProofs -------------------------
(***************************************************************************)
(* Proofs about module DaemonEngine, for any set of runs, any commands and *)
(* any bounds: an idle engine sleeps over no run that was announced, and   *)
(* every command runs at most once and never after it was lost.            *)
(*                                                                         *)
(* The first rests on where the engine may be while an announced run is    *)
(* unseen and the flag is down (WakeupPending), the second on who holds a  *)
(* command: a file, the batch of the engine, or (between the reading and   *)
(* the deletion of the file) both, and then the file has the name that is  *)
(* about to be deleted.                                                    *)
(***************************************************************************)
EXTENDS DaemonEngine, TLAPS

-----------------------------------------------------------------------------
(* The inductive invariants *)

\* The types the two arguments need.
Labels ==
    {"top", "wait", "event", "timed out", "clear", "commands", "unlink", "handlers", "signals", "sync", "sync done",
     "submit", "dead", "idle", "act", "enqueue", "notify"}

PcType == pc \in [Threads -> Labels]

Command == [id : Ids, kind : Kinds, full : BOOLEAN, left : Nat]

CommandType ==
    /\ cmds \subseteq Command /\ batch \in Seq(Command)
    /\ handled \in [Ids -> Nat] /\ swallowed \subseteq Ids

BudgetType == polls \in Nat /\ events \in 0..MaxEvents

\* The labels between the reset of the flag and the submit of the same pass.
BeforeSubmit ==
    {"clear", "commands", "unlink", "handlers", "signals", "sync", "sync done", "submit"}

\* An announced run that no submit has seen finds the flag up, or the engine on
\* its way to a submit or with active tasks, or a pass that broke off.
WakeupPending ==
    /\ unseen # {} => event \/ raised \/ running # {} \/ pc["engine"] \in BeforeSubmit
    /\ pc["engine"] \in {"event", "timed out"} => running # {}

\* Command ids count down, so a command that is not yet written has left no trace.
FreshIds ==
    /\ \A c \in cmds : c.id > events
    /\ \A i \in DOMAIN batch : batch[i].id > events
    /\ \A c \in Ids : c <= events => handled[c] = 0 /\ c \notin swallowed

\* Two files, or two entries of the batch, are two commands.
DistinctIds ==
    /\ \A c, d \in cmds : c.id = d.id => c = d
    /\ \A i, j \in DOMAIN batch : batch[i].id = batch[j].id => i = j

\* A command that is both a file and in the batch was read last, and its file
\* has the name that is deleted next.
ReadNotUnlinked ==
    \A c \in cmds : \A i \in DOMAIN batch :
        c.id = batch[i].id =>
            /\ pc["engine"] = "unlink"
            /\ i = Len(batch)
            /\ NameOf(c.kind) = Head(listing)

\* The last command read is the one whose file is deleted.
UnlinkHasRead == pc["engine"] = "unlink" => batch # << >>

\* What is still to be handled has neither been handled nor lost.
Outstanding ==
    /\ \A c \in cmds : handled[c.id] = 0 /\ c.id \notin swallowed
    /\ \A i \in DOMAIN batch : handled[batch[i].id] = 0 /\ batch[i].id \notin swallowed

CommandInv ==
    /\ CommandType /\ BudgetType /\ FreshIds /\ DistinctIds /\ ReadNotUnlinked /\ UnlinkHasRead
    /\ Outstanding /\ CommandsRunOnce

-----------------------------------------------------------------------------
(* Types *)

LEMMA PcTypeHolds == Spec => []PcType
  <1> USE DEF PcType, Threads, Labels, Goto, Begin
  <1>1. Init => PcType
    BY DEF Init
  <1>2. PcType /\ [Next]_vars => PcType'
    <2> SUFFICES ASSUME PcType, [Next]_vars PROVE PcType'
      OBVIOUS
    <2>1. CASE EngineThread
      BY <2>1 DEF EngineThread, TopOfLoop, Wake, NothingReady, EventComes,
            EventTimesOut, ClearTimedOut, ClearEvent, ReadCommand,
            UnlinkCommand, EndOfListing, HandleStop, HandlerRaises, EndCommands, ScanForeign,
            HandleSignal, EndSignals, Dispatch, ScanSignal, Conclude
    <2>2. CASE PollThread
      BY <2>2 DEF PollThread, Refresh, StartJob, Enqueue, Notify, Evict, EndPoll
    <2>3. CASE CommandLine
      BY <2>3 DEF CommandLine, CreateCommand, FillCommand
    <2>4. CASE Workers \/ DeadlinePasses \/ Restart
      BY <2>4 DEF Workers, WorkerReturns, DeadlinePasses, Restart
    <2> QED
      BY <2>1, <2>2, <2>3, <2>4 DEF Next, vars
  <1> QED
    BY <1>1, <1>2, PTL DEF Spec

-----------------------------------------------------------------------------
(* Wake-ups *)

\* Every announced run that no submit has seen yet has the flag up, the engine on
\* its way to a submit or with active tasks, or a broken-off pass to account for
\* it: what a notify of Orchestrator.start_job relies on.
LEMMA WakeupStaysPending == Spec => []WakeupPending
  <1> USE DEF WakeupPending, BeforeSubmit, PcType, Threads, taskVars
  <1>1. Init => WakeupPending
    BY DEF Init, Begin
  <1>2. PcType /\ WakeupPending /\ [Next]_vars => WakeupPending'
    <2> SUFFICES ASSUME PcType, WakeupPending, [Next]_vars PROVE WakeupPending'
      OBVIOUS
    <2>1. CASE EngineThread
      <3>1. CASE TopOfLoop BY <3>1 DEF TopOfLoop, Goto, engineVars
      <3>2. CASE Wake BY <3>2 DEF Wake, Goto, engineVars
      <3>3. CASE NothingReady BY <3>3 DEF NothingReady, Goto, engineVars
      <3>17. CASE EventComes \/ EventTimesOut
        BY <3>17 DEF EventComes, EventTimesOut, Goto, engineVars
      <3>18. CASE ClearTimedOut BY <3>18 DEF ClearTimedOut, Goto, engineVars
      <3>4. CASE ClearEvent BY <3>4 DEF ClearEvent, Goto
      <3>5. CASE ReadCommand BY <3>5 DEF ReadCommand, Goto
      <3>6. CASE UnlinkCommand BY <3>6 DEF UnlinkCommand, Goto
      <3>7. CASE EndOfListing BY <3>7 DEF EndOfListing, Goto, engineVars
      <3>8. CASE HandleStop BY <3>8 DEF HandleStop, Goto
      <3>9. CASE HandlerRaises BY <3>9 DEF HandlerRaises, Goto
      <3>10. CASE EndCommands BY <3>10 DEF EndCommands, Goto
      <3>11. CASE ScanForeign BY <3>11 DEF ScanForeign, engineVars
      <3>12. CASE HandleSignal BY <3>12 DEF HandleSignal, Goto
      <3>13. CASE EndSignals BY <3>13 DEF EndSignals, Goto, engineVars
      <3>14. CASE Dispatch BY <3>14 DEF Dispatch, Goto
      <3>15. ASSUME NEW r \in Runs, NEW ext \in {"sync", "done", "fail"}, ScanSignal(r, ext)
             PROVE  WakeupPending'
        BY <3>15 DEF ScanSignal, Goto, engineVars
      <3>16. ASSUME NEW r \in Runs, NEW status \in {"SUCCESS", "FAILED", "RETRY"}, Conclude(r, status)
             PROVE  WakeupPending'
        BY <3>16 DEF Conclude, engineVars
      <3> QED
        BY <2>1, <3>1, <3>2, <3>3, <3>4, <3>5, <3>6, <3>7, <3>8, <3>9, <3>10, <3>11, <3>12,
           <3>13, <3>14, <3>15, <3>16, <3>17, <3>18 DEF EngineThread
    <2>2. CASE PollThread
      <3>1. CASE Refresh BY <3>1 DEF Refresh, Goto, engineVars
      <3>2. CASE Enqueue BY <3>2 DEF Enqueue, Goto, engineVars
      <3>3. CASE Notify BY <3>3 DEF Notify, Goto
      <3>4. CASE EndPoll BY <3>4 DEF EndPoll, Goto, engineVars
      <3>5. ASSUME NEW r \in Runs, StartJob(r) \/ Evict(r) PROVE WakeupPending'
        BY <3>5 DEF StartJob, Evict, Goto, engineVars
      <3> QED BY <2>2, <3>1, <3>2, <3>3, <3>4, <3>5 DEF PollThread
    <2>3. CASE CommandLine
      BY <2>3 DEF CommandLine, CreateCommand, FillCommand, engineVars
    <2>4. ASSUME NEW r \in Runs, WorkerReturns(r) PROVE WakeupPending'
      BY <2>4 DEF WorkerReturns, engineVars
    <2>5. CASE DeadlinePasses
      BY <2>5 DEF DeadlinePasses, engineVars
    <2>6. CASE Restart
      BY <2>6 DEF Restart, Begin
    <2>7. CASE UNCHANGED vars
      BY <2>7 DEF vars, engineVars
    <2> QED
      BY <2>1, <2>2, <2>3, <2>4, <2>5, <2>6, <2>7 DEF Next, Workers
  <1> QED
    BY <1>1, <1>2, PcTypeHolds, PTL DEF Spec

\* An engine without active tasks that sleeps with its flag down has submitted
\* after every run that Orchestrator.start_job announced, whatever EventBus.wait
\* erases after its return, unless a command handler broke off its pass.
THEOREM WakeupsAreNotLost == Spec => []NoLostWakeup
  <1>1. WakeupPending => NoLostWakeup
    BY DEF WakeupPending, NoLostWakeup, BeforeSubmit
  <1> QED
    BY <1>1, WakeupStaysPending, PTL

-----------------------------------------------------------------------------
(* Commands *)

\* The budget of events only shrinks, and with it the ids still to be given.
LEMMA BudgetShrinks ==
    ASSUME BudgetType, [Next]_vars
    PROVE  BudgetType' /\ events' <= events
  <1> USE EngineAssumption DEF BudgetType, budget
  <1>1. CASE EngineThread
    <2>1. ASSUME NEW r \in Runs, NEW status \in {"SUCCESS", "FAILED", "RETRY"}, Conclude(r, status)
          PROVE  SpendEvent \/ UNCHANGED budget
      BY <2>1 DEF Conclude
    <2>2. SpendEvent \/ UNCHANGED budget
      BY <1>1, <2>1 DEF EngineThread, TopOfLoop, Wake, NothingReady, EventComes,
            EventTimesOut, ClearTimedOut, ClearEvent, ReadCommand,
            UnlinkCommand, EndOfListing, HandleStop, HandlerRaises, EndCommands, ScanForeign,
            HandleSignal, EndSignals, Dispatch, ScanSignal
    <2> QED
      BY <2>2 DEF SpendEvent
  <1>2. CASE PollThread
    <2>1. SpendPoll \/ UNCHANGED budget
      BY <1>2 DEF PollThread, Refresh, StartJob, Enqueue, Notify, Evict, EndPoll
    <2> QED
      BY <2>1 DEF SpendPoll
  <1>3. CASE CommandLine
    <2>1. SpendEvent \/ UNCHANGED budget
      BY <1>3 DEF CommandLine, CreateCommand, FillCommand
    <2> QED
      BY <2>1 DEF SpendEvent
  <1>4. CASE Workers \/ DeadlinePasses \/ Restart
    BY <1>4 DEF Workers, WorkerReturns, DeadlinePasses, Restart, SpendEvent
  <1> QED
    BY <1>1, <1>2, <1>3, <1>4 DEF Next, vars

\* What the entries of the folder and of the batch are.
LEMMA CommandIds ==
    ASSUME CommandType
    PROVE  /\ \A c \in cmds : c \in Command /\ c.id \in Ids
           /\ \A i \in DOMAIN batch : batch[i] \in Command /\ batch[i].id \in Ids
           /\ DOMAIN batch = 1..Len(batch) /\ Len(batch) \in Nat
  <1>1. \A c \in Command : c.id \in Ids
    BY DEF Command
  <1>2. \A i \in DOMAIN batch : batch[i] \in Command
    BY DEF CommandType
  <1>3. DOMAIN batch = 1..Len(batch) /\ Len(batch) \in Nat
    BY DEF CommandType
  <1> QED
    BY <1>1, <1>2, <1>3 DEF CommandType

\* A step that leaves files, batch and history alone, and neither enters nor
\* leaves the deletion of a file, preserves the invariant.
LEMMA CommandsUntouched ==
    ASSUME CommandInv, BudgetType', events' <= events,
           UNCHANGED <<cmds, swallowed, batch, handled>>,
           pc'["engine"] = "unlink" <=> pc["engine"] = "unlink",
           pc["engine"] = "unlink" => listing' = listing
    PROVE  CommandInv'
  <1> USE DEF CommandInv
  <1>1. CommandType' /\ CommandsRunOnce' /\ DistinctIds' /\ Outstanding'
    BY DEF CommandType, CommandsRunOnce, DistinctIds, Outstanding
  <1>2. FreshIds'
    BY CommandIds, EngineAssumption DEF FreshIds, BudgetType, Ids
  <1>3. ReadNotUnlinked' /\ UnlinkHasRead'
    BY DEF ReadNotUnlinked, UnlinkHasRead
  <1> QED
    BY <1>1, <1>2, <1>3

\* Files are deleted: those commands are lost unless the batch holds them, and no
\* file that is left is in the batch, unless the engine is still about to delete it.
LEMMA FilesDeleted ==
    ASSUME CommandInv, BudgetType', events' <= events, UNCHANGED <<batch, handled>>,
           NEW gone \in SUBSET cmds, cmds' = cmds \ gone,
           swallowed' = swallowed \cup (IdsOf(gone) \ BatchIds),
           pc'["engine"] # "unlink",
           \A c \in cmds \ gone : c.id \notin BatchIds
    PROVE  CommandInv'
  <1> USE DEF CommandInv
  <1> USE CommandIds
  <1>1. CommandType'
    BY DEF CommandType, IdsOf
  <1>2. DistinctIds'
    BY DEF DistinctIds
  <1>3. FreshIds'
    BY EngineAssumption DEF FreshIds, BudgetType, Ids, IdsOf
  <1>4. ReadNotUnlinked' /\ UnlinkHasRead'
    BY DEF ReadNotUnlinked, UnlinkHasRead, BatchIds
  <1>5. Outstanding'
    <2>1. \A c \in cmds' : c.id \notin IdsOf(gone)
      BY DEF DistinctIds, IdsOf
    <2>2. \A i \in DOMAIN batch : batch[i].id \in BatchIds
      BY DEF BatchIds
    <2> QED
      BY <2>1, <2>2 DEF Outstanding
  <1>6. CommandsRunOnce'
    BY DEF CommandsRunOnce, Outstanding, IdsOf, CommandType
  <1> QED
    BY <1>1, <1>2, <1>3, <1>4, <1>5, <1>6

\* _write_signal_file creates or truncates a file.
LEMMA CreateCommandKeeps ==
    ASSUME CommandInv, BudgetType', NEW kind \in Kinds, CreateCommand(kind)
    PROVE  CommandInv'
  <1> DEFINE new == [id |-> events, kind |-> kind, full |-> kind # "STOP_force",
                     left |-> 2 * events]
             truncated == {c \in cmds : IsStop(kind) /\ IsStop(c.kind)}
             lost == IdsOf(truncated) \ BatchIds
  <1> USE DEF CommandInv
  <1> USE CommandIds
  <1>1. /\ events \in Ids /\ events' = events - 1
        /\ cmds' = (cmds \ truncated) \cup {new}
        /\ swallowed' = swallowed \cup lost
        /\ UNCHANGED <<batch, handled, listing, pc>>
    BY EngineAssumption DEF CreateCommand, SpendEvent, BudgetType, Ids, engineVars
  <1>2. new \in Command /\ new.id = events
    BY <1>1, EngineAssumption DEF Command, BudgetType, Ids
  <1>3. /\ \A c \in cmds \ truncated : c.id \notin IdsOf(truncated)
        /\ \A x \in lost : \E c \in cmds : x = c.id
        /\ \A x \in lost : x \in Ids /\ x > events /\ x \notin BatchIds
    BY <1>1 DEF DistinctIds, IdsOf, FreshIds
  <1>4. \A i \in DOMAIN batch : batch[i].id \in BatchIds /\ batch[i].id # events
    BY EngineAssumption DEF BatchIds, FreshIds, BudgetType, Ids
  <1>5. \A c \in cmds : c.id # events
    BY EngineAssumption DEF FreshIds, BudgetType, Ids
  <1> HIDE DEF new, truncated, lost
  <1>6. CommandType'
    BY <1>1, <1>2, <1>3 DEF CommandType
  <1>7. DistinctIds'
    BY <1>1, <1>2, <1>5 DEF DistinctIds
  <1>8. FreshIds'
    <2>1. \A c \in cmds' : c.id > events'
      BY <1>1, <1>2, EngineAssumption DEF FreshIds, BudgetType, Ids
    <2>2. \A i \in DOMAIN batch' : batch'[i].id > events'
      BY <1>1, EngineAssumption DEF FreshIds, BudgetType, Ids
    <2>3. \A c \in Ids : c <= events' => handled'[c] = 0 /\ c \notin swallowed'
      BY <1>1, <1>3, EngineAssumption DEF FreshIds, BudgetType, Ids
    <2> QED
      BY <2>1, <2>2, <2>3 DEF FreshIds
  <1>9. ReadNotUnlinked' /\ UnlinkHasRead'
    BY <1>1, <1>2, <1>4 DEF ReadNotUnlinked, UnlinkHasRead
  <1>10. Outstanding'
    <2>1. handled[events] = 0 /\ events \notin swallowed /\ events \notin lost
      BY <1>1, <1>3, EngineAssumption DEF FreshIds, BudgetType, Ids
    <2>2. \A c \in cmds \ truncated : c.id \notin lost
      BY <1>3 DEF lost
    <2> QED
      BY <1>1, <1>2, <1>3, <1>4, <2>1, <2>2 DEF Outstanding
  <1>11. CommandsRunOnce'
    BY <1>1, <1>3 DEF CommandsRunOnce, Outstanding, CommandType
  <1> QED
    BY <1>6, <1>7, <1>8, <1>9, <1>10, <1>11

\* _write_signal_file writes the content.
LEMMA FillCommandKeeps ==
    ASSUME CommandInv, BudgetType', NEW c \in cmds, FillCommand(c)
    PROVE  CommandInv'
  <1> DEFINE d == [id |-> c.id, kind |-> c.kind, full |-> TRUE, left |-> 2 * events + 1]
  <1> USE DEF CommandInv
  <1> USE CommandIds
  <1>1. /\ cmds' = (cmds \ {c}) \cup {d}
        /\ UNCHANGED <<batch, handled, listing, pc, swallowed, events>>
    BY DEF FillCommand, budget, engineVars
  <1>2. d \in Command /\ d.id = c.id /\ d.kind = c.kind
    BY EngineAssumption DEF Command, BudgetType, Ids
  <1> HIDE DEF d
  <1>3. CommandType' /\ CommandsRunOnce'
    BY <1>1, <1>2 DEF CommandType, CommandsRunOnce
  <1>4. DistinctIds'
    BY <1>1, <1>2 DEF DistinctIds
  <1>5. FreshIds' /\ Outstanding'
    BY <1>1, <1>2 DEF FreshIds, Outstanding
  <1>6. ReadNotUnlinked' /\ UnlinkHasRead'
    BY <1>1, <1>2 DEF ReadNotUnlinked, UnlinkHasRead
  <1> QED
    BY <1>3, <1>4, <1>5, <1>6

\* process_commands reads a file, or deletes one without a handler.
LEMMA ReadCommandKeeps ==
    ASSUME CommandInv, BudgetType', PcType, ReadCommand
    PROVE  CommandInv'
  <1> USE DEF CommandInv
  <1> USE CommandIds
  <1>1. PICK c \in cmds :
            /\ NameOf(c.kind) = Head(listing)
            /\ \/ /\ batch' = Append(batch, c) /\ Goto("engine", "unlink")
                  /\ UNCHANGED <<cmds, swallowed, listing>>
               \/ /\ cmds' = cmds \ {c} /\ swallowed' = swallowed \cup {c.id}
                  /\ UNCHANGED <<batch, pc>>
    BY DEF ReadCommand, cliVars
  <1>2. pc["engine"] = "commands" /\ UNCHANGED <<handled, events>>
    BY DEF ReadCommand, budget
  <1>3. \A f \in cmds : f.id \notin BatchIds
    BY <1>2 DEF ReadNotUnlinked, BatchIds
  <1>4. CASE UNCHANGED <<batch, pc>> /\ cmds' = cmds \ {c} /\ swallowed' = swallowed \cup {c.id}
    <2>1. IdsOf({c}) \ BatchIds = {c.id}
      BY <1>3 DEF IdsOf
    <2> QED
      BY <1>2, <1>3, <1>4, <2>1, FilesDeleted DEF BudgetType, Ids
  <1>5. CASE /\ batch' = Append(batch, c) /\ Goto("engine", "unlink")
             /\ UNCHANGED <<cmds, swallowed, listing>>
    <2>1. /\ batch' \in Seq(Command) /\ Len(batch') = Len(batch) + 1
          /\ \A i \in 1..Len(batch) : batch'[i] = batch[i]
          /\ batch'[Len(batch')] = c
      BY <1>5 DEF CommandType
    <2>2. pc'["engine"] = "unlink"
      BY <1>5 DEF Goto, PcType, Threads
    <2>3. DOMAIN batch' = 1..Len(batch')
      BY <2>1
    <2>4. \A i \in 1..Len(batch) : batch[i].id # c.id
      BY <1>3 DEF BatchIds
    <2>5. \A i \in DOMAIN batch' : i \in 1..Len(batch) \/ i = Len(batch')
      BY <2>1, <2>3
    <2>6. CommandType' /\ CommandsRunOnce'
      BY <1>2, <1>5, <2>1 DEF CommandType, CommandsRunOnce
    <2>7. DistinctIds'
      BY <1>5, <2>1, <2>3, <2>4, <2>5 DEF DistinctIds
    <2>8. FreshIds' /\ Outstanding'
      BY <1>2, <1>5, <2>1, <2>5 DEF FreshIds, Outstanding
    <2>9. ReadNotUnlinked'
      <3> SUFFICES ASSUME NEW f \in cmds', NEW i \in DOMAIN batch', f.id = batch'[i].id
                   PROVE  i = Len(batch') /\ NameOf(f.kind) = Head(listing)
        BY <1>5, <2>2 DEF ReadNotUnlinked
      <3>1. i = Len(batch')
        BY <1>3, <1>5, <2>1, <2>5 DEF BatchIds
      <3>2. f = c
        BY <3>1, <1>5, <2>1 DEF DistinctIds
      <3> QED
        BY <1>1, <3>1, <3>2
    <2>10. UnlinkHasRead'
      BY <2>1 DEF UnlinkHasRead
    <2> QED
      BY <2>6, <2>7, <2>8, <2>9, <2>10
  <1> QED
    BY <1>1, <1>4, <1>5

\* process_commands deletes the file it has read, whatever it holds by then.
LEMMA UnlinkCommandKeeps ==
    ASSUME CommandInv, BudgetType', PcType, UnlinkCommand
    PROVE  CommandInv'
  <1> DEFINE gone == {c \in cmds : NameOf(c.kind) = Head(listing)}
  <1> USE DEF CommandInv
  <1> USE CommandIds
  <1>1. /\ pc["engine"] = "unlink" /\ pc'["engine"] = "commands"
        /\ cmds' = cmds \ gone
        /\ swallowed' = swallowed \cup (IdsOf(gone) \ {Last(batch).id})
        /\ UNCHANGED <<batch, handled, events>>
    BY DEF UnlinkCommand, Goto, PcType, Threads, budget
  <1>2. Len(batch) \in DOMAIN batch /\ Last(batch) = batch[Len(batch)]
    BY <1>1 DEF UnlinkHasRead, CommandType, Last
  <1>3. IdsOf(gone) \ {Last(batch).id} = IdsOf(gone) \ BatchIds
    <2>1. Last(batch).id \in BatchIds
      BY <1>2 DEF BatchIds
    <2>2. \A c \in gone : c.id \in BatchIds => c.id = Last(batch).id
      BY <1>2 DEF BatchIds, ReadNotUnlinked
    <2> QED
      BY <2>1, <2>2 DEF IdsOf
  <1>4. \A c \in cmds \ gone : c.id \notin BatchIds
    BY DEF ReadNotUnlinked, BatchIds
  <1> HIDE DEF gone
  <1> QED
    <2>1. gone \in SUBSET cmds
      BY DEF gone
    <2>2. events' <= events
      BY <1>1, EngineAssumption DEF BudgetType
    <2>3. swallowed' = swallowed \cup (IdsOf(gone) \ BatchIds)
      BY <1>1, <1>3, Zenon
    <2>4. UNCHANGED <<batch, handled>> /\ cmds' = cmds \ gone /\ pc'["engine"] # "unlink"
      BY <1>1
    <2> QED
      BY <1>4, <2>1, <2>2, <2>3, <2>4, FilesDeleted

\* SignalScanner.dispatch deletes a file it does not know.
LEMMA ScanForeignKeeps ==
    ASSUME CommandInv, BudgetType', ScanForeign
    PROVE  CommandInv'
  <1> USE DEF CommandInv
  <1> USE CommandIds
  <1>1. PICK c \in cmds : cmds' = cmds \ {c} /\ swallowed' = swallowed \cup {c.id}
    BY DEF ScanForeign
  <1>2. pc["engine"] = "signals" /\ UNCHANGED <<batch, handled, pc, events>>
    BY DEF ScanForeign, budget, engineVars
  <1>3. \A f \in cmds : f.id \notin BatchIds
    BY <1>2 DEF ReadNotUnlinked, BatchIds
  <1>4. IdsOf({c}) \ BatchIds = {c.id}
    BY <1>3 DEF IdsOf
  <1> QED
    BY <1>1, <1>2, <1>3, <1>4, FilesDeleted DEF BudgetType, Ids

\* _handle_stop runs the first command of the batch.
LEMMA HandleStopKeeps ==
    ASSUME CommandInv, BudgetType', HandleStop
    PROVE  CommandInv'
  <1> DEFINE c == batch[1].id
  <1> USE DEF CommandInv
  <1> USE CommandIds
  <1>1. /\ pc["engine"] = "handlers" /\ batch # << >>
        /\ handled' = [handled EXCEPT ![Head(batch).id] = @ + 1]
        /\ batch' = Tail(batch)
        /\ UNCHANGED <<cmds, swallowed, pc, events>>
    BY DEF HandleStop, cliVars, budget
  <1>2. /\ Head(batch) = batch[1] /\ 1 \in DOMAIN batch
        /\ Len(batch') = Len(batch) - 1 /\ batch' \in Seq(Command)
        /\ \A i \in 1..Len(batch') : batch'[i] = batch[i + 1] /\ i + 1 \in DOMAIN batch
    BY <1>1 DEF CommandType
  <1>3. DOMAIN batch' = 1..Len(batch')
    BY <1>2
  <1>4. c \in Ids /\ c \notin swallowed /\ handled[c] = 0
    BY <1>2 DEF Outstanding
  <1>5. \A i \in DOMAIN batch' : batch'[i].id # c
    <2> SUFFICES ASSUME NEW i \in DOMAIN batch' PROVE batch'[i].id # c
      OBVIOUS
    <2>1. i \in Nat /\ i >= 1 /\ batch'[i] = batch[i + 1] /\ i + 1 \in DOMAIN batch
      BY <1>2, <1>3
    <2>2. batch[i + 1].id = batch[1].id => i + 1 = 1
      BY <1>2, <2>1 DEF DistinctIds
    <2> QED
      BY <2>1, <2>2
  <1>6. \A f \in cmds : f.id # c
    BY <1>1, <1>2 DEF ReadNotUnlinked
  <1>7. /\ handled'[c] = 1 /\ handled' \in [Ids -> Nat]
        /\ \A x \in Ids : x # c => handled'[x] = handled[x]
    BY <1>1, <1>2, <1>4 DEF CommandType
  <1>8. c > events
    BY <1>2 DEF FreshIds
  <1> HIDE DEF c
  <1>9. CommandType'
    BY <1>1, <1>2, <1>7 DEF CommandType
  <1>10. DistinctIds'
    BY <1>1, <1>2, <1>3 DEF DistinctIds
  <1>11. FreshIds'
    <2>1. \A i \in DOMAIN batch' : batch'[i].id > events'
      BY <1>1, <1>2, <1>3 DEF FreshIds
    <2>2. \A x \in Ids : x <= events => x # c
      BY <1>4, <1>8, EngineAssumption DEF BudgetType, Ids
    <2> QED
      BY <1>1, <1>7, <2>1, <2>2 DEF FreshIds
  <1>12. Outstanding'
    <2>1. \A i \in DOMAIN batch' : handled'[batch'[i].id] = 0 /\ batch'[i].id \notin swallowed'
      BY <1>1, <1>2, <1>3, <1>5, <1>7 DEF Outstanding
    <2> QED
      BY <1>1, <1>6, <1>7, <2>1 DEF Outstanding
  <1>13. ReadNotUnlinked' /\ UnlinkHasRead'
    BY <1>1, <1>2, <1>3 DEF ReadNotUnlinked, UnlinkHasRead
  <1>14. CommandsRunOnce'
    BY <1>1, <1>4, <1>7 DEF CommandsRunOnce
  <1> QED
    BY <1>9, <1>10, <1>11, <1>12, <1>13, <1>14

\* The batch is dropped: its commands are lost, unless their files are still there.
LEMMA BatchDropped ==
    ASSUME CommandInv, BudgetType', events' <= events, UNCHANGED <<cmds, handled>>,
           batch' = << >>, swallowed' = swallowed \cup (BatchIds \ IdsOf(cmds)),
           pc'["engine"] # "unlink"
    PROVE  CommandInv'
  <1> USE DEF CommandInv
  <1> USE CommandIds
  <1>1. CommandType'
    BY DEF CommandType, BatchIds
  <1>2. DOMAIN batch' = {}
    OBVIOUS
  <1>3. DistinctIds' /\ ReadNotUnlinked' /\ UnlinkHasRead'
    BY <1>2 DEF DistinctIds, ReadNotUnlinked, UnlinkHasRead
  <1>4. FreshIds'
    BY <1>2, EngineAssumption DEF FreshIds, BudgetType, Ids, BatchIds
  <1>5. Outstanding'
    BY <1>2 DEF Outstanding, IdsOf
  <1>6. CommandsRunOnce'
    BY DEF CommandsRunOnce, Outstanding, BatchIds, CommandType
  <1> QED
    BY <1>1, <1>3, <1>4, <1>5, <1>6

\* A handler raises, and takes the rest of the batch with it.
LEMMA HandlerRaisesKeeps ==
    ASSUME CommandInv, BudgetType', PcType, HandlerRaises
    PROVE  CommandInv'
  <1> USE DEF CommandInv
  <1>1. /\ pc["engine"] = "handlers" /\ pc'["engine"] = "top"
        /\ batch' = << >> /\ swallowed' = swallowed \cup BatchIds
        /\ UNCHANGED <<cmds, handled, events>>
    BY DEF HandlerRaises, Goto, PcType, Threads, budget
  <1>2. BatchIds \ IdsOf(cmds) = BatchIds
    BY <1>1 DEF ReadNotUnlinked, BatchIds, IdsOf
  <1>3. events' <= events
    BY <1>1, EngineAssumption DEF BudgetType
  <1> QED
    BY <1>1, <1>2, <1>3, BatchDropped

\* The process dies with the batch in memory.
LEMMA RestartKeeps ==
    ASSUME CommandInv, BudgetType', Restart
    PROVE  CommandInv'
  <1> USE DEF CommandInv
  <1>1. /\ batch' = << >> /\ swallowed' = swallowed \cup (BatchIds \ IdsOf(cmds))
        /\ UNCHANGED <<cmds, handled>> /\ pc'["engine"] # "unlink"
    BY DEF Restart, Begin, Threads
  <1>2. events' <= events
    BY EngineAssumption DEF BudgetType, Restart, SpendEvent
  <1> QED
    BY <1>1, <1>2, BatchDropped

-----------------------------------------------------------------------------
LEMMA CommandInvHolds == Spec => []CommandInv
  <1>1. Init => CommandInv
    <2> SUFFICES ASSUME Init PROVE CommandInv
      OBVIOUS
    <2>1. CommandType /\ BudgetType
      BY EngineAssumption DEF Init, CommandType, BudgetType
    <2>2. cmds = {} /\ DOMAIN batch = {} /\ handled = [c \in Ids |-> 0] /\ swallowed = {}
      BY DEF Init
    <2>3. pc["engine"] # "unlink"
      BY DEF Init, Begin, Threads
    <2> QED
      BY <2>1, <2>2, <2>3 DEF CommandInv, FreshIds, DistinctIds, ReadNotUnlinked, UnlinkHasRead,
         Outstanding, CommandsRunOnce
  <1>2. PcType /\ CommandInv /\ [Next]_vars => CommandInv'
    <2> SUFFICES ASSUME PcType, CommandInv, [Next]_vars PROVE CommandInv'
      OBVIOUS
    <2> DEFINE Untouched == UNCHANGED <<cmds, swallowed, batch, handled>>
               SameUnlink == /\ pc'["engine"] = "unlink" <=> pc["engine"] = "unlink"
                             /\ pc["engine"] = "unlink" => listing' = listing
    <2>0. BudgetType' /\ events' <= events
      BY BudgetShrinks DEF CommandInv
    <2>1. Untouched /\ SameUnlink => CommandInv'
      BY <2>0, CommandsUntouched
    <2>2. CASE EngineThread
      <3> USE DEF cliVars, engineVars, Goto, PcType, Threads
      <3>1. CASE TopOfLoop BY <2>1, <3>1 DEF TopOfLoop
      <3>2. CASE Wake BY <2>1, <3>2 DEF Wake
      <3>3. CASE NothingReady BY <2>1, <3>3 DEF NothingReady
      <3>17. CASE EventComes \/ EventTimesOut BY <2>1, <3>17 DEF EventComes, EventTimesOut
      <3>18. CASE ClearTimedOut BY <2>1, <3>18 DEF ClearTimedOut
      <3>4. CASE ClearEvent BY <2>1, <3>4 DEF ClearEvent
      <3>5. CASE ReadCommand BY <2>0, <3>5, ReadCommandKeeps
      <3>6. CASE UnlinkCommand BY <2>0, <3>6, UnlinkCommandKeeps
      <3>7. CASE EndOfListing BY <2>1, <3>7 DEF EndOfListing
      <3>8. CASE HandleStop BY <2>0, <3>8, HandleStopKeeps
      <3>9. CASE HandlerRaises BY <2>0, <3>9, HandlerRaisesKeeps
      <3>10. CASE EndCommands BY <2>1, <3>10 DEF EndCommands
      <3>11. CASE ScanForeign BY <2>0, <3>11, ScanForeignKeeps
      <3>12. CASE HandleSignal BY <2>1, <3>12 DEF HandleSignal
      <3>13. CASE EndSignals BY <2>1, <3>13 DEF EndSignals
      <3>14. CASE Dispatch BY <2>1, <3>14 DEF Dispatch
      <3>15. ASSUME NEW r \in Runs, NEW ext \in {"sync", "done", "fail"}, ScanSignal(r, ext)
             PROVE  CommandInv'
        BY <2>1, <3>15 DEF ScanSignal
      <3>16. ASSUME NEW r \in Runs, NEW status \in {"SUCCESS", "FAILED", "RETRY"}, Conclude(r, status)
             PROVE  CommandInv'
        BY <2>1, <3>16 DEF Conclude
      <3> QED
        BY <2>2, <3>1, <3>2, <3>3, <3>4, <3>5, <3>6, <3>7, <3>8, <3>9, <3>10, <3>11, <3>12,
           <3>13, <3>14, <3>15, <3>16, <3>17, <3>18 DEF EngineThread
    <2>3. CASE PollThread
      <3> USE DEF cliVars, engineVars, Goto, PcType, Threads
      <3>1. CASE Refresh BY <2>1, <3>1 DEF Refresh
      <3>2. CASE Enqueue BY <2>1, <3>2 DEF Enqueue
      <3>3. CASE Notify BY <2>1, <3>3 DEF Notify
      <3>4. CASE EndPoll BY <2>1, <3>4 DEF EndPoll
      <3>5. ASSUME NEW r \in Runs, StartJob(r) PROVE CommandInv'
        BY <2>1, <3>5 DEF StartJob
      <3>6. ASSUME NEW r \in Runs, Evict(r) PROVE CommandInv'
        BY <2>1, <3>6 DEF Evict
      <3> QED BY <2>3, <3>1, <3>2, <3>3, <3>4, <3>5, <3>6 DEF PollThread
    <2>4. CASE CommandLine
      BY <2>0, <2>4, CreateCommandKeeps, FillCommandKeeps DEF CommandLine
    <2>5. ASSUME NEW r \in Runs, WorkerReturns(r) PROVE CommandInv'
      BY <2>1, <2>5 DEF WorkerReturns, cliVars, engineVars
    <2>6. CASE DeadlinePasses
      BY <2>1, <2>6 DEF DeadlinePasses, cliVars, engineVars
    <2>7. CASE Restart
      BY <2>0, <2>7, RestartKeeps
    <2>8. CASE UNCHANGED vars
      BY <2>1, <2>8 DEF vars, cliVars, engineVars
    <2> QED
      BY <2>2, <2>3, <2>4, <2>5, <2>6, <2>7, <2>8 DEF Next, Workers
  <1> QED
    BY <1>1, <1>2, PcTypeHolds, PTL DEF Spec

\* CommandProcessor.process_commands reads a file and deletes it in two steps,
\* runs the handlers afterwards, and the process may die at any point: still no
\* command runs twice, and none that was deleted, overwritten or swept up by the
\* signal scanner runs at all.
THEOREM CommandsAreNotRepeated == Spec => []CommandsRunOnce
  <1>1. CommandInv => CommandsRunOnce
    BY DEF CommandInv
  <1> QED
    BY <1>1, CommandInvHolds, PTL
=============================================================================
