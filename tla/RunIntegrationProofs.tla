------------------------ MODULE RunIntegrationProofs ------------------------
(***************************************************************************)
(* Proofs about RunIntegration, for any DAG, any set of conflicts and any  *)
(* number of controllers.                                                  *)
(***************************************************************************)
EXTENDS RunIntegration, WellFoundedInduction, TLAPS

(***************************************************************************)
(* Types.  TypeOK alone is not inductive: rows are indexed by the task     *)
(* that stopped a queue, which is a task only at the control points of the *)
(* conflict branch.                                                        *)
(***************************************************************************)
LandedPCs   == {"archiving", "deciding", "releasing"}
WorkPCs     == LandedPCs \cup {"recording", "advancing"}
RepairPCs   == WorkPCs \cup {"authorized", "repairing"}
ConflictPCs == RepairPCs \cup {"marking", "gating", "gated", "aborting"}

RunTypes  == run \in {"RUNNING", "SUCCEEDED", "FAILED"} /\ finalHead \in Histories
TaskTypes == exec \in [Tasks -> Statuses] /\ base \in [Tasks -> Nat] /\ dispatched \subseteq Tasks
RefTypes  == history \in Histories /\ marker \in [task : 0..TaskCount, at : Nat, again : BOOLEAN]
Choices   == [task : 0..TaskCount, what : Decisions \cup {"NONE"}]
DecisionTypes ==
  /\ decision \in Choices /\ (decision.task = 0 <=> decision.what = "NONE")
  /\ human \in Choices /\ (human.task = 0 <=> human.what = "NONE")
Snapshots     == [hist : Histories, stopped : 0..TaskCount]
SnapshotTypes == snapshots \in Seq(Snapshots)
RowTypes ==
  /\ conflictRows \subseteq Tasks /\ gateRows \subseteq Tasks
  /\ decisionRows \in [Tasks -> Decisions \cup {"NONE"}]
RepairTypes ==
  /\ staging \in [Tasks -> 0..MaxRepairs]
  /\ repairRows \in [Tasks -> 0..MaxRepairs] /\ repairs \in 0..MaxRepairs
QueueTypes ==
  /\ seen \in [Controllers -> [Tasks -> Terminal \cup {"NONE"}]]
  /\ head \in [Controllers -> Histories]
ControlTypes ==
  /\ pc \in [Controllers -> PCs]
  /\ stopped \in [Controllers -> 0..TaskCount]
  /\ work \in [Controllers -> 0..MaxRepairs]
  /\ \A c \in Controllers : /\ pc[c] \in ConflictPCs => stopped[c] # 0
                            /\ pc[c] \in WorkPCs => work[c] # 0
                            /\ pc[c] \in {"idle", "loaded"} => stopped[c] = 0

TInv ==
  /\ RunTypes /\ TaskTypes /\ RefTypes /\ DecisionTypes /\ SnapshotTypes /\ RowTypes /\ RepairTypes
  /\ QueueTypes /\ ControlTypes

(***************************************************************************)
(* The first n merges of the history.  Every head that a controller or a   *)
(* snapshot holds is such a beginning, so that all of them can be spoken   *)
(* of by their length.                                                     *)
(***************************************************************************)
Before(n) == {history[j].task : j \in 1..n}

(* Task t was the one to merge next when the history had n merges.         *)
NextAt(n, t) ==
  /\ exec[t] = "SUCCEEDED"
  /\ t \notin Before(n)
  /\ Deps[t] \subseteq Before(n)
  /\ \A u \in 1..(t - 1) : u \in Before(n) \cup NonSuccess(exec)

(* ... and it conflicted there.                                            *)
ConflictAt(n, t) == \E i \in (base[t] + 1)..n : {history[i].task, t} \in Clash
StuckAt(n, t) == n \in 0..Len(history) /\ t \in Tasks /\ NextAt(n, t) /\ ConflictAt(n, t)

(* What a controller loaded, and the head it works on, never stop being    *)
(* true: rows are final and the ref only grows.                            *)
SeenTrue == \A c \in Controllers, t \in Tasks : seen[c][t] # "NONE" => exec[t] = seen[c][t]

HeadsBehind ==
  /\ \A c \in Controllers : IsPrefixOf(head[c], history)
  /\ \A i \in 1..Len(snapshots) : IsPrefixOf(snapshots[i].hist, history)

(* A task that runs or has succeeded started from a point of the history   *)
(* that contained its dependencies.                                        *)
BasesHold ==
  \A t \in Tasks : exec[t] \in {"RUNNING", "SUCCEEDED"} =>
    base[t] \in 0..Len(history) /\ Deps[t] \subseteq Before(base[t])

(* No task is left behind: those before a merged one are merged or doomed. *)
NoneSkipped ==
  \A i \in 1..Len(history) : \A u \in 1..(history[i].task - 1) : u \in Before(Len(history)) \cup NonSuccess(exec)

HistInv == SeenTrue /\ HeadsBehind /\ BasesHold /\ HistoryRecoverable /\ NoneSkipped

(* A conflict is always that of the one task that may be merged next.      *)
ConflictsStuck ==
  /\ \A c \in Controllers : stopped[c] # 0 => StuckAt(Len(head[c]), stopped[c])
  /\ marker.task # 0 => StuckAt(marker.at, marker.task)

(* An abort is for good: the ref stays where the conflict is, and so does  *)
(* the decision, whoever still has to write it down.                       *)
AbortHolds ==
  /\ decision.what = "ABORT" => StuckAt(Len(history), decision.task)
  /\ human.what = "ABORT" => decision = human
  /\ \A t \in Tasks : decisionRows[t] = "ABORT" => decision = [task |-> t, what |-> "ABORT"]
  /\ \A c \in Controllers : pc[c] = "aborting" => decision = [task |-> stopped[c], what |-> "ABORT"]

(* A controller that repairs was authorized to, and its conflict is still  *)
(* the authorized one or has been merged meanwhile; its commit is the one  *)
(* of the repair row from the moment there is one.                         *)
RepairHolds ==
  \A c \in Controllers :
    /\ pc[c] \in RepairPCs =>
         /\ Authorizable(stopped[c], head[c])
         /\ \/ stopped[c] \in Before(Len(history))
            \/ decision = [task |-> stopped[c], what |-> "AUTHORIZE_REPAIR"]
    /\ pc[c] \in LandedPCs => stopped[c] \in Before(Len(history))
    /\ pc[c] = "repairing" => work[c] \in {0, repairRows[stopped[c]]}
    /\ pc[c] = "advancing" => repairRows[stopped[c]] = work[c]

(* The repaired merges of the history.                                     *)
RepairsBacked ==
  \A i \in 1..Len(history) : history[i].repair # 0 =>
    /\ repairRows[history[i].task] = history[i].repair
    /\ \A j \in (base[history[i].task] + 1)..(i - 1) : {history[j].task, history[i].task} \notin HardClash

(* A controller that settles has nothing left to merge; a terminal Run     *)
(* reports the head, and either every task is merged or doomed or the next *)
(* one was given up.                                                       *)
Settled == \A t \in Tasks : t \in Before(Len(history)) \cup NonSuccess(exec)

FinalHolds ==
  /\ \A c \in Controllers : pc[c] = "settling" => Integrable(c) = {}
  /\ run # "RUNNING" => finalHead = history /\ (decision.what = "ABORT" \/ Settled)
  /\ run = "SUCCEEDED" => Merged(history) = Tasks

Inv == TInv /\ HistInv /\ ConflictsStuck /\ AbortHolds /\ RepairHolds /\ RepairsBacked /\ FinalHolds

USE DAGAssumption, EnvironmentAssumption

LEMMA TypesOK == TInv => TypeOK
  BY DEF TInv, TypeOK, RunTypes, TaskTypes, RefTypes, DecisionTypes, SnapshotTypes, RowTypes, RepairTypes,
         QueueTypes, ControlTypes, Choices, Snapshots

LEMMA InitTypes == Init => TInv
  BY DEF Init, TInv, RunTypes, TaskTypes, RefTypes, DecisionTypes, SnapshotTypes, RowTypes, RepairTypes,
         QueueTypes, ControlTypes, Choices, Snapshots, Tasks, Histories, Merges, Statuses, NoMarker, NoDecision, PCs,
         LandedPCs, WorkPCs, RepairPCs, ConflictPCs, Terminal, Decisions

(* A part of the state that a step leaves alone keeps its types.           *)
LEMMA Frames ==
  ASSUME TInv
  PROVE  /\ UNCHANGED runVars => RunTypes'
         /\ UNCHANGED taskVars => TaskTypes'
         /\ UNCHANGED <<history, marker>> => RefTypes'
         /\ UNCHANGED <<decision, human>> => DecisionTypes'
         /\ UNCHANGED snapshots => SnapshotTypes'
         /\ UNCHANGED <<conflictRows, gateRows, decisionRows>> => RowTypes'
         /\ UNCHANGED <<staging, repairRows, repairs>> => RepairTypes'
         /\ UNCHANGED <<seen, head>> => QueueTypes'
         /\ UNCHANGED <<pc, stopped, work>> => ControlTypes'
<1> USE DEF TInv
<1>1. UNCHANGED runVars => RunTypes'  BY DEF runVars, RunTypes
<1>2. UNCHANGED taskVars => TaskTypes'  BY DEF taskVars, TaskTypes
<1>3. UNCHANGED <<history, marker>> => RefTypes'  BY DEF RefTypes
<1>4. UNCHANGED <<decision, human>> => DecisionTypes'  BY DEF DecisionTypes
<1>5. UNCHANGED snapshots => SnapshotTypes'  BY DEF SnapshotTypes
<1>6. UNCHANGED <<conflictRows, gateRows, decisionRows>> => RowTypes'  BY DEF RowTypes
<1>7. UNCHANGED <<staging, repairRows, repairs>> => RepairTypes'  BY DEF RepairTypes
<1>8. UNCHANGED <<seen, head>> => QueueTypes'  BY DEF QueueTypes
<1>9. UNCHANGED <<pc, stopped, work>> => ControlTypes'  BY DEF ControlTypes
<1> QED
  BY <1>1, <1>2, <1>3, <1>4, <1>5, <1>6, <1>7, <1>8, <1>9

LEMMA LeaveTypes ==
  ASSUME TInv, NEW c \in Controllers, Leave(c)
  PROVE  QueueTypes' /\ ControlTypes'
<1>1. <<>> \in Histories
  BY DEF Histories
<1>2. QueueTypes'
  BY <1>1 DEF TInv, QueueTypes, Leave
<1>3. ControlTypes'
  BY DEF TInv, ControlTypes, Leave, Go, PCs, LandedPCs, WorkPCs, RepairPCs, ConflictPCs
<1> QED
  BY <1>2, <1>3

(* At the control points of the conflict branch there is a conflict.       *)
LEMMA StoppedTask ==
  ASSUME TInv, NEW c \in Controllers, pc[c] \in ConflictPCs
  PROVE  stopped[c] \in Tasks
BY DEF TInv, ControlTypes, Tasks

LEMMA LatestTypes ==
  ASSUME TInv, snapshots # <<>>
  PROVE  Latest.hist \in Histories /\ Len(snapshots) \in 1..Len(snapshots)
<1>1. Len(snapshots) \in Nat /\ Len(snapshots) # 0
  BY DEF TInv, SnapshotTypes
<1>2. snapshots[Len(snapshots)] \in Snapshots
  BY <1>1 DEF TInv, SnapshotTypes
<1> QED
  BY <1>1, <1>2 DEF Latest, Snapshots

(* A merge is an entry of a history.                                       *)
LEMMA AppendTypes ==
  ASSUME NEW h \in Histories, NEW t \in Tasks, NEW r \in 0..MaxRepairs
  PROVE  Append(h, [task |-> t, repair |-> r]) \in Histories
<1>1. [task |-> t, repair |-> r] \in Merges
  BY DEF Merges
<1> QED
  BY <1>1 DEF Histories

LEMMA TypesStep == TInv /\ [Next]_vars => TInv'
<1> SUFFICES ASSUME TInv, [Next]_vars PROVE TInv'
  OBVIOUS
<1> USE Frames DEF TInv
<1>1. ASSUME NEW c \in Controllers, Load(c) PROVE TInv'
  <2>1. QueueTypes'
    BY <1>1 DEF Load, QueueTypes, WorkerEvidence, Terminal, Tasks
  <2>2. ControlTypes'
    BY <1>1 DEF Load, ControlTypes, Go, PCs, LandedPCs, WorkPCs, RepairPCs, ConflictPCs
  <2> QED
    BY <1>1, <2>1, <2>2 DEF Load, runVars, taskVars, gitVars, rowVars, ctlVars
<1>2. ASSUME NEW c \in Controllers, OpenQueue(c) PROVE TInv'
  <2>1. QueueTypes'
    BY <1>2 DEF OpenQueue, QueueTypes, RefTypes, RecoverRef
  <2>2. ControlTypes'
    BY <1>2 DEF OpenQueue, ControlTypes, RefTypes, Go, PCs, LandedPCs, WorkPCs, RepairPCs, ConflictPCs
  <2> QED
    BY <1>2, <2>1, <2>2 DEF OpenQueue, RecoverRef, runVars, taskVars, gitVars, rowVars, ctlVars
<1>3. ASSUME NEW c \in Controllers, MergeTask(c) PROVE TInv'
  <2>1. RefTypes'
    BY <1>3, AppendTypes DEF MergeTask, RefTypes, Integrable
  <2>2. QueueTypes'
    BY <1>3, AppendTypes DEF MergeTask, QueueTypes, RefTypes, Integrable
  <2> QED
    BY <1>3, <2>1, <2>2 DEF MergeTask, runVars, taskVars, gitVars, rowVars, ctlVars
<1>4. ASSUME NEW c \in Controllers, DetectConflict(c) PROVE TInv'
  <2>1. ControlTypes'
    BY <1>4 DEF DetectConflict, ControlTypes, Integrable, Tasks, Go, PCs, LandedPCs, WorkPCs, RepairPCs, ConflictPCs
  <2> QED
    BY <1>4, <2>1 DEF DetectConflict, runVars, taskVars, gitVars, rowVars, ctlVars
<1>5. ASSUME NEW c \in Controllers, MarkConflict(c) PROVE TInv'
  <2>1. RefTypes'
    BY <1>5 DEF MarkConflict, RefTypes, ControlTypes, QueueTypes, Histories
  <2>2. QueueTypes' /\ ControlTypes'
    BY <1>5, LeaveTypes DEF MarkConflict, ControlTypes, Go, PCs, LandedPCs, WorkPCs, RepairPCs, ConflictPCs
  <2> QED
    BY <1>5, <2>1, <2>2 DEF MarkConflict, runVars, taskVars, gitVars, rowVars, ctlVars
<1>6. ASSUME NEW c \in Controllers, PersistSnapshot(c) PROVE TInv'
  <2>0. [hist |-> head[c], stopped |-> stopped[c]] \in Snapshots
    BY DEF QueueTypes, ControlTypes, Snapshots
  <2>1. SnapshotTypes'
    BY <1>6, <2>0 DEF PersistSnapshot, SnapshotTypes
  <2>2. ControlTypes'
    BY <1>6 DEF PersistSnapshot, ControlTypes, Go, PCs, LandedPCs, WorkPCs, RepairPCs, ConflictPCs
  <2> QED
    BY <1>6, <2>1, <2>2 DEF PersistSnapshot, runVars, taskVars, gitVars, rowVars, ctlVars
<1>7. ASSUME NEW c \in Controllers, RecordConflict(c) PROVE TInv'
  <2>1. RowTypes'
    BY <1>7, StoppedTask DEF RecordConflict, RowTypes, ConflictPCs
  <2>2. ControlTypes'
    BY <1>7 DEF RecordConflict, ControlTypes, Go, PCs, LandedPCs, WorkPCs, RepairPCs, ConflictPCs
  <2> QED
    BY <1>7, <2>1, <2>2 DEF RecordConflict, runVars, taskVars, gitVars, rowVars, ctlVars
<1>8. ASSUME NEW c \in Controllers, PersistGate(c) PROVE TInv'
  <2>1. RowTypes'
    BY <1>8, StoppedTask DEF PersistGate, RowTypes, ConflictPCs
  <2>2. QueueTypes' /\ ControlTypes'
    BY <1>8, LeaveTypes DEF PersistGate, ControlTypes, Go, PCs, LandedPCs, WorkPCs, RepairPCs, ConflictPCs
  <2> QED
    BY <1>8, <2>1, <2>2 DEF PersistGate, runVars, taskVars, gitVars, rowVars, ctlVars
<1>9. ASSUME NEW c \in Controllers, LoadRepair(c) PROVE TInv'
  <2>1. ControlTypes'
    BY <1>9 DEF LoadRepair, ControlTypes, RepairTypes, Tasks, Go, PCs, LandedPCs, WorkPCs, RepairPCs, ConflictPCs
  <2> QED
    BY <1>9, <2>1 DEF LoadRepair, runVars, taskVars, gitVars, rowVars, ctlVars
<1>10. ASSUME NEW c \in Controllers, AnchorRepair(c) PROVE TInv'
  <2>1. RepairTypes'
    BY <1>10, StoppedTask DEF AnchorRepair, RepairTypes, ControlTypes, ReuseRepair, ProduceRepair, Anchor, rowVars, LandedPCs, WorkPCs, RepairPCs, ConflictPCs
  <2>2. ControlTypes'
    BY <1>10 DEF AnchorRepair, ControlTypes, RepairTypes, ReuseRepair, ProduceRepair, Go, PCs, LandedPCs, WorkPCs, RepairPCs, ConflictPCs
  <2> QED
    BY <1>10, <2>1, <2>2 DEF AnchorRepair, ReuseRepair, ProduceRepair, runVars, taskVars, gitVars, rowVars, ctlVars
<1>11. ASSUME NEW c \in Controllers, RecordRepair(c) PROVE TInv'
  <2>1. RepairTypes'
    BY <1>11, StoppedTask DEF RecordRepair, RepairTypes, ControlTypes, gitVars, LandedPCs, WorkPCs, RepairPCs, ConflictPCs
  <2>2. ControlTypes'
    BY <1>11 DEF RecordRepair, ControlTypes, Go, PCs, LandedPCs, WorkPCs, RepairPCs, ConflictPCs
  <2> QED
    BY <1>11, <2>1, <2>2 DEF RecordRepair, runVars, taskVars, gitVars, rowVars, ctlVars
<1>12. ASSUME NEW c \in Controllers, AdvanceRef(c) PROVE TInv'
  <2>1. RefTypes'
    BY <1>12, AppendTypes DEF AdvanceRef, RefTypes, QueueTypes, ControlTypes, Tasks, LandedPCs, WorkPCs, RepairPCs, ConflictPCs
  <2>2. ControlTypes'
    BY <1>12 DEF AdvanceRef, ControlTypes, Go, PCs, LandedPCs, WorkPCs, RepairPCs, ConflictPCs
  <2> QED
    BY <1>12, <2>1, <2>2 DEF AdvanceRef, runVars, taskVars, gitVars, rowVars, ctlVars
<1>13. ASSUME NEW c \in Controllers, ArchiveMarker(c) PROVE TInv'
  <2>1. RefTypes'
    BY <1>13 DEF ArchiveMarker, RefTypes, NoMarker
  <2>2. ControlTypes'
    BY <1>13 DEF ArchiveMarker, ControlTypes, Go, PCs, LandedPCs, WorkPCs, RepairPCs, ConflictPCs
  <2> QED
    BY <1>13, <2>1, <2>2 DEF ArchiveMarker, runVars, taskVars, gitVars, rowVars, ctlVars
<1>14. ASSUME NEW c \in Controllers, ArchiveDecision(c) PROVE TInv'
  <2>1. DecisionTypes'
    BY <1>14 DEF ArchiveDecision, DecisionTypes, NoDecision, Choices, Decisions
  <2>2. ControlTypes'
    BY <1>14 DEF ArchiveDecision, ControlTypes, Go, PCs, LandedPCs, WorkPCs, RepairPCs, ConflictPCs
  <2> QED
    BY <1>14, <2>1, <2>2 DEF ArchiveDecision, runVars, taskVars, gitVars, rowVars, ctlVars
<1>15. ASSUME NEW c \in Controllers, ReleaseAnchor(c) PROVE TInv'
  <2>1. RepairTypes'
    BY <1>15, StoppedTask DEF ReleaseAnchor, RepairTypes, rowVars, LandedPCs, WorkPCs, RepairPCs, ConflictPCs
  <2>2. QueueTypes' /\ ControlTypes'
    BY <1>15, LeaveTypes DEF ReleaseAnchor
  <2> QED
    BY <1>15, <2>1, <2>2 DEF ReleaseAnchor, runVars, taskVars, gitVars, rowVars, ctlVars
<1>16. ASSUME NEW c \in Controllers, FinalizeAbort(c) PROVE TInv'
  <2>1. RunTypes'
    BY <1>16 DEF FinalizeAbort, RunTypes, Finalize, QueueTypes
  <2>2. QueueTypes' /\ ControlTypes'
    BY <1>16, LeaveTypes DEF FinalizeAbort, Finalize
  <2> QED
    BY <1>16, <2>1, <2>2 DEF FinalizeAbort, Finalize, runVars, taskVars, gitVars, rowVars, ctlVars
<1>17. ASSUME NEW c \in Controllers, FinalizeFailed(c) PROVE TInv'
  <2>1. RunTypes'
    BY <1>17 DEF FinalizeFailed, RunTypes, Finalize, QueueTypes
  <2>2. QueueTypes' /\ ControlTypes'
    BY <1>17, LeaveTypes DEF FinalizeFailed, Finalize
  <2> QED
    BY <1>17, <2>1, <2>2 DEF FinalizeFailed, Finalize, runVars, taskVars, gitVars, rowVars, ctlVars
<1>18. ASSUME NEW c \in Controllers, FinalizeSucceeded(c) PROVE TInv'
  <2>1. RunTypes'
    BY <1>18 DEF FinalizeSucceeded, RunTypes, Finalize, QueueTypes
  <2>2. QueueTypes' /\ ControlTypes'
    BY <1>18, LeaveTypes DEF FinalizeSucceeded, Finalize
  <2> QED
    BY <1>18, <2>1, <2>2 DEF FinalizeSucceeded, Finalize, runVars, taskVars, gitVars, rowVars, ctlVars
<1>19. ASSUME NEW c \in Controllers, ReconcileRun(c) PROVE TInv'
  <2>1. TaskTypes'
    BY <1>19 DEF ReconcileRun, TaskTypes, Frontier
  <2>2. QueueTypes' /\ ControlTypes'
    BY <1>19, LeaveTypes DEF ReconcileRun
  <2> QED
    BY <1>19, <2>1, <2>2 DEF ReconcileRun, runVars, taskVars, gitVars, rowVars, ctlVars
<1>20. ASSUME NEW c \in Controllers, Stop(c) PROVE TInv'
  <2>1. QueueTypes' /\ ControlTypes'
    BY <1>20, LeaveTypes DEF Stop
  <2> QED
    BY <1>20, <2>1 DEF Stop, runVars, taskVars, gitVars, rowVars, ctlVars
<1>21. ASSUME NEW t \in Tasks, StartTask(t) PROVE TInv'
  <2>0. BaseAvailable(t) => ExecutionBase(t) \in Nat
    BY LatestTypes DEF ExecutionBase, BaseAvailable, Histories
  <2>1. TaskTypes'
    BY <1>21, <2>0 DEF StartTask, TaskTypes, Statuses
  <2> QED
    BY <1>21, <2>1 DEF StartTask, runVars, taskVars, gitVars, rowVars, ctlVars
<1>22. ASSUME NEW t \in Tasks, FinishTask(t) PROVE TInv'
  <2>1. TaskTypes'
    BY <1>22 DEF FinishTask, TaskTypes, Terminal, Statuses
  <2> QED
    BY <1>22, <2>1 DEF FinishTask, runVars, taskVars, gitVars, rowVars, ctlVars
<1>23. ASSUME NEW t \in Tasks, HumanDecides(t) PROVE TInv'
  <2>1. DecisionTypes'
    BY <1>23 DEF HumanDecides, DecisionTypes, RecordHumanDecision, Decisions, Choices, Tasks
  <2> QED
    BY <1>23, <2>1 DEF HumanDecides, runVars, taskVars, gitVars, rowVars, ctlVars
<1>24. ASSUME HumanRecords PROVE TInv'
  <2>1. DecisionTypes'
    BY <1>24 DEF HumanRecords, DecisionTypes, NoDecision, Choices, gitVars
  <2>2. human.task \in Tasks
    BY <1>24 DEF HumanRecords, DecisionTypes, NoDecision, Choices, Tasks
  <2>3. RowTypes'
    BY <1>24, <2>2 DEF HumanRecords, RowTypes, DecisionTypes, Choices, NoDecision
  <2> QED
    BY <1>24, <2>1, <2>3 DEF HumanRecords, runVars, taskVars, gitVars, rowVars, ctlVars
<1>25. CASE UNCHANGED vars
  BY <1>25 DEF vars, runVars, taskVars, gitVars, rowVars, ctlVars
<1> QED
  BY <1>1, <1>2, <1>3, <1>4, <1>5, <1>6, <1>7, <1>8, <1>9, <1>10, <1>11, <1>12, <1>13, <1>14, <1>15, <1>16, <1>17, <1>18, <1>19, <1>20, <1>21, <1>22, <1>23, <1>24, <1>25 DEF Next, ControllerStep, HumanStep

(***************************************************************************)
(* Who writes what.                                                        *)
(***************************************************************************)
(* A step leaves controller d alone, or sends it home, or is one of its    *)
(* own steps.                                                              *)
Same(d) == /\ pc'[d] = pc[d] /\ seen'[d] = seen[d] /\ head'[d] = head[d]
           /\ stopped'[d] = stopped[d] /\ work'[d] = work[d]
Left(d) == /\ pc'[d] = "idle" /\ seen'[d] = [t \in Tasks |-> "NONE"] /\ head'[d] = <<>>
           /\ stopped'[d] = 0 /\ work'[d] = 0
Works(d) ==
  \/ Load(d) \/ OpenQueue(d) \/ MergeTask(d) \/ DetectConflict(d) \/ MarkConflict(d) \/ PersistSnapshot(d)
  \/ RecordConflict(d) \/ PersistGate(d) \/ LoadRepair(d) \/ AnchorRepair(d) \/ RecordRepair(d) \/ AdvanceRef(d)
  \/ ArchiveMarker(d) \/ ArchiveDecision(d)

LEMMA LeftOrSame ==
  ASSUME TInv, NEW c \in Controllers, NEW d \in Controllers, Leave(c)
  PROVE  Same(d) \/ Left(d)
BY DEF TInv, ControlTypes, QueueTypes, Leave, Go, Same, Left

LEMMA LocalStep ==
  ASSUME TInv, [Next]_vars, NEW d \in Controllers
  PROVE  Same(d) \/ Left(d) \/ Works(d)
<1>1. ASSUME NEW c \in Controllers, Load(c) PROVE Same(d) \/ Left(d) \/ Works(d)
  <2>1. CASE c = d  BY <1>1, <2>1 DEF Works
  <2>2. CASE c # d  BY <1>1, <2>2 DEF Load, Go, Same, TInv, ControlTypes, QueueTypes
  <2> QED BY <2>1, <2>2
<1>2. ASSUME NEW c \in Controllers, OpenQueue(c) PROVE Same(d) \/ Left(d) \/ Works(d)
  <2>1. CASE c = d  BY <1>2, <2>1 DEF Works
  <2>2. CASE c # d  BY <1>2, <2>2 DEF OpenQueue, RecoverRef, Go, Same, TInv, ControlTypes, QueueTypes
  <2> QED BY <2>1, <2>2
<1>3. ASSUME NEW c \in Controllers, MergeTask(c) PROVE Same(d) \/ Left(d) \/ Works(d)
  <2>1. CASE c = d  BY <1>3, <2>1 DEF Works
  <2>2. CASE c # d  BY <1>3, <2>2 DEF MergeTask, Go, Same, TInv, ControlTypes, QueueTypes
  <2> QED BY <2>1, <2>2
<1>4. ASSUME NEW c \in Controllers, DetectConflict(c) PROVE Same(d) \/ Left(d) \/ Works(d)
  <2>1. CASE c = d  BY <1>4, <2>1 DEF Works
  <2>2. CASE c # d  BY <1>4, <2>2 DEF DetectConflict, Go, Same, TInv, ControlTypes, QueueTypes
  <2> QED BY <2>1, <2>2
<1>5. ASSUME NEW c \in Controllers, MarkConflict(c) PROVE Same(d) \/ Left(d) \/ Works(d)
  <2>1. CASE c = d  BY <1>5, <2>1 DEF Works
  <2>2. CASE c # d  BY <1>5, <2>2, LeftOrSame DEF MarkConflict, Go, Same, TInv, ControlTypes, QueueTypes
  <2> QED BY <2>1, <2>2
<1>6. ASSUME NEW c \in Controllers, PersistSnapshot(c) PROVE Same(d) \/ Left(d) \/ Works(d)
  <2>1. CASE c = d  BY <1>6, <2>1 DEF Works
  <2>2. CASE c # d  BY <1>6, <2>2 DEF PersistSnapshot, Go, Same, TInv, ControlTypes, QueueTypes
  <2> QED BY <2>1, <2>2
<1>7. ASSUME NEW c \in Controllers, RecordConflict(c) PROVE Same(d) \/ Left(d) \/ Works(d)
  <2>1. CASE c = d  BY <1>7, <2>1 DEF Works
  <2>2. CASE c # d  BY <1>7, <2>2 DEF RecordConflict, Go, Same, TInv, ControlTypes, QueueTypes
  <2> QED BY <2>1, <2>2
<1>8. ASSUME NEW c \in Controllers, PersistGate(c) PROVE Same(d) \/ Left(d) \/ Works(d)
  <2>1. CASE c = d  BY <1>8, <2>1 DEF Works
  <2>2. CASE c # d  BY <1>8, <2>2, LeftOrSame DEF PersistGate, Go, Same, TInv, ControlTypes, QueueTypes
  <2> QED BY <2>1, <2>2
<1>9. ASSUME NEW c \in Controllers, LoadRepair(c) PROVE Same(d) \/ Left(d) \/ Works(d)
  <2>1. CASE c = d  BY <1>9, <2>1 DEF Works
  <2>2. CASE c # d  BY <1>9, <2>2 DEF LoadRepair, Go, Same, TInv, ControlTypes, QueueTypes
  <2> QED BY <2>1, <2>2
<1>10. ASSUME NEW c \in Controllers, AnchorRepair(c) PROVE Same(d) \/ Left(d) \/ Works(d)
  <2>1. CASE c = d  BY <1>10, <2>1 DEF Works
  <2>2. CASE c # d  BY <1>10, <2>2 DEF AnchorRepair, ReuseRepair, ProduceRepair, Go, Same, TInv, ControlTypes, QueueTypes
  <2> QED BY <2>1, <2>2
<1>11. ASSUME NEW c \in Controllers, RecordRepair(c) PROVE Same(d) \/ Left(d) \/ Works(d)
  <2>1. CASE c = d  BY <1>11, <2>1 DEF Works
  <2>2. CASE c # d  BY <1>11, <2>2 DEF RecordRepair, Go, Same, TInv, ControlTypes, QueueTypes
  <2> QED BY <2>1, <2>2
<1>12. ASSUME NEW c \in Controllers, AdvanceRef(c) PROVE Same(d) \/ Left(d) \/ Works(d)
  <2>1. CASE c = d  BY <1>12, <2>1 DEF Works
  <2>2. CASE c # d  BY <1>12, <2>2 DEF AdvanceRef, Go, Same, TInv, ControlTypes, QueueTypes
  <2> QED BY <2>1, <2>2
<1>13. ASSUME NEW c \in Controllers, ArchiveMarker(c) PROVE Same(d) \/ Left(d) \/ Works(d)
  <2>1. CASE c = d  BY <1>13, <2>1 DEF Works
  <2>2. CASE c # d  BY <1>13, <2>2 DEF ArchiveMarker, Go, Same, TInv, ControlTypes, QueueTypes
  <2> QED BY <2>1, <2>2
<1>14. ASSUME NEW c \in Controllers, ArchiveDecision(c) PROVE Same(d) \/ Left(d) \/ Works(d)
  <2>1. CASE c = d  BY <1>14, <2>1 DEF Works
  <2>2. CASE c # d  BY <1>14, <2>2 DEF ArchiveDecision, Go, Same, TInv, ControlTypes, QueueTypes
  <2> QED BY <2>1, <2>2
<1>15. ASSUME NEW c \in Controllers, ReleaseAnchor(c) PROVE Same(d) \/ Left(d)
  BY <1>15, LeftOrSame DEF ReleaseAnchor
<1>16. ASSUME NEW c \in Controllers, FinalizeAbort(c) PROVE Same(d) \/ Left(d)
  BY <1>16, LeftOrSame DEF FinalizeAbort, Finalize
<1>17. ASSUME NEW c \in Controllers, FinalizeFailed(c) PROVE Same(d) \/ Left(d)
  BY <1>17, LeftOrSame DEF FinalizeFailed, Finalize
<1>18. ASSUME NEW c \in Controllers, FinalizeSucceeded(c) PROVE Same(d) \/ Left(d)
  BY <1>18, LeftOrSame DEF FinalizeSucceeded, Finalize
<1>19. ASSUME NEW c \in Controllers, ReconcileRun(c) PROVE Same(d) \/ Left(d)
  BY <1>19, LeftOrSame DEF ReconcileRun
<1>20. ASSUME NEW c \in Controllers, Stop(c) PROVE Same(d) \/ Left(d)
  BY <1>20, LeftOrSame DEF Stop
<1>21. ASSUME NEW t \in Tasks, StartTask(t) \/ FinishTask(t) \/ HumanDecides(t) PROVE Same(d)
  BY <1>21 DEF StartTask, FinishTask, HumanDecides, ctlVars, Same
<1>22. CASE HumanRecords \/ UNCHANGED vars
  BY <1>22 DEF HumanRecords, vars, ctlVars, Same
<1> QED
  BY <1>1, <1>2, <1>3, <1>4, <1>5, <1>6, <1>7, <1>8, <1>9, <1>10, <1>11, <1>12, <1>13, <1>14, <1>15, <1>16, <1>17, <1>18, <1>19, <1>20, <1>21, <1>22 DEF Next, ControllerStep, HumanStep

(* The writers of everything shared.                                       *)
Writers ==
  /\ UNCHANGED <<exec, base>> \/ \E t \in Tasks : StartTask(t) \/ FinishTask(t)
  /\ UNCHANGED history \/ \E c \in Controllers : MergeTask(c) \/ AdvanceRef(c)
  /\ UNCHANGED snapshots \/ \E c \in Controllers : PersistSnapshot(c)
  /\ UNCHANGED marker \/ \E c \in Controllers : MarkConflict(c) \/ ArchiveMarker(c)
  /\ UNCHANGED decision \/ (\E t \in Tasks : HumanDecides(t)) \/ \E c \in Controllers : ArchiveDecision(c)
  /\ UNCHANGED human \/ (\E t \in Tasks : HumanDecides(t)) \/ HumanRecords
  /\ UNCHANGED decisionRows \/ HumanRecords
  /\ UNCHANGED repairRows \/ \E c \in Controllers : RecordRepair(c)
  /\ UNCHANGED runVars \/ \E c \in Controllers : FinalizeAbort(c) \/ FinalizeFailed(c) \/ FinalizeSucceeded(c)

LEMMA WritersStep == [Next]_vars => Writers
<1> SUFFICES ASSUME [Next]_vars PROVE Writers
  OBVIOUS
<1> USE DEF Writers, vars, taskVars, gitVars, rowVars
<1>1. ASSUME NEW c \in Controllers, Load(c) PROVE Writers
  BY <1>1 DEF Load
<1>2. ASSUME NEW c \in Controllers, OpenQueue(c) PROVE Writers
  BY <1>2 DEF OpenQueue, RecoverRef
<1>3. ASSUME NEW c \in Controllers, MergeTask(c) PROVE Writers
  BY <1>3 DEF MergeTask
<1>4. ASSUME NEW c \in Controllers, DetectConflict(c) PROVE Writers
  BY <1>4 DEF DetectConflict
<1>5. ASSUME NEW c \in Controllers, MarkConflict(c) PROVE Writers
  BY <1>5 DEF MarkConflict
<1>6. ASSUME NEW c \in Controllers, PersistSnapshot(c) PROVE Writers
  BY <1>6 DEF PersistSnapshot
<1>7. ASSUME NEW c \in Controllers, RecordConflict(c) PROVE Writers
  BY <1>7 DEF RecordConflict
<1>8. ASSUME NEW c \in Controllers, PersistGate(c) PROVE Writers
  BY <1>8 DEF PersistGate
<1>9. ASSUME NEW c \in Controllers, LoadRepair(c) PROVE Writers
  BY <1>9 DEF LoadRepair
<1>10. ASSUME NEW c \in Controllers, AnchorRepair(c) PROVE Writers
  BY <1>10 DEF AnchorRepair, ReuseRepair, ProduceRepair
<1>11. ASSUME NEW c \in Controllers, RecordRepair(c) PROVE Writers
  BY <1>11 DEF RecordRepair
<1>12. ASSUME NEW c \in Controllers, AdvanceRef(c) PROVE Writers
  BY <1>12 DEF AdvanceRef
<1>13. ASSUME NEW c \in Controllers, ArchiveMarker(c) PROVE Writers
  BY <1>13 DEF ArchiveMarker
<1>14. ASSUME NEW c \in Controllers, ArchiveDecision(c) PROVE Writers
  BY <1>14 DEF ArchiveDecision
<1>15. ASSUME NEW c \in Controllers, ReleaseAnchor(c) PROVE Writers
  BY <1>15 DEF ReleaseAnchor
<1>16. ASSUME NEW c \in Controllers, FinalizeAbort(c) PROVE Writers
  BY <1>16 DEF FinalizeAbort, Finalize
<1>17. ASSUME NEW c \in Controllers, FinalizeFailed(c) PROVE Writers
  BY <1>17 DEF FinalizeFailed, Finalize
<1>18. ASSUME NEW c \in Controllers, FinalizeSucceeded(c) PROVE Writers
  BY <1>18 DEF FinalizeSucceeded, Finalize
<1>19. ASSUME NEW c \in Controllers, ReconcileRun(c) PROVE Writers
  BY <1>19 DEF ReconcileRun
<1>20. ASSUME NEW c \in Controllers, Stop(c) PROVE Writers
  BY <1>20 DEF Stop
<1>21. ASSUME NEW t \in Tasks, StartTask(t) PROVE Writers
  BY <1>21 DEF StartTask
<1>22. ASSUME NEW t \in Tasks, FinishTask(t) PROVE Writers
  BY <1>22 DEF FinishTask
<1>23. ASSUME NEW t \in Tasks, HumanDecides(t) PROVE Writers
  BY <1>23 DEF HumanDecides
<1>24. CASE HumanRecords
  BY <1>24 DEF HumanRecords
<1>25. CASE UNCHANGED vars
  BY <1>25 DEF runVars
<1> QED
  BY <1>1, <1>2, <1>3, <1>4, <1>5, <1>6, <1>7, <1>8, <1>9, <1>10, <1>11, <1>12, <1>13, <1>14, <1>15, <1>16, <1>17, <1>18, <1>19, <1>20, <1>21, <1>22, <1>23, <1>24, <1>25 DEF Next, ControllerStep, HumanStep

(***************************************************************************)
(* Facts about one state.                                                  *)
(***************************************************************************)
LEMMA HistoryTypes ==
  ASSUME NEW h \in Histories
  PROVE  /\ Len(h) \in Nat
         /\ \A i \in 1..Len(h) : h[i].task \in Tasks /\ h[i].repair \in 0..MaxRepairs /\ h[i] \in Merges
<1>1. \A i \in 1..Len(h) : h[i] \in Merges
  BY DEF Histories
<1> QED
  BY <1>1 DEF Histories, Merges

(* Whatever holds of a head is a fact about the history.                   *)
LEMMA HeadFacts ==
  ASSUME TInv, NEW h \in Histories, IsPrefixOf(h, history)
  PROVE  /\ Len(h) \in 0..Len(history)
         /\ Merged(h) = Before(Len(h))
         /\ \A t \in Tasks : Conflicts(t, h) <=> ConflictAt(Len(h), t)
<1>1. Len(h) \in Nat /\ Len(history) \in Nat
  BY HistoryTypes DEF TInv, RefTypes
<1>2. \A i \in 1..Len(h) : h[i] = history[i]
  BY DEF IsPrefixOf
<1>3. Merged(h) = Before(Len(h))
  BY <1>1, <1>2 DEF Merged, Before
<1>4. ASSUME NEW t \in Tasks PROVE Conflicts(t, h) <=> ConflictAt(Len(h), t)
  <2>1. \A i \in (base[t] + 1)..Len(h) : h[i] = history[i]
    BY <1>1, <1>2 DEF TInv, TaskTypes
  <2> QED
    BY <2>1 DEF Conflicts, ConflictAt
<1> QED
  BY <1>1, <1>3, <1>4 DEF IsPrefixOf

(* A task is doomed by more failures, never by fewer.                      *)
LEMMA NonSuccessGrows ==
  ASSUME NEW e, NEW f, \A t \in Tasks : e[t] = "FAILED" => f[t] = "FAILED"
  PROVE  NonSuccess(e) \subseteq NonSuccess(f)
BY DEF NonSuccess, Blocked, Having

(* A task that succeeded is not doomed: its ancestors succeeded too, for   *)
(* it started from a point of the history that contained them.             *)
LEMMA SucceededNotDoomed ==
  ASSUME TInv, BasesHold, HistoryRecoverable, NEW t \in Tasks, exec[t] = "SUCCEEDED"
  PROVE  t \notin NonSuccess(exec)
<1> DEFINE S == Having(exec, "SUCCEEDED")
<1>1. ASSUME NEW u \in S PROVE Deps[u] \subseteq S
  <2>1. u \in Tasks /\ exec[u] = "SUCCEEDED"
    BY DEF Having
  <2>2. base[u] \in 0..Len(history) /\ Deps[u] \subseteq Before(base[u])
    BY <2>1 DEF BasesHold
  <2>3. \A j \in 1..base[u] : j \in 1..Len(history)
    BY <2>2, HistoryTypes DEF TInv, RefTypes
  <2>4. \A j \in 1..base[u] : exec[history[j].task] = "SUCCEEDED" /\ history[j].task \in Tasks
    BY <2>3, HistoryTypes DEF HistoryRecoverable, TInv, RefTypes
  <2> QED
    BY <2>2, <2>4 DEF Before, Having
<1>2. t \in S /\ S \in SUBSET Tasks
  BY DEF Having
<1>3. Ancestors[t] \subseteq S
  BY <1>1, <1>2 DEF Ancestors
<1>4. S \cap Having(exec, "FAILED") = {}
  BY DEF Having
<1> QED
  BY <1>2, <1>3, <1>4 DEF NonSuccess, Blocked

(* At most one task may be merged next.                                    *)
LEMMA NextUnique ==
  ASSUME TInv, BasesHold, HistoryRecoverable, NEW n, NEW t \in Tasks, NEW v \in Tasks, NextAt(n, t), NextAt(n, v)
  PROVE  t = v
<1>1. t \notin NonSuccess(exec) /\ v \notin NonSuccess(exec)
  BY SucceededNotDoomed DEF NextAt
<1>2. ~(t < v) /\ ~(v < t)
  BY <1>1 DEF NextAt, Tasks
<1> QED
  BY <1>2 DEF Tasks

(* The task that was next is the one that was merged next.                 *)
LEMMA OnlyNext ==
  ASSUME TInv, HistInv, NEW n \in 0..Len(history), n # Len(history), NEW t \in Tasks, NextAt(n, t)
  PROVE  history[n + 1].task = t
<1> DEFINE v == history[n + 1].task
<1>1. Len(history) \in Nat /\ n + 1 \in 1..Len(history)
  BY HistoryTypes DEF TInv, RefTypes
<1>2. v \in Tasks /\ exec[v] = "SUCCEEDED"
  BY <1>1, HistoryTypes DEF TInv, RefTypes, HistInv, HistoryRecoverable
<1>3. v \notin NonSuccess(exec) /\ t \notin NonSuccess(exec)
  BY <1>2, SucceededNotDoomed DEF HistInv, NextAt
<1>4. \A j \in 1..n : history[j].task < v
  BY <1>1 DEF HistInv, HistoryRecoverable
<1>5. v \notin Before(n)
  BY <1>2, <1>4 DEF Before, Tasks
<1>6. ~(v < t)
  BY <1>2, <1>3, <1>5 DEF NextAt, Tasks
<1>7. ASSUME t < v PROVE FALSE
  <2>1. t \in Before(Len(history))
    BY <1>1, <1>2, <1>3, <1>7 DEF HistInv, NoneSkipped, Tasks
  <2>2. PICK k \in 1..Len(history) : history[k].task = t
    BY <2>1 DEF Before
  <2>3. k \in 1..n \/ k = n + 1 \/ n + 1 \in 1..(k - 1)
    BY <1>1
  <2>4. k \notin 1..n
    BY <2>2 DEF NextAt, Before
  <2>5. n + 1 \notin 1..(k - 1)
    BY <1>2, <1>7, <2>2 DEF HistInv, HistoryRecoverable, Tasks
  <2> QED
    BY <2>2, <2>3, <2>4, <2>5, <1>2, <1>7 DEF Tasks
<1> QED
  BY <1>2, <1>6, <1>7 DEF Tasks

(***************************************************************************)
(* Growth: the history is only ever extended, rows are never taken back.   *)
(***************************************************************************)
Grows ==
  /\ IsPrefixOf(history, history')
  /\ \A t \in Tasks : exec[t] \in Terminal => exec'[t] = exec[t] /\ base'[t] = base[t]

LEMMA GrowsStep == TInv /\ [Next]_vars => Grows
<1> SUFFICES ASSUME TInv, [Next]_vars PROVE Grows
  OBVIOUS
<1>1. IsPrefixOf(history, history')
  <2>1. CASE UNCHANGED history
    BY <2>1, HistoryTypes DEF IsPrefixOf, TInv, RefTypes
  <2>2. ASSUME NEW c \in Controllers, MergeTask(c) PROVE IsPrefixOf(history, history')
    BY <2>2 DEF MergeTask, IsPrefixOf, TInv, RefTypes, Histories
  <2>3. ASSUME NEW c \in Controllers, AdvanceRef(c) PROVE IsPrefixOf(history, history')
    <3>1. head[c] \in Seq(Merges) /\ history \in Seq(Merges)
      BY DEF TInv, RefTypes, QueueTypes, Histories
    <3>2. CASE history = head[c]
      BY <2>3, <3>1, <3>2 DEF AdvanceRef, IsPrefixOf
    <3>3. CASE history' = history
      BY <3>1, <3>3 DEF IsPrefixOf
    <3> QED
      BY <2>3, <3>2, <3>3 DEF AdvanceRef
  <2> QED
    BY <2>1, <2>2, <2>3, WritersStep DEF Writers
<1>2. ASSUME NEW t \in Tasks, exec[t] \in Terminal PROVE exec'[t] = exec[t] /\ base'[t] = base[t]
  BY <1>2, WritersStep DEF Writers, StartTask, FinishTask, Terminal, TInv, TaskTypes
<1> QED
  BY <1>1, <1>2 DEF Grows

(* What was next stays next of the same beginning, and so do conflicts.    *)
LEMMA GrowthKeeps ==
  ASSUME TInv, TInv', Grows, NEW n \in 0..Len(history), NEW t \in Tasks
  PROVE  /\ n \in 0..Len(history')
         /\ Before(n)' = Before(n)
         /\ NonSuccess(exec) \subseteq NonSuccess(exec')
         /\ NextAt(n, t) => NextAt(n, t)'
         /\ exec[t] = "SUCCEEDED" => ConflictAt(n, t)' = ConflictAt(n, t)
         /\ StuckAt(n, t) => StuckAt(n, t)'
<1>1. Len(history) \in Nat /\ Len(history') \in Nat
  BY HistoryTypes DEF TInv, RefTypes
<1>2. \A i \in 1..Len(history) : history'[i] = history[i]
  BY DEF Grows, IsPrefixOf
<1>3. n \in 0..Len(history')
  BY <1>1 DEF Grows, IsPrefixOf
<1>4. Before(n)' = Before(n)
  BY <1>1, <1>2 DEF Before
<1>5. NonSuccess(exec) \subseteq NonSuccess(exec')
  BY NonSuccessGrows DEF Grows, Terminal
<1>6. NextAt(n, t) => NextAt(n, t)'
  BY <1>4, <1>5 DEF NextAt, Grows, Terminal
<1>7. exec[t] = "SUCCEEDED" => ConflictAt(n, t)' = ConflictAt(n, t)
  <2>1. \A i \in (base[t] + 1)..n : history'[i] = history[i]
    BY <1>1, <1>2 DEF TInv, TaskTypes
  <2>2. exec[t] = "SUCCEEDED" => base'[t] = base[t]
    BY DEF Grows, Terminal
  <2> QED
    BY <2>1, <2>2 DEF ConflictAt
<1> QED
  BY <1>3, <1>4, <1>5, <1>6, <1>7 DEF StuckAt, NextAt

(***************************************************************************)
(* The history and what is known of it.                                    *)
(***************************************************************************)
(* A task that a queue would accept is next: the rows it was judged by are *)
(* still true, and more failures do not change the verdict.                *)
LEMMA IntegrableNext ==
  ASSUME TInv, HistInv, NEW c \in Controllers, NEW t \in Integrable(c)
  PROVE  t \in Tasks /\ NextAt(Len(head[c]), t)
<1>1. t \in Tasks /\ IntegrateAccepts(seen[c], Merged(head[c]), t)
  BY DEF Integrable
<1>2. Merged(head[c]) = Before(Len(head[c]))
  BY HeadFacts DEF HistInv, HeadsBehind, TInv, QueueTypes
<1>3. NonSuccess(seen[c]) \subseteq NonSuccess(exec)
  BY NonSuccessGrows DEF HistInv, SeenTrue
<1>4. exec[t] = "SUCCEEDED"
  BY <1>1 DEF IntegrateAccepts, ValidWorkerResult, HistInv, SeenTrue
<1> QED
  BY <1>1, <1>2, <1>3, <1>4 DEF IntegrateAccepts, TopologicalGate, NextAt

(* A clean merge is one of the next task, ...                              *)
LEMMA MergeFacts ==
  ASSUME TInv, HistInv, NEW c \in Controllers, MergeTask(c)
  PROVE  /\ UNCHANGED <<exec, base>>
         /\ \E t \in Tasks : /\ history' = Append(history, [task |-> t, repair |-> 0])
                             /\ NextAt(Len(history), t)
                             /\ ~ConflictAt(Len(history), t)
<1>1. PICK t \in Integrable(c) : ~Conflicts(t, history) /\ history' = Append(history, [task |-> t, repair |-> 0])
  BY DEF MergeTask
<1>2. t \in Tasks /\ NextAt(Len(history), t)
  BY IntegrableNext DEF MergeTask
<1>3. ~ConflictAt(Len(history), t)
  BY <1>1 DEF Conflicts, ConflictAt
<1> QED
  BY <1>1, <1>2, <1>3 DEF MergeTask, taskVars

(* ... and so is a repaired one.                                           *)
LEMMA AdvanceFacts ==
  ASSUME TInv, HistInv, ConflictsStuck, NEW c \in Controllers, AdvanceRef(c)
  PROVE  /\ UNCHANGED <<exec, base>>
         /\ stopped[c] \in Tasks
         /\ \/ UNCHANGED history
            \/ /\ history = head[c]
               /\ history' = Append(history, [task |-> stopped[c], repair |-> work[c]])
               /\ NextAt(Len(history), stopped[c])
<1>1. stopped[c] \in Tasks /\ stopped[c] # 0
  BY StoppedTask DEF AdvanceRef, LandedPCs, WorkPCs, RepairPCs, ConflictPCs, Tasks
<1>2. NextAt(Len(head[c]), stopped[c])
  BY <1>1 DEF ConflictsStuck, StuckAt
<1> QED
  BY <1>1, <1>2 DEF AdvanceRef, taskVars

LEMMA HistoryGrows ==
  ASSUME TInv, TInv', HistInv, Grows, UNCHANGED <<exec, base>>, NEW t \in Tasks, NEW r \in 0..MaxRepairs,
         history' = Append(history, [task |-> t, repair |-> r]), NextAt(Len(history), t)
  PROVE  HistoryRecoverable' /\ NoneSkipped'
<1>0. PICK n \in Nat : n = Len(history)
  BY DEF TInv, RefTypes, Histories
<1> USE <1>0
<1>1. n \in Nat /\ Len(history') = n + 1 /\ history'[n + 1] = [task |-> t, repair |-> r]
  BY DEF TInv, RefTypes, Histories
<1>2. \A i \in 1..n : history'[i] = history[i] /\ history[i].task \in Tasks
  BY HistoryTypes DEF Grows, IsPrefixOf, TInv, RefTypes
<1>3. t \notin NonSuccess(exec)
  BY SucceededNotDoomed DEF HistInv, NextAt
<1>4. \A i \in 1..n : history[i].task < t
  <2> SUFFICES ASSUME NEW i \in 1..n, t < history[i].task PROVE FALSE
    BY <1>2 DEF NextAt, Before, Tasks
  <2> QED
    BY <1>2, <1>3 DEF HistInv, NoneSkipped, NextAt, Tasks
<1>5. base[t] \in 0..n /\ Deps[t] \subseteq Before(base[t])
  BY DEF NextAt, HistInv, BasesHold
<1>6. HistoryRecoverable'
  <2> SUFFICES ASSUME NEW i \in 1..(n + 1)
               PROVE  /\ exec[history'[i].task] = "SUCCEEDED"
                      /\ \A j \in 1..(i - 1) : history'[j].task < history'[i].task
                      /\ base[history'[i].task] < i
                      /\ Deps[history'[i].task] \subseteq {history'[j].task : j \in 1..base[history'[i].task]}
    BY <1>1 DEF HistoryRecoverable
  <2>1. CASE i \in 1..n
    <3>1. base[history[i].task] \in Nat
      BY <1>2, <2>1 DEF TInv, TaskTypes
    <3> QED
      BY <1>1, <1>2, <2>1, <3>1 DEF HistInv, HistoryRecoverable
  <2>2. CASE i = n + 1
    BY <1>1, <1>2, <1>4, <1>5, <2>2 DEF NextAt, Before
  <2>3. i \in 1..n \/ i = n + 1
    BY <1>1
  <2> QED
    BY <2>1, <2>2, <2>3
<1>7. NoneSkipped'
  <2>1. Before(n) \subseteq Before(n + 1)' /\ t \in Before(n + 1)'
    BY <1>1, <1>2 DEF Before
  <2>2. ASSUME NEW i \in 1..(n + 1), NEW u \in 1..(history'[i].task - 1)
        PROVE  u \in Before(n + 1)' \cup NonSuccess(exec)
    <3>1. CASE i \in 1..n
      BY <1>2, <2>1, <3>1 DEF HistInv, NoneSkipped
    <3>2. CASE i = n + 1
      BY <1>1, <2>1, <3>2 DEF NextAt
    <3> QED
      BY <1>1, <3>1, <3>2
  <2>3. Before(Len(history))' = Before(n + 1)'
    BY <1>1 DEF Before
  <2>4. NonSuccess(exec)' = NonSuccess(exec)
    OBVIOUS
  <2> QED
    BY <1>1, <2>2, <2>3, <2>4 DEF NoneSkipped
<1> QED
  BY <1>6, <1>7

LEMMA HistoryStays ==
  ASSUME TInv, TInv', HistInv, Grows, UNCHANGED history
  PROVE  HistoryRecoverable' /\ NoneSkipped'
<1>1. \A i \in 1..Len(history) : history[i].task \in Tasks
  BY HistoryTypes DEF TInv, RefTypes
<1>2. \A i \in 1..Len(history) : exec'[history[i].task] = "SUCCEEDED" /\ base'[history[i].task] = base[history[i].task]
  BY <1>1 DEF HistInv, HistoryRecoverable, Grows, Terminal
<1>3. HistoryRecoverable'
  BY <1>2 DEF HistInv, HistoryRecoverable
<1>4. NonSuccess(exec) \subseteq NonSuccess(exec')
  BY NonSuccessGrows DEF Grows, Terminal
<1>5. NoneSkipped'
  BY <1>4 DEF HistInv, NoneSkipped, Before
<1> QED
  BY <1>3, <1>5

LEMMA HistoryStep ==
  ASSUME TInv, TInv', HistInv, ConflictsStuck, [Next]_vars
  PROVE  HistoryRecoverable' /\ NoneSkipped'
<1>0. Grows
  BY GrowsStep
<1>1. CASE UNCHANGED history
  BY <1>0, <1>1, HistoryStays
<1>2. ASSUME NEW c \in Controllers, MergeTask(c) PROVE HistoryRecoverable' /\ NoneSkipped'
  <2>1. PICK t \in Tasks : history' = Append(history, [task |-> t, repair |-> 0]) /\ NextAt(Len(history), t)
    BY <1>2, MergeFacts
  <2> QED
    BY <1>0, <1>2, <2>1, MergeFacts, HistoryGrows
<1>3. ASSUME NEW c \in Controllers, AdvanceRef(c) PROVE HistoryRecoverable' /\ NoneSkipped'
  <2>1. work[c] \in 0..MaxRepairs
    BY DEF TInv, ControlTypes
  <2> QED
    BY <1>0, <1>1, <1>3, <2>1, AdvanceFacts, HistoryGrows
<1> QED
  BY <1>1, <1>2, <1>3, WritersStep DEF Writers

LEMMA QueueStep ==
  ASSUME TInv, [Next]_vars, NEW d \in Controllers
  PROVE  /\ \/ seen'[d] = seen[d]
            \/ seen'[d] = [t \in Tasks |-> "NONE"]
            \/ seen'[d] = WorkerEvidence /\ UNCHANGED exec
         /\ head'[d] \in {head[d], <<>>, history'}
         /\ \/ stopped'[d] = 0
            \/ stopped'[d] = stopped[d] /\ head'[d] = head[d]
            \/ UNCHANGED <<history, exec, base>> /\ (OpenQueue(d) \/ DetectConflict(d))
<1>1. CASE Same(d) \/ Left(d)
  BY <1>1 DEF Same, Left
<1>2. CASE Works(d)
  <2> USE DEF TInv, QueueTypes, ControlTypes, taskVars, gitVars
  <2>1. CASE Load(d)  BY <2>1 DEF Load
  <2>2. CASE OpenQueue(d)  BY <2>2 DEF OpenQueue, RecoverRef
  <2>3. CASE MergeTask(d)  BY <2>3 DEF MergeTask
  <2>4. CASE DetectConflict(d)  BY <2>4 DEF DetectConflict
  <2>5. CASE MarkConflict(d)  BY <2>5 DEF MarkConflict, Leave
  <2>6. CASE PersistSnapshot(d)  BY <2>6 DEF PersistSnapshot
  <2>7. CASE RecordConflict(d)  BY <2>7 DEF RecordConflict
  <2>8. CASE PersistGate(d)  BY <2>8 DEF PersistGate, Leave
  <2>9. CASE LoadRepair(d) \/ AnchorRepair(d)  BY <2>9 DEF LoadRepair, AnchorRepair
  <2>10. CASE RecordRepair(d) \/ AdvanceRef(d)  BY <2>10 DEF RecordRepair, AdvanceRef
  <2>11. CASE ArchiveMarker(d) \/ ArchiveDecision(d)  BY <2>11 DEF ArchiveMarker, ArchiveDecision
  <2> QED
    BY <1>2, <2>1, <2>2, <2>3, <2>4, <2>5, <2>6, <2>7, <2>8, <2>9, <2>10, <2>11 DEF Works
<1> QED
  BY <1>1, <1>2, LocalStep

LEMMA SeenStep ==
  ASSUME TInv, SeenTrue, [Next]_vars
  PROVE  SeenTrue'
<1> SUFFICES ASSUME NEW c \in Controllers, NEW t \in Tasks, seen'[c][t] # "NONE"
             PROVE  exec'[t] = seen'[c][t]
  BY DEF SeenTrue
<1>0. Grows
  BY GrowsStep
<1>1. CASE seen'[c] = seen[c]
  <2>1. seen[c][t] \in Terminal /\ exec[t] = seen[c][t]
    BY <1>1 DEF SeenTrue, TInv, QueueTypes
  <2> QED
    BY <1>0, <1>1, <2>1 DEF Grows
<1>2. CASE seen'[c] = WorkerEvidence /\ UNCHANGED exec
  BY <1>2 DEF WorkerEvidence
<1> QED
  BY <1>1, <1>2, QueueStep

LEMMA PrefixGrows ==
  ASSUME NEW g \in Histories, NEW h \in Histories, NEW k \in Histories, IsPrefixOf(g, h), IsPrefixOf(h, k)
  PROVE  IsPrefixOf(g, k)
<1>1. Len(g) \in Nat /\ Len(h) \in Nat /\ Len(k) \in Nat
  BY HistoryTypes
<1> QED
  BY <1>1 DEF IsPrefixOf

LEMMA HeadsStep ==
  ASSUME TInv, TInv', HeadsBehind, [Next]_vars
  PROVE  HeadsBehind'
<1>0. IsPrefixOf(history, history')
  BY GrowsStep DEF Grows
<1>t. history \in Histories /\ history' \in Histories
  BY DEF TInv, RefTypes
<1>1. ASSUME NEW c \in Controllers PROVE IsPrefixOf(head'[c], history')
  <2>1. CASE head'[c] = head[c]
    BY <1>0, <1>t, <2>1, PrefixGrows DEF HeadsBehind, TInv, QueueTypes
  <2>2. CASE head'[c] \in {<<>>, history'}
    BY <1>t, <2>2, HistoryTypes DEF IsPrefixOf
  <2> QED
    BY <2>1, <2>2, QueueStep
<1>2. ASSUME NEW i \in 1..Len(snapshots') PROVE IsPrefixOf(snapshots'[i].hist, history')
  <2>1. ASSUME NEW j \in 1..Len(snapshots) PROVE IsPrefixOf(snapshots[j].hist, history')
    <3>1. snapshots[j] \in Snapshots
      BY DEF TInv, SnapshotTypes
    <3> QED
      BY <1>0, <1>t, <3>1, PrefixGrows DEF HeadsBehind, Snapshots
  <2>2. CASE UNCHANGED snapshots
    BY <2>1, <2>2
  <2>3. ASSUME NEW c \in Controllers, PersistSnapshot(c) PROVE IsPrefixOf(snapshots'[i].hist, history')
    <3>1. UNCHANGED history
      BY <2>3 DEF PersistSnapshot, gitVars
    <3>2. CASE snapshots' = Append(snapshots, [hist |-> head[c], stopped |-> stopped[c]])
      <4>1. Len(snapshots) \in Nat /\ Len(snapshots') = Len(snapshots) + 1
        BY <3>2 DEF TInv, SnapshotTypes
      <4>2. CASE i = Len(snapshots) + 1
        BY <3>1, <3>2, <4>1, <4>2 DEF TInv, SnapshotTypes, HeadsBehind
      <4>3. CASE i \in 1..Len(snapshots)
        BY <2>1, <3>2, <4>1, <4>3 DEF TInv, SnapshotTypes
      <4> QED
        BY <4>1, <4>2, <4>3
    <3> QED
      BY <2>2, <2>3, <3>2 DEF PersistSnapshot
  <2> QED
    BY <2>2, <2>3, WritersStep DEF Writers
<1> QED
  BY <1>1, <1>2 DEF HeadsBehind

LEMMA BasesStep ==
  ASSUME TInv, TInv', HeadsBehind, BasesHold, [Next]_vars
  PROVE  BasesHold'
<1>0. Grows
  BY GrowsStep
<1> SUFFICES ASSUME NEW t \in Tasks, exec'[t] \in {"RUNNING", "SUCCEEDED"}
             PROVE  base'[t] \in 0..Len(history') /\ Deps[t] \subseteq Before(base[t])'
  BY DEF BasesHold
<1>1. CASE exec[t] \in {"RUNNING", "SUCCEEDED"} /\ base'[t] = base[t]
  BY <1>0, <1>1, GrowthKeeps DEF BasesHold, Before
<1>2. CASE StartTask(t) /\ BaseAvailable(t) /\ base'[t] = ExecutionBase(t)
  <2>1. UNCHANGED history /\ Len(history) \in Nat
    BY <1>2, HistoryTypes DEF StartTask, gitVars, TInv, RefTypes
  <2>2. CASE Deps[t] = {}
    BY <1>2, <2>1, <2>2 DEF ExecutionBase
  <2>3. CASE Deps[t] # {}
    <3>1. snapshots # <<>> /\ Deps[t] \subseteq Merged(Latest.hist)
      BY <1>2, <2>3 DEF BaseAvailable
    <3>2. Latest.hist \in Histories /\ IsPrefixOf(Latest.hist, history)
      BY <3>1, LatestTypes DEF HeadsBehind, Latest
    <3>3. Merged(Latest.hist) = Before(Len(Latest.hist)) /\ Len(Latest.hist) \in 0..Len(history)
      BY <3>2, HeadFacts
    <3> QED
      BY <1>2, <2>1, <2>3, <3>1, <3>3 DEF ExecutionBase, Before
  <2> QED
    BY <2>2, <2>3
<1>3. CASE UNCHANGED <<exec, base>>
  BY <1>1, <1>3
<1>4. ASSUME NEW u \in Tasks, StartTask(u) \/ FinishTask(u)
      PROVE  \/ exec[t] \in {"RUNNING", "SUCCEEDED"} /\ base'[t] = base[t]
             \/ StartTask(t) /\ BaseAvailable(t) /\ base'[t] = ExecutionBase(t)
  BY <1>4 DEF StartTask, FinishTask, TInv, TaskTypes
<1> QED
  BY <1>1, <1>2, <1>3, <1>4, WritersStep DEF Writers

LEMMA HistInvStep ==
  ASSUME TInv, TInv', HistInv, ConflictsStuck, [Next]_vars
  PROVE  HistInv'
BY SeenStep, HeadsStep, BasesStep, HistoryStep DEF HistInv

(***************************************************************************)
(* Conflicts.                                                              *)
(***************************************************************************)
LEMMA StuckStays ==
  ASSUME UNCHANGED <<history, exec, base>>, NEW n, NEW t, StuckAt(n, t)
  PROVE  StuckAt(n, t)'
BY DEF StuckAt, NextAt, ConflictAt, Before

LEMMA ConflictsStep ==
  ASSUME TInv, TInv', HistInv, ConflictsStuck, [Next]_vars
  PROVE  ConflictsStuck'
<1>0. Grows
  BY GrowsStep
<1>1. ASSUME NEW c \in Controllers, stopped'[c] # 0 PROVE StuckAt(Len(head[c]), stopped[c])'
  <2>1. CASE stopped'[c] = stopped[c] /\ head'[c] = head[c]
    <3>1. StuckAt(Len(head[c]), stopped[c])
      BY <1>1, <2>1 DEF ConflictsStuck
    <3>2. PICK n, t : n = Len(head[c]) /\ t = stopped[c]
      OBVIOUS
    <3>3. StuckAt(n, t)'
      BY <1>0, <3>1, <3>2, GrowthKeeps DEF StuckAt
    <3> QED
      BY <2>1, <3>2, <3>3
  <2>2. CASE OpenQueue(c) /\ UNCHANGED <<history, exec, base>>
    <3>1. /\ stopped'[c] = marker.task /\ head'[c] = history /\ marker.task # 0
          /\ marker.at = Len(history)
      BY <1>1, <2>2 DEF OpenQueue, RecoverRef, Unresolved, RecoverConflictMarker, TInv, ControlTypes, QueueTypes
    <3>2. StuckAt(Len(history), marker.task)
      BY <3>1 DEF ConflictsStuck
    <3>3. PICK n, t : n = Len(history) /\ t = marker.task
      OBVIOUS
    <3>4. StuckAt(n, t)'
      BY <2>2, <3>2, <3>3, StuckStays
    <3> QED
      BY <3>1, <3>3, <3>4
  <2>3. CASE DetectConflict(c) /\ UNCHANGED <<history, exec, base>>
    <3>1. PICK t \in Integrable(c) : Conflicts(t, history) /\ stopped'[c] = t
      BY <2>3 DEF DetectConflict, TInv, ControlTypes
    <3>2. t \in Tasks /\ NextAt(Len(history), t) /\ ConflictAt(Len(history), t)
      BY <2>3, <3>1, IntegrableNext DEF DetectConflict, Conflicts, ConflictAt
    <3>3. head'[c] = history
      BY <2>3 DEF DetectConflict
    <3>4. Len(history) \in 0..Len(history)
      BY HistoryTypes DEF TInv, RefTypes
    <3>5. PICK n : n = Len(history)
      OBVIOUS
    <3>6. StuckAt(n, t)'
      BY <2>3, <3>2, <3>4, <3>5, StuckStays DEF StuckAt
    <3> QED
      BY <3>1, <3>3, <3>5, <3>6
  <2> QED
    BY <1>1, <2>1, <2>2, <2>3, QueueStep
<1>2. ASSUME marker'.task # 0 PROVE StuckAt(marker.at, marker.task)'
  <2>1. CASE UNCHANGED marker
    <3>1. PICK n, t : n = marker.at /\ t = marker.task
      OBVIOUS
    <3>2. StuckAt(n, t)'
      BY <1>0, <1>2, <2>1, <3>1, GrowthKeeps DEF StuckAt, ConflictsStuck
    <3> QED
      BY <2>1, <3>1, <3>2
  <2>2. ASSUME NEW c \in Controllers, MarkConflict(c) PROVE StuckAt(marker.at, marker.task)'
    <3>1. pc[c] = "marking" /\ marker' = [task |-> stopped[c], at |-> Len(head[c]), again |-> stopped[c] \in Merged(history)]
      BY <2>2 DEF MarkConflict
    <3>2. StuckAt(Len(head[c]), stopped[c])
      BY <3>1, StoppedTask DEF ConflictsStuck, ConflictPCs, Tasks
    <3>3. PICK n, t : n = Len(head[c]) /\ t = stopped[c]
      OBVIOUS
    <3>4. StuckAt(n, t)'
      BY <2>2, <3>2, <3>3, StuckStays DEF MarkConflict, taskVars
    <3> QED
      BY <3>1, <3>3, <3>4
  <2>3. ASSUME NEW c \in Controllers, ArchiveMarker(c) PROVE FALSE
    BY <1>2, <2>3 DEF ArchiveMarker, NoMarker
  <2> QED
    BY <2>1, <2>2, <2>3, WritersStep DEF Writers
<1> QED
  BY <1>1, <1>2 DEF ConflictsStuck

LEMMA StopsQueue ==
  ASSUME TInv, HistInv, ConflictsStuck
  PROVE  ConflictStopsQueue
<1> SUFFICES ASSUME marker.task # 0, marker.task \notin Merged(history)
             PROVE  marker.at = Len(history) /\ Conflicts(marker.task, history)
  BY DEF ConflictStopsQueue
<1>1. StuckAt(marker.at, marker.task)
  BY DEF ConflictsStuck
<1>2. Len(history) \in Nat
  BY HistoryTypes DEF TInv, RefTypes
<1>3. ASSUME marker.at # Len(history) PROVE FALSE
  <2>1. history[marker.at + 1].task = marker.task
    BY <1>1, <1>3, OnlyNext DEF StuckAt
  <2>2. marker.at + 1 \in 1..Len(history)
    BY <1>1, <1>2, <1>3 DEF StuckAt
  <2> QED
    BY <2>1, <2>2 DEF Merged
<1> QED
  BY <1>1, <1>3 DEF StuckAt, ConflictAt, Conflicts

(***************************************************************************)
(* Decisions.                                                              *)
(***************************************************************************)
(* After an abort nobody moves the ref, and nobody takes the abort back.   *)
LEMMA AbortFreezes ==
  ASSUME TInv, HistInv, ConflictsStuck, AbortHolds, RepairHolds, decision.what = "ABORT", [Next]_vars
  PROVE  UNCHANGED <<history, decision>>
<1>1. StuckAt(Len(history), decision.task)
  BY DEF AbortHolds
<1>2. UNCHANGED history
  <2>1. ASSUME NEW c \in Controllers, MergeTask(c) PROVE FALSE
    <3>1. PICK t \in Tasks : NextAt(Len(history), t) /\ ~ConflictAt(Len(history), t)
      BY <2>1, MergeFacts
    <3> QED
      BY <1>1, <3>1, NextUnique DEF StuckAt, HistInv
  <2>2. ASSUME NEW c \in Controllers, AdvanceRef(c) PROVE UNCHANGED history
    <3>1. stopped[c] \in Before(Len(history))
      BY <2>2 DEF RepairHolds, AdvanceRef, RepairPCs, WorkPCs
    <3> QED
      BY <2>2, <3>1, AdvanceFacts DEF NextAt
  <2> QED
    BY <2>1, <2>2, WritersStep DEF Writers
<1>3. UNCHANGED decision
  <2>1. ASSUME NEW t \in Tasks, HumanDecides(t) PROVE UNCHANGED decision
    BY <2>1 DEF HumanDecides, RecordHumanDecision, TInv, DecisionTypes
  <2>2. ASSUME NEW c \in Controllers, ArchiveDecision(c) PROVE FALSE
    <3>1. stopped[c] \in Before(Len(history))
      BY <2>2 DEF RepairHolds, ArchiveDecision, LandedPCs
    <3>2. decision.task = stopped[c]
      BY <2>2 DEF ArchiveDecision, TInv, DecisionTypes
    <3> QED
      BY <1>1, <3>1, <3>2 DEF StuckAt, NextAt
  <2> QED
    BY <2>1, <2>2, WritersStep DEF Writers
<1> QED
  BY <1>2, <1>3

(* The live gate of task t is the conflict at the head.                    *)
LEMMA LiveGate ==
  ASSUME TInv, ConflictsStuck, NEW t \in Tasks, NEW h, GateLive(t, h)
  PROVE  StuckAt(Len(history), t) /\ history = h
<1>1. history = h /\ marker.task = t /\ marker.at = Len(history)
  BY DEF GateLive, Classified
<1>2. marker.task # 0
  BY <1>1 DEF Tasks
<1> QED
  BY <1>1, <1>2 DEF ConflictsStuck

LEMMA AbortStep ==
  ASSUME TInv, TInv', HistInv, ConflictsStuck, AbortHolds, RepairHolds, [Next]_vars
  PROVE  AbortHolds'
<1>0. Grows
  BY GrowsStep
<1>f. decision.what = "ABORT" => UNCHANGED <<history, decision>>
  BY AbortFreezes
<1>1. ASSUME decision'.what = "ABORT" PROVE StuckAt(Len(history), decision.task)'
  <2>1. CASE decision.what = "ABORT"
    <3>1. PICK n, t : n = Len(history) /\ t = decision.task
      OBVIOUS
    <3>2. StuckAt(n, t)
      BY <2>1, <3>1 DEF AbortHolds
    <3>3. StuckAt(n, t)'
      BY <1>0, <3>2, GrowthKeeps DEF StuckAt
    <3> QED
      BY <1>f, <2>1, <3>1, <3>3
  <2>2. CASE decision.what # "ABORT"
    <3>1. PICK t \in Tasks : HumanDecides(t)
      BY <1>1, <2>2, WritersStep DEF Writers, ArchiveDecision, NoDecision
    <3>2. decision'.task = t /\ GateLive(t, CurrentConflict(t)) /\ UNCHANGED <<history, exec, base>>
      BY <1>1, <2>2, <3>1 DEF HumanDecides, RecordHumanDecision, taskVars
    <3>3. PICK n : n = Len(history)
      OBVIOUS
    <3>4. StuckAt(n, t)'
      BY <3>2, <3>3, LiveGate, StuckStays
    <3> QED
      BY <3>2, <3>3, <3>4
  <2> QED
    BY <2>1, <2>2
<1>2. ASSUME human'.what = "ABORT" PROVE decision' = human'
  BY <1>2, <1>f, WritersStep DEF Writers, AbortHolds, HumanDecides, HumanRecords, NoDecision
<1>3. ASSUME NEW t \in Tasks, decisionRows'[t] = "ABORT" PROVE decision' = [task |-> t, what |-> "ABORT"]
  <2>1. CASE decisionRows[t] = "ABORT"
    BY <1>f, <2>1 DEF AbortHolds
  <2>2. CASE decisionRows[t] # "ABORT"
    <3>1. HumanRecords /\ human.task = t /\ human.what = "ABORT"
      BY <1>3, <2>2, WritersStep DEF Writers, HumanRecords, TInv, RowTypes
    <3>2. decision = [task |-> t, what |-> "ABORT"]
      BY <3>1 DEF AbortHolds, TInv, DecisionTypes, Choices
    <3> QED
      BY <1>f, <3>2
  <2> QED
    BY <2>1, <2>2
<1>4. ASSUME NEW c \in Controllers, pc'[c] = "aborting" PROVE decision' = [task |-> stopped'[c], what |-> "ABORT"]
  <2>1. CASE Same(c)
    BY <1>4, <1>f, <2>1 DEF Same, AbortHolds
  <2>2. CASE PersistGate(c)
    <3>1. stopped'[c] = stopped[c] /\ UNCHANGED decision /\ decision.task \in {0, stopped[c]} /\ GateState = "ABORTED"
      BY <1>4, <2>2 DEF PersistGate, GateLive, DecisionRecovered, gitVars, Leave, Go, TInv, ControlTypes
    <3>2. decision.what = "ABORT"
      BY <3>1 DEF GateState, TInv, DecisionTypes, Choices, Decisions
    <3> QED
      BY <3>1, <3>2 DEF TInv, DecisionTypes, Choices
  <2>3. CASE Left(c)
    BY <1>4, <2>3 DEF Left
  <2>4. ASSUME Works(c), ~PersistGate(c) PROVE FALSE
    BY <1>4, <2>4 DEF Works, Load, OpenQueue, MergeTask, DetectConflict, MarkConflict, PersistSnapshot, RecordConflict,
       LoadRepair, AnchorRepair, ReuseRepair, ProduceRepair, RecordRepair, AdvanceRef, ArchiveMarker,
       ArchiveDecision, Leave, Go, TInv, ControlTypes
  <2> QED
    BY <2>1, <2>2, <2>3, <2>4, LocalStep
<1> QED
  BY <1>1, <1>2, <1>3, <1>4 DEF AbortHolds

(***************************************************************************)
(* Repairs.                                                                *)
(***************************************************************************)
(* A repair row is written once.                                           *)
LEMMA RowsAreFinal ==
  ASSUME TInv, [Next]_vars, NEW t \in Tasks, repairRows[t] # 0
  PROVE  repairRows'[t] = repairRows[t]
BY WritersStep DEF Writers, RecordRepair, TInv, RepairTypes

(* How a controller comes to repair.                                       *)
LEMMA RepairControl ==
  ASSUME TInv, [Next]_vars, NEW c \in Controllers, pc'[c] \in RepairPCs
  PROVE  /\ stopped'[c] = stopped[c] /\ head'[c] = head[c] /\ stopped[c] \in Tasks
         /\ \/ pc[c] \in RepairPCs
            \/ GateLive(stopped[c], head[c]) /\ GateState = "REPAIR_AUTHORIZED" /\ UNCHANGED <<decision, history, base>>
         /\ pc'[c] \in LandedPCs => pc[c] \in LandedPCs \/ AdvanceRef(c)
         /\ pc'[c] = "repairing" => Same(c) \/ LoadRepair(c)
         /\ pc'[c] = "advancing" => Same(c) \/ AnchorRepair(c) \/ RecordRepair(c)
<1> USE DEF LandedPCs, WorkPCs, RepairPCs, ConflictPCs
<1>1. CASE Same(c)
  BY <1>1, StoppedTask DEF Same
<1>2. CASE Left(c)
  BY <1>2 DEF Left
<1>3. CASE Works(c)
  <2> USE StoppedTask DEF Go, TInv, ControlTypes
  <2>1. CASE PersistGate(c)
    BY <2>1 DEF PersistGate, Leave, gitVars, taskVars
  <2>2. CASE LoadRepair(c)
    BY <2>2 DEF LoadRepair
  <2>3. CASE AnchorRepair(c)
    BY <2>3 DEF AnchorRepair, ReuseRepair, ProduceRepair
  <2>4. CASE RecordRepair(c)
    BY <2>4 DEF RecordRepair
  <2>5. CASE AdvanceRef(c)
    BY <2>5 DEF AdvanceRef
  <2>6. CASE ArchiveMarker(c) \/ ArchiveDecision(c)
    BY <2>6 DEF ArchiveMarker, ArchiveDecision
  <2>7. CASE Load(c) \/ OpenQueue(c) \/ MergeTask(c) \/ DetectConflict(c) \/ MarkConflict(c) \/ PersistSnapshot(c) \/ RecordConflict(c)
    BY <2>7 DEF Load, OpenQueue, MergeTask, DetectConflict, MarkConflict, PersistSnapshot, RecordConflict, Leave
  <2> QED
    BY <1>3, <2>1, <2>2, <2>3, <2>4, <2>5, <2>6, <2>7 DEF Works
<1> QED
  BY <1>1, <1>2, <1>3, LocalStep

LEMMA RepairStep ==
  ASSUME TInv, TInv', HistInv, ConflictsStuck, RepairHolds, [Next]_vars
  PROVE  RepairHolds'
<1>0. Grows
  BY GrowsStep
<1>m. ASSUME NEW t \in Before(Len(history)) PROVE t \in Before(Len(history))'
  <2>1. Len(history) \in Nat /\ Len(history') \in Nat
    BY HistoryTypes DEF TInv, RefTypes
  <2> QED
    BY <1>0, <2>1 DEF Before, Grows, IsPrefixOf
<1>1. ASSUME NEW c \in Controllers, pc'[c] \in RepairPCs
      PROVE  /\ Authorizable(stopped[c], head[c])'
             /\ \/ stopped'[c] \in Before(Len(history))'
                \/ decision' = [task |-> stopped'[c], what |-> "AUTHORIZE_REPAIR"]
  <2>c. stopped'[c] = stopped[c] /\ head'[c] = head[c] /\ stopped[c] \in Tasks
    BY <1>1, RepairControl
  <2>1. CASE pc[c] \in RepairPCs
    <3>1. base'[stopped[c]] = base[stopped[c]]
      <4>1. stopped[c] # 0
        BY <2>c DEF Tasks
      <4> QED
        BY <1>0, <2>c, <4>1 DEF ConflictsStuck, StuckAt, NextAt, Grows, Terminal
    <3>2. Authorizable(stopped[c], head[c])'
      BY <2>1, <2>c, <3>1 DEF RepairHolds, Authorizable
    <3>3. CASE stopped[c] \in Before(Len(history))
      BY <1>m, <2>c, <3>2, <3>3
    <3>4. CASE decision = [task |-> stopped[c], what |-> "AUTHORIZE_REPAIR"]
      <4>1. CASE UNCHANGED decision
        BY <2>c, <3>2, <3>4, <4>1
      <4>2. ASSUME NEW t \in Tasks, HumanDecides(t) PROVE UNCHANGED decision
        BY <2>c, <3>4, <4>2 DEF HumanDecides, RecordHumanDecision, Tasks
      <4>3. ASSUME NEW e \in Controllers, ArchiveDecision(e) PROVE stopped[c] \in Before(Len(history))
        <5>1. stopped[e] = stopped[c]
          BY <2>c, <3>4, <4>3 DEF ArchiveDecision, Tasks
        <5> QED
          BY <4>3, <5>1 DEF RepairHolds, ArchiveDecision, LandedPCs
      <4> QED
        BY <3>3, <4>1, <4>2, <4>3, WritersStep DEF Writers
    <3> QED
      BY <2>1, <3>3, <3>4 DEF RepairHolds
  <2>2. CASE GateLive(stopped[c], head[c]) /\ GateState = "REPAIR_AUTHORIZED" /\ UNCHANGED <<decision, history, base>>
    <3>1. decision.what = "AUTHORIZE_REPAIR"
      BY <2>2 DEF GateState
    <3>2. decision = [task |-> stopped[c], what |-> "AUTHORIZE_REPAIR"] /\ Authorizable(stopped[c], head[c])
      BY <2>2, <3>1 DEF GateLive, DecisionRecovered, TInv, DecisionTypes, Choices
    <3> QED
      BY <2>c, <2>2, <3>2 DEF Authorizable
  <2> QED
    BY <1>1, <2>1, <2>2, RepairControl
<1>2. ASSUME NEW c \in Controllers, pc'[c] \in LandedPCs PROVE stopped'[c] \in Before(Len(history))'
  <2>c. stopped'[c] = stopped[c] /\ (pc[c] \in LandedPCs \/ AdvanceRef(c))
    BY <1>2, RepairControl DEF RepairPCs, WorkPCs
  <2>1. CASE pc[c] \in LandedPCs
    BY <1>m, <2>c, <2>1 DEF RepairHolds
  <2>2. CASE AdvanceRef(c)
    <3>1. head[c] \in Seq(Merges) /\ history' = Append(head[c], [task |-> stopped[c], repair |-> work[c]])
      BY <2>2 DEF AdvanceRef, TInv, QueueTypes, Histories
    <3>2. Len(history') \in 1..Len(history') /\ history'[Len(history')].task = stopped[c]
      BY <3>1
    <3> QED
      BY <2>c, <3>2 DEF Before
  <2> QED
    BY <2>c, <2>1, <2>2
<1>3. ASSUME NEW c \in Controllers, pc'[c] = "repairing" PROVE work'[c] \in {0, repairRows'[stopped'[c]]}
  <2>c. stopped'[c] = stopped[c] /\ stopped[c] \in Tasks /\ (Same(c) \/ LoadRepair(c))
    BY <1>3, RepairControl DEF RepairPCs, WorkPCs
  <2>1. CASE Same(c)
    BY <1>3, <2>c, <2>1, RowsAreFinal DEF Same, RepairHolds
  <2>2. CASE LoadRepair(c)
    BY <2>c, <2>2 DEF LoadRepair, TInv, ControlTypes, rowVars
  <2> QED
    BY <2>c, <2>1, <2>2
<1>4. ASSUME NEW c \in Controllers, pc'[c] = "advancing" PROVE repairRows'[stopped'[c]] = work'[c]
  <2>c. stopped'[c] = stopped[c] /\ stopped[c] \in Tasks /\ (Same(c) \/ AnchorRepair(c) \/ RecordRepair(c))
    BY <1>4, RepairControl DEF RepairPCs, WorkPCs
  <2>1. CASE Same(c)
    <3>1. work[c] # 0 /\ repairRows[stopped[c]] = work[c]
      BY <1>4, <2>1 DEF Same, RepairHolds, TInv, ControlTypes, WorkPCs
    <3> QED
      BY <2>c, <2>1, <3>1, RowsAreFinal DEF Same
  <2>2. CASE AnchorRepair(c)
    BY <1>4, <2>c, <2>2 DEF AnchorRepair, ReuseRepair, ProduceRepair, Go, RepairHolds, TInv, ControlTypes, rowVars
  <2>3. CASE RecordRepair(c)
    BY <2>c, <2>3 DEF RecordRepair, TInv, RepairTypes
  <2> QED
    BY <2>c, <2>1, <2>2, <2>3
<1> QED
  BY <1>1, <1>2, <1>3, <1>4 DEF RepairHolds

LEMMA BackedStep ==
  ASSUME TInv, TInv', HistInv, ConflictsStuck, RepairHolds, RepairsBacked, [Next]_vars
  PROVE  RepairsBacked'
<1> SUFFICES ASSUME NEW i \in 1..Len(history'), history'[i].repair # 0
             PROVE  /\ repairRows'[history'[i].task] = history'[i].repair
                    /\ \A j \in (base'[history'[i].task] + 1)..(i - 1) : {history'[j].task, history'[i].task} \notin HardClash
  BY DEF RepairsBacked
<1>0. Grows
  BY GrowsStep
<1>t. Len(history) \in Nat /\ history \in Seq(Merges)
  BY DEF TInv, RefTypes, Histories
<1>1. CASE i \in 1..Len(history)
  <2>1. history'[i] = history[i] /\ history[i].task \in Tasks /\ exec[history[i].task] = "SUCCEEDED"
    BY <1>0, <1>1, HistoryTypes DEF Grows, IsPrefixOf, TInv, RefTypes, HistInv, HistoryRecoverable
  <2>2. base'[history[i].task] = base[history[i].task] /\ base[history[i].task] \in Nat
    BY <1>0, <2>1 DEF Grows, Terminal, TInv, TaskTypes
  <2>3. repairRows[history[i].task] = history[i].repair
    BY <1>1, <2>1 DEF RepairsBacked
  <2>4. repairRows'[history[i].task] = repairRows[history[i].task]
    BY <2>1, <2>3, RowsAreFinal
  <2>5. \A j \in (base[history[i].task] + 1)..(i - 1) : history'[j] = history[j]
    BY <1>0, <1>1, <1>t, <2>2 DEF Grows, IsPrefixOf
  <2> QED
    BY <1>1, <2>1, <2>2, <2>3, <2>4, <2>5 DEF RepairsBacked
<1>2. CASE i \notin 1..Len(history)
  <2>1. PICK c \in Controllers : MergeTask(c) \/ AdvanceRef(c)
    BY <1>2, WritersStep DEF Writers
  <2>2. ~MergeTask(c)
    <3> SUFFICES ASSUME MergeTask(c) PROVE FALSE
      OBVIOUS
    <3>1. PICK t \in Tasks : history' = Append(history, [task |-> t, repair |-> 0])
      BY MergeFacts
    <3> QED
      BY <1>2, <1>t, <3>1
  <2>3. /\ history = head[c] /\ UNCHANGED <<base, repairRows>> /\ stopped[c] \in Tasks
        /\ history' = Append(history, [task |-> stopped[c], repair |-> work[c]])
    BY <1>2, <2>1, <2>2, AdvanceFacts DEF AdvanceRef, rowVars
  <2>4. i = Len(history) + 1 /\ history'[i] = [task |-> stopped[c], repair |-> work[c]]
    BY <1>2, <1>t, <2>3
  <2>5. repairRows[stopped[c]] = work[c] /\ Authorizable(stopped[c], history)
    BY <2>1, <2>2, <2>3 DEF AdvanceRef, RepairHolds, RepairPCs, WorkPCs
  <2>6. base[stopped[c]] \in Nat
    BY <2>3 DEF TInv, TaskTypes
  <2>7. \A j \in (base[stopped[c]] + 1)..(i - 1) : history'[j] = history[j]
    BY <1>t, <2>3, <2>4, <2>6
  <2> QED
    BY <1>t, <2>3, <2>4, <2>5, <2>6, <2>7 DEF Authorizable
<1> QED
  BY <1>1, <1>2

LEMMA BackedMeansBacked ==
  ASSUME TInv, AbortHolds, RepairsBacked
  PROVE  RepairBacked
<1> SUFFICES ASSUME NEW i \in 1..Len(history), history[i].repair # 0
             PROVE  /\ decisionRows[history[i].task] # "ABORT"
                    /\ Authorizable(history[i].task, SubSeq(history, 1, i - 1))
  BY DEF RepairBacked, RepairsBacked
<1>1. history[i].task \in Tasks /\ history \in Seq(Merges) /\ Len(history) \in Nat
  BY HistoryTypes DEF TInv, RefTypes, Histories
<1>2. decisionRows[history[i].task] # "ABORT"
  <2> SUFFICES ASSUME decisionRows[history[i].task] = "ABORT" PROVE FALSE
    OBVIOUS
  <2>1. decision.what = "ABORT" /\ decision.task = history[i].task
    BY <1>1 DEF AbortHolds
  <2> QED
    BY <2>1 DEF AbortHolds, StuckAt, NextAt, Before
<1>3. Len(SubSeq(history, 1, i - 1)) = i - 1 /\ \A j \in 1..(i - 1) : SubSeq(history, 1, i - 1)[j] = history[j]
  BY <1>1
<1>4. base[history[i].task] \in Nat
  BY <1>1 DEF TInv, TaskTypes
<1>5. \A j \in (base[history[i].task] + 1)..(i - 1) :
        j \in 1..(i - 1) /\ {history[j].task, history[i].task} \notin HardClash
  BY <1>4 DEF RepairsBacked
<1>6. PICK h : h = SubSeq(history, 1, i - 1)
  OBVIOUS
<1>7. Authorizable(history[i].task, h)
  BY <1>3, <1>5, <1>6 DEF Authorizable
<1> QED
  BY <1>2, <1>6, <1>7

(***************************************************************************)
(* The end of the Run.                                                     *)
(***************************************************************************)
(* A nonempty set of tasks has a first one.                                *)
LEMMA NatLess == IsWellFoundedOn({ss \in Nat \X Nat : ss[1] < ss[2]}, Nat)
  BY NatLessThanWellFounded, Zenon DEF OpToRel

LEMMA FirstTask ==
  ASSUME NEW S \in SUBSET Tasks, S # {}
  PROVE  \E x \in S : \A y \in S : x <= y
<1> DEFINE R == {ss \in Nat \X Nat : ss[1] < ss[2]}
<1>0. IsWellFoundedOn(R, Nat)
  BY NatLess
<1>1. S \in SUBSET Nat
  BY DEF Tasks
<1> HIDE DEF R
<1>2. PICK x \in S : \A y \in S : ~(<<y, x>> \in R)
  BY <1>0, <1>1, WFMin
<1>3. \A y \in S : ~(y < x)
  BY <1>1, <1>2 DEF R
<1> QED
  BY <1>1, <1>3

(* If all tasks are accounted for by the rows of a controller that has     *)
(* nothing left to merge, then all that succeeded are in its head: the     *)
(* first one that was not would be next.                                   *)
LEMMA AllAccountedFor ==
  ASSUME TInv, HistInv, NEW c \in Controllers, Integrable(c) = {}, AllTerminal(seen[c], Having(seen[c], "FAILED"))
  PROVE  \A t \in Tasks : t \in Before(Len(head[c])) \cup NonSuccess(exec)
<1> DEFINE S == {t \in Tasks : seen[c][t] = "SUCCEEDED" /\ t \notin Merged(head[c])}
<1>1. \A t \in Tasks : seen[c][t] = "SUCCEEDED" \/ t \in NonSuccess(seen[c])
  BY DEF AllTerminal, NonSuccess, Having
<1>2. NonSuccess(seen[c]) \subseteq NonSuccess(exec)
  BY NonSuccessGrows DEF HistInv, SeenTrue
<1>3. Merged(head[c]) = Before(Len(head[c]))
  BY HeadFacts DEF HistInv, HeadsBehind, TInv, QueueTypes
<1>4. ASSUME S # {} PROVE FALSE
  <2>1. PICK t \in S : \A y \in S : t <= y
    BY <1>4, FirstTask
  <2>2. t \in Tasks /\ seen[c][t] = "SUCCEEDED" /\ t \notin Merged(head[c]) /\ exec[t] = "SUCCEEDED"
    BY DEF HistInv, SeenTrue
  <2>3. \A u \in 1..(t - 1) : u \in Tasks /\ u \notin S
    BY <2>1, <2>2 DEF Tasks
  <2>4. TopologicalGate(seen[c], Merged(head[c]), t)
    BY <1>1, <2>3 DEF TopologicalGate
  <2>5. ASSUME NEW d \in Deps[t] PROVE d \in Merged(head[c])
    <3>1. d \in Tasks /\ d \in 1..(t - 1)
      BY <2>2 DEF Tasks
    <3>2. exec[d] = "SUCCEEDED"
      <4>1. base[t] \in 0..Len(history) /\ d \in Before(base[t]) /\ Len(history) \in Nat
        BY <2>2, HistoryTypes DEF HistInv, BasesHold, TInv, RefTypes
      <4>2. PICK j \in 1..base[t] : history[j].task = d
        BY <4>1 DEF Before
      <4> QED
        BY <4>1, <4>2 DEF HistInv, HistoryRecoverable
    <3>3. d \notin NonSuccess(exec)
      BY <3>1, <3>2, SucceededNotDoomed DEF HistInv
    <3> QED
      BY <1>1, <1>2, <2>3, <3>1, <3>3
  <2>6. t \in Integrable(c)
    BY <2>2, <2>4, <2>5 DEF Integrable, IntegrateAccepts, ValidWorkerResult
  <2> QED
    BY <2>6
<1> QED
  BY <1>1, <1>2, <1>3, <1>4

(* A head that leaves no task to merge is the present one.                 *)
LEMMA NothingAfter ==
  ASSUME TInv, HistInv, NEW c \in Controllers, \A t \in Tasks : t \in Before(Len(head[c])) \cup NonSuccess(exec)
  PROVE  head[c] = history
<1>1. head[c] \in Seq(Merges) /\ history \in Seq(Merges) /\ Len(history) \in Nat
  BY DEF TInv, QueueTypes, RefTypes, Histories
<1>2. Len(head[c]) \in 0..Len(history) /\ \A i \in 1..Len(head[c]) : head[c][i] = history[i]
  BY HeadFacts DEF HistInv, HeadsBehind, TInv, QueueTypes, IsPrefixOf
<1>3. ASSUME Len(head[c]) # Len(history) PROVE FALSE
  <2> DEFINE n == Len(head[c]) + 1
  <2>1. n \in 1..Len(history)
    BY <1>1, <1>2, <1>3
  <2>2. history[n].task \in Tasks /\ exec[history[n].task] = "SUCCEEDED"
    BY <2>1, HistoryTypes DEF HistInv, HistoryRecoverable, TInv, RefTypes
  <2>3. history[n].task \notin NonSuccess(exec)
    BY <2>2, SucceededNotDoomed DEF HistInv
  <2>4. \A j \in 1..Len(head[c]) : history[j].task < history[n].task
    BY <1>2, <2>1 DEF HistInv, HistoryRecoverable
  <2> QED
    BY <2>2, <2>3, <2>4 DEF Before, Tasks
<1> QED
  BY <1>1, <1>2, <1>3

(* A controller that gives up a Run does so at the present head.           *)
LEMMA AbortedAtHead ==
  ASSUME TInv, HistInv, ConflictsStuck, AbortHolds, NEW c \in Controllers, pc[c] = "aborting"
  PROVE  decision.what = "ABORT" /\ head[c] = history
<1>1. decision = [task |-> stopped[c], what |-> "ABORT"] /\ stopped[c] \in Tasks /\ stopped[c] # 0
  BY StoppedTask DEF AbortHolds, ConflictPCs, Tasks
<1>2. StuckAt(Len(history), stopped[c]) /\ StuckAt(Len(head[c]), stopped[c])
  BY <1>1 DEF AbortHolds, ConflictsStuck
<1>3. head[c] \in Seq(Merges) /\ history \in Seq(Merges) /\ Len(history) \in Nat
  BY DEF TInv, QueueTypes, RefTypes, Histories
<1>4. Len(head[c]) \in 0..Len(history) /\ \A i \in 1..Len(head[c]) : head[c][i] = history[i]
  BY HeadFacts DEF HistInv, HeadsBehind, TInv, QueueTypes, IsPrefixOf
<1>5. ASSUME Len(head[c]) # Len(history) PROVE FALSE
  <2>1. history[Len(head[c]) + 1].task = stopped[c]
    BY <1>1, <1>2, <1>4, <1>5, OnlyNext DEF StuckAt
  <2> QED
    BY <1>2, <1>3, <1>4, <1>5, <2>1 DEF StuckAt, NextAt, Before
<1> QED
  BY <1>1, <1>3, <1>4, <1>5

(* Nobody moves the ref of a terminal Run.                                 *)
LEMMA TerminalFreezes ==
  ASSUME TInv, HistInv, ConflictsStuck, AbortHolds, RepairHolds, FinalHolds, run # "RUNNING", [Next]_vars
  PROVE  UNCHANGED <<history, run, finalHead>>
<1>1. UNCHANGED runVars
  BY WritersStep DEF Writers, FinalizeAbort, FinalizeFailed, FinalizeSucceeded, Finalize
<1>2. CASE decision.what = "ABORT"
  BY <1>1, <1>2, AbortFreezes DEF runVars
<1>3. CASE Settled
  <2>1. ASSUME NEW t \in Tasks, NextAt(Len(history), t) PROVE FALSE
    BY <1>3, <2>1, SucceededNotDoomed DEF Settled, NextAt, HistInv
  <2>2. UNCHANGED history
    BY <2>1, MergeFacts, AdvanceFacts, WritersStep DEF Writers
  <2> QED
    BY <1>1, <2>2 DEF runVars
<1> QED
  BY <1>2, <1>3 DEF FinalHolds

LEMMA FinalStep ==
  ASSUME TInv, TInv', HistInv, ConflictsStuck, AbortHolds, RepairHolds, FinalHolds, [Next]_vars
  PROVE  FinalHolds'
<1>0. Grows
  BY GrowsStep
<1>1. ASSUME NEW c \in Controllers, pc'[c] = "settling" PROVE Integrable(c)' = {}
  <2>1. pc[c] = "settling" \/ Integrable(c) = {}
    <3>1. CASE Same(c) \/ Left(c)
      BY <1>1, <3>1 DEF Same, Left
    <3>2. CASE Works(c)
      BY <1>1, <3>2 DEF Works, Load, OpenQueue, MergeTask, DetectConflict, MarkConflict, PersistSnapshot, RecordConflict,
         PersistGate, LoadRepair, AnchorRepair, ReuseRepair, ProduceRepair, RecordRepair, AdvanceRef, ArchiveMarker,
         ArchiveDecision, Leave, Go, TInv, ControlTypes
    <3> QED
      BY <3>1, <3>2, LocalStep
  <2>2. seen'[c] = seen[c] /\ head'[c] = head[c]
    <3>1. CASE Same(c) \/ Left(c)
      BY <1>1, <3>1 DEF Same, Left
    <3>2. CASE Works(c)
      BY <1>1, <3>2 DEF Works, Load, OpenQueue, MergeTask, DetectConflict, MarkConflict, PersistSnapshot, RecordConflict,
         PersistGate, LoadRepair, AnchorRepair, ReuseRepair, ProduceRepair, RecordRepair, AdvanceRef, ArchiveMarker,
         ArchiveDecision, Leave, Go, TInv, ControlTypes
    <3> QED
      BY <3>1, <3>2, LocalStep
  <2>3. Integrable(c) = {}
    BY <2>1 DEF FinalHolds
  <2> QED
    BY <2>2, <2>3 DEF Integrable
<1>2. CASE run # "RUNNING"
  <2>1. UNCHANGED <<history, run, finalHead>>
    BY <1>2, TerminalFreezes
  <2>2. decision.what = "ABORT" => decision'.what = "ABORT"
    BY AbortFreezes
  <2>3. NonSuccess(exec) \subseteq NonSuccess(exec')
    BY <1>0, NonSuccessGrows DEF Grows, Terminal
  <2>4. Settled => Settled'
    BY <2>1, <2>3 DEF Settled, Before
  <2> QED
    BY <1>1, <1>2, <2>1, <2>2, <2>4 DEF FinalHolds
<1>3. CASE run = "RUNNING" /\ run' = "RUNNING"
  BY <1>1, <1>3 DEF FinalHolds
<1>4. CASE run = "RUNNING" /\ run' # "RUNNING"
  <2>1. PICK c \in Controllers : FinalizeAbort(c) \/ FinalizeFailed(c) \/ FinalizeSucceeded(c)
    BY <1>4, WritersStep DEF Writers, runVars
  <2>2. finalHead' = head[c] /\ UNCHANGED <<history, decision, exec>>
    BY <2>1 DEF FinalizeAbort, FinalizeFailed, FinalizeSucceeded, Finalize, gitVars, taskVars
  <2>3. CASE FinalizeAbort(c)
    <3>1. decision.what = "ABORT" /\ head[c] = history /\ run' = "FAILED"
      BY <2>3, AbortedAtHead DEF FinalizeAbort, Finalize
    <3> QED
      BY <1>1, <2>2, <3>1 DEF FinalHolds
  <2>4. CASE FinalizeFailed(c)
    <3>1. run' = "FAILED" /\ \A t \in Tasks : t \in Before(Len(head[c])) \cup NonSuccess(exec)
      BY <2>4, AllAccountedFor DEF FinalizeFailed, Finalize, FinalHolds
    <3>2. head[c] = history
      BY <3>1, NothingAfter
    <3>3. Settled'
      BY <2>2, <3>1, <3>2 DEF Settled, Before
    <3> QED
      BY <1>1, <2>2, <3>1, <3>2, <3>3 DEF FinalHolds
  <2>5. CASE FinalizeSucceeded(c)
    <3>1. Merged(head[c]) = Tasks
      BY <2>5 DEF FinalizeSucceeded, ValidateSuccess
    <3>2. \A t \in Tasks : t \in Before(Len(head[c])) \cup NonSuccess(exec)
      BY <3>1, HeadFacts DEF HistInv, HeadsBehind, TInv, QueueTypes
    <3>3. head[c] = history
      BY <3>2, NothingAfter
    <3>4. Settled'
      BY <2>2, <3>2, <3>3 DEF Settled, Before
    <3> QED
      BY <1>1, <2>2, <3>1, <3>3, <3>4 DEF FinalHolds
  <2> QED
    BY <2>1, <2>3, <2>4, <2>5
<1> QED
  BY <1>2, <1>3, <1>4

(***************************************************************************)
(* Theorems.                                                               *)
(***************************************************************************)
LEMMA InitInv == Init => Inv
<1> SUFFICES ASSUME Init PROVE Inv
  OBVIOUS
<1>1. TInv
  BY InitTypes
<1>2. HistInv
  BY DEF Init, HistInv, SeenTrue, HeadsBehind, BasesHold, HistoryRecoverable, NoneSkipped, IsPrefixOf
<1>3. ConflictsStuck /\ AbortHolds /\ RepairHolds /\ RepairsBacked
  BY DEF Init, ConflictsStuck, AbortHolds, RepairHolds, RepairsBacked, NoMarker, NoDecision, RepairPCs, WorkPCs, LandedPCs
<1>4. FinalHolds
  BY DEF Init, FinalHolds
<1> QED
  BY <1>1, <1>2, <1>3, <1>4 DEF Inv

LEMMA InvStep == Inv /\ [Next]_vars => Inv'
  BY TypesStep, HistInvStep, ConflictsStep, AbortStep, RepairStep, BackedStep, FinalStep DEF Inv

LEMMA InvHolds == Spec => []Inv
  BY InitInv, InvStep, PTL DEF Spec

(* However many controllers race over the ref, the history is one that     *)
(* every later recovery accepts.                                           *)
THEOREM HistoryTheorem == Spec => []HistoryRecoverable
<1>1. Inv => HistoryRecoverable
  BY DEF Inv, HistInv
<1> QED
  BY <1>1, InvHolds, PTL

(* A conflict that is marked and not repaired holds the queue where it is. *)
THEOREM ConflictTheorem == Spec => []ConflictStopsQueue
<1>1. Inv => ConflictStopsQueue
  BY StopsQueue DEF Inv
<1> QED
  BY <1>1, InvHolds, PTL

(* Every repaired commit of the ref has its durable row, was not aborted   *)
(* and touches nothing that the policy keeps from Agents.                  *)
THEOREM RepairTheorem == Spec => []RepairBacked
<1>1. Inv => RepairBacked
  BY BackedMeansBacked DEF Inv
<1> QED
  BY <1>1, InvHolds, PTL

(* The result of a Run is final: SUCCEEDED means that every task is in the *)
(* history, and no controller moves the ref of a terminal Run.             *)
THEOREM ResultTheorem == Spec => ResultIsFinal
<1>1. Inv => TypeOK /\ SucceededIsIntegrated
  BY TypesOK DEF Inv, FinalHolds, SucceededIsIntegrated
<1>2. Inv /\ [Next]_vars => [run # "RUNNING" => history' = history /\ finalHead = history]_vars
  BY TerminalFreezes DEF Inv, FinalHolds
<1>3. Spec => [](TypeOK /\ SucceededIsIntegrated)
  BY <1>1, InvHolds, PTL
<1>4. Spec => ReportedHeadIsFinal
  BY <1>2, InvHolds, PTL DEF Spec, ReportedHeadIsFinal
<1> QED
  BY <1>3, <1>4 DEF ResultIsFinal

=============================================================================
