--------------------------- MODULE RunIntegration ---------------------------
(***************************************************************************)
(* Integration of a Run of several tasks: DurableMultiAgentRunController   *)
(* (runtime/product_controller.py) with the merge queue it drives over Git *)
(* refs (merge_queue.py, repair_merge_queue.py), the human gate            *)
(* (integration_gate.py, durable_human_gate.py), the bounded repair        *)
(* (integration_repair.py) and the evidence rows they leave.               *)
(*                                                                         *)
(* Any number of controllers advance the same Run: every worker runs one   *)
(* after its task, the API after a human decision.  A controller reads the *)
(* evidence, then Git, then mutates Git, then writes evidence, and nothing *)
(* holds these together: each is an action.  Whatever a controller raises, *)
(* and its death, leave what it has written behind: that is Stop, and the  *)
(* retry of advance() is the Load that follows it.                         *)
(*                                                                         *)
(* A task is its position in dag.topological_order().  The integration ref *)
(* is its first-parent history above the Run base; commits are named by    *)
(* the history they end.                                                   *)
(***************************************************************************)
EXTENDS Naturals, Sequences, FiniteSets

CONSTANTS
  TaskCount,     \* number of tasks of the DAG
  Deps,          \* depends_on of each task
  Clash,         \* pairs of tasks whose changes conflict in Git
  HardClash,     \* those whose conflict touches what no repair may touch
  Controllers,   \* processes that may call advance()
  Leased,        \* tasks that were executed under a lease, hence have a run_token
  MaxRepairs     \* bound on repair commits an Agent produces

Tasks == 1..TaskCount

ASSUME DAGAssumption ==
  /\ TaskCount \in Nat \ {0, 1}
  /\ Deps \in [Tasks -> SUBSET Tasks]
  /\ \A t \in Tasks : \A d \in Deps[t] : d < t

ASSUME EnvironmentAssumption ==
  /\ Clash \subseteq SUBSET Tasks /\ HardClash \subseteq Clash
  /\ Leased \subseteq Tasks
  /\ MaxRepairs \in Nat

VARIABLES
  run,          \* Run.status
  finalHead,    \* integration_head of the terminal result
  exec,         \* WORKER_EXECUTION of each task, RUNNING while a worker has it
  base,         \* length of the integration history the task started from
  dispatched,   \* tasks reconcile_run has handed to the task reconciler
  history,      \* refs/devflow/integration: sequence of merged tasks
  marker,       \* refs/devflow/integration-conflicts
  decision,     \* the human decision ref
  staging,      \* refs/devflow/integration-repairs of each task's conflict
  snapshots,    \* MERGE_QUEUE_SNAPSHOT rows, in order
  conflictRows, \* tasks with a MERGE_CONFLICT row
  gateRows,     \* tasks with an INTEGRATION_GATE row
  decisionRows, \* HUMAN_DECISION row of each task's conflict
  repairRows,   \* INTEGRATION_REPAIR row of each task's conflict: its commit
  repairs,      \* number of repair commits made so far
  pc,           \* control point of each controller
  seen,         \* WORKER_EXECUTION rows the controller loaded
  head,         \* the history its queue recovered or extended
  stopped,      \* task whose conflict stopped its queue (0: none)
  work,         \* repair commit it is applying
  human         \* the decision whose rows the API still has to write

runVars  == <<run, finalHead>>
taskVars == <<exec, base, dispatched>>
gitVars  == <<history, marker, decision, staging>>
rowVars  == <<snapshots, conflictRows, gateRows, decisionRows, repairRows>>
ctlVars  == <<pc, seen, head, stopped, work>>
vars == <<runVars, taskVars, gitVars, rowVars, repairs, ctlVars, human>>

Statuses  == {"NONE", "RUNNING", "SUCCEEDED", "FAILED"}
Terminal  == {"SUCCEEDED", "FAILED"}
Decisions == {"AUTHORIZE_REPAIR", "ABORT"}
PCs == {"idle", "loaded", "integrating", "marking", "gating", "gated", "aborting",
        "authorized", "repairing", "recording", "advancing", "archiving", "deciding", "releasing", "settling"}

(* A marker commit carries the time it was made: one that is made again    *)
(* after its conflict was repaired is another commit.                      *)
NoMarker   == [task |-> 0, at |-> 0, again |-> FALSE]
NoDecision == [task |-> 0, what |-> "NONE"]

Merged(h) == {h[i].task : i \in 1..Len(h)}

(* What a task depends on, directly or not: the smallest set that holds    *)
(* its dependencies and theirs.                                            *)
Ancestors == [t \in Tasks |-> {a \in Tasks :
  \A S \in SUBSET Tasks : Deps[t] \subseteq S /\ (\A u \in S : Deps[u] \subseteq S) => a \in S}]

(* The descendants of failed tasks: dag.blocked_task_ids.                  *)
Blocked(failed) == {t \in Tasks \ failed : Ancestors[t] \cap failed # {}}

Having(e, status) == {t \in Tasks : e[t] = status}

(* A task that will never be merged: FAILED, or BLOCKED behind one.        *)
NonSuccess(e) == Having(e, "FAILED") \cup Blocked(Having(e, "FAILED"))

(* git merge-tree of a task on history h reports a conflict: h holds a     *)
(* clashing task that was not in the commit the task started from.         *)
Conflicts(t, h) == \E i \in (base[t] + 1)..Len(h) : {h[i].task, t} \in Clash

(* policy.evaluate: human_repair_authorizable, that is no conflicting path *)
(* is protected, out of the task's scope, binary or not a regular file.    *)
Authorizable(t, h) == \A i \in (base[t] + 1)..Len(h) : {h[i].task, t} \notin HardClash

Init ==
  /\ run = "RUNNING" /\ finalHead = <<>>
  /\ exec = [t \in Tasks |-> "NONE"]
  /\ base = [t \in Tasks |-> 0]
  /\ dispatched = {}
  /\ history = <<>> /\ marker = NoMarker /\ decision = NoDecision
  /\ staging = [t \in Tasks |-> 0]
  /\ snapshots = <<>>
  /\ conflictRows = {} /\ gateRows = {}
  /\ decisionRows = [t \in Tasks |-> "NONE"]
  /\ repairRows = [t \in Tasks |-> 0]
  /\ repairs = 0
  /\ pc = [c \in Controllers |-> "idle"]
  /\ seen = [c \in Controllers |-> [t \in Tasks |-> "NONE"]]
  /\ head = [c \in Controllers |-> <<>>]
  /\ stopped = [c \in Controllers |-> 0]
  /\ work = [c \in Controllers |-> 0]
  /\ human = NoDecision

Go(c, next) == pc' = [pc EXCEPT ![c] = next]

(* The end of advance(), by return, exception or death.                    *)
Leave(c) ==
  /\ Go(c, "idle")
  /\ seen' = [seen EXCEPT ![c] = [t \in Tasks |-> "NONE"]]
  /\ head' = [head EXCEPT ![c] = <<>>]
  /\ stopped' = [stopped EXCEPT ![c] = 0]
  /\ work' = [work EXCEPT ![c] = 0]

Stop(c) ==
  /\ pc[c] # "idle"
  /\ Leave(c)
  /\ UNCHANGED <<runVars, taskVars, gitVars, rowVars, repairs, human>>

(***************************************************************************)
(* Snapshots and the execution base of a dependent task.                   *)
(***************************************************************************)
IsPrefixOf(g, h) == Len(g) <= Len(h) /\ \A i \in 1..Len(g) : g[i] = h[i]

(* The terminal rows of WORKER_EXECUTION.                                  *)
WorkerEvidence == [t \in Tasks |-> IF exec[t] \in Terminal THEN exec[t] ELSE "NONE"]

SuccessfulWorkers == Having(WorkerEvidence, "SUCCEEDED")

(* A stopped history goes on with the repair of exactly its conflict.      *)
ResumedByRepair(p, q) ==
  p.stopped # 0 => LET r == q.hist[Len(p.hist) + 1]
                   IN  r.task = p.stopped /\ r.repair # 0

(* What _validated_merge_snapshots demands of two consecutive rows.        *)
Extends(p, q) ==
  \/ p = q
  \/ p.hist = q.hist /\ p.stopped = 0
  \/ IsPrefixOf(p.hist, q.hist) /\ p.hist # q.hist /\ ResumedByRepair(p, q)

RepairEvidence(t) == repairRows[t]

RepairDecisions == {t \in Tasks : decisionRows[t] = "AUTHORIZE_REPAIR"}

(* A repaired attempt is bound to its repair and decision rows.            *)
Bound(r) == r.repair # 0 => RepairEvidence(r.task) = r.repair /\ r.task \in RepairDecisions

(* A task may stand at the end of history h: its worker succeeded on a     *)
(* head of h that contained its dependencies, and h holds no later task.   *)
MayFollow(t, h) ==
  /\ t \in SuccessfulWorkers
  /\ base[t] <= Len(h)
  /\ Deps[t] \subseteq Merged(SubSeq(h, 1, base[t]))
  /\ \A u \in Merged(h) : u < t

HistoryValid(s) ==
  /\ \A i \in 1..Len(s.hist) : MayFollow(s.hist[i].task, SubSeq(s.hist, 1, i - 1)) /\ Bound(s.hist[i])
  /\ s.stopped # 0 => MayFollow(s.stopped, s.hist)

SnapshotsValid ==
  /\ \A i \in 1..Len(snapshots) : HistoryValid(snapshots[i])
  /\ \A i \in 1..Len(snapshots) - 1 : Extends(snapshots[i], snapshots[i + 1])

Latest == snapshots[Len(snapshots)]

(* _select_base finds a commit for t.                                      *)
BaseAvailable(t) ==
  \/ Deps[t] = {}
  \/ /\ snapshots # <<>>
     /\ SnapshotsValid
     /\ Latest.stopped = 0
     /\ Deps[t] \subseteq Merged(Latest.hist)

(* The commit resolve() answers with: the Run base or an accepted head.    *)
ExecutionBase(t) == IF Deps[t] = {} THEN 0 ELSE Len(Latest.hist)

(***************************************************************************)
(* Workers, as seen from here.  The base of a task is resolved a second    *)
(* time when its worker starts; a base that is not available then is an    *)
(* exception and hence FAILED evidence.  A recovery generation starts over.*)
(***************************************************************************)
StartTask(t) ==
  /\ t \in dispatched
  /\ exec[t] \in {"NONE", "RUNNING"}
  /\ run = "RUNNING"
  /\ \/ /\ BaseAvailable(t)
        /\ exec' = [exec EXCEPT ![t] = "RUNNING"]
        /\ base' = [base EXCEPT ![t] = ExecutionBase(t)]
     \/ /\ ~BaseAvailable(t)
        /\ exec' = [exec EXCEPT ![t] = "FAILED"]
        /\ UNCHANGED base
  /\ UNCHANGED <<runVars, dispatched, gitVars, rowVars, repairs, ctlVars, human>>

FinishTask(t) ==
  /\ exec[t] = "RUNNING"
  /\ run = "RUNNING"
  /\ \E s \in Terminal : exec' = [exec EXCEPT ![t] = s]
  /\ UNCHANGED <<runVars, base, dispatched, gitVars, rowVars, repairs, ctlVars, human>>

(***************************************************************************)
(* advance(): evidence first, then Git.                                    *)
(***************************************************************************)
(* Fault: rows of executions that are still running count as terminal.    *)
LoadUnfiltered(c) ==
  /\ pc[c] = "idle"
  /\ run = "RUNNING"
  /\ seen' = [seen EXCEPT ![c] = exec]
  /\ Go(c, "loaded")
  /\ UNCHANGED <<runVars, taskVars, gitVars, rowVars, repairs, head, stopped, work, human>>

Load(c) ==
  /\ pc[c] = "idle"
  /\ run = "RUNNING"
  /\ seen' = [seen EXCEPT ![c] = WorkerEvidence]
  /\ Go(c, "loaded")
  /\ UNCHANGED <<runVars, taskVars, gitVars, rowVars, repairs, head, stopped, work, human>>

(* The live marker is not the one that a repaired commit of the history    *)
(* names.                                                                  *)
Unresolved ==
  /\ marker.task # 0
  /\ marker.again \/ \A i \in 1..Len(history) :
                      history[i].task = marker.task => history[i].repair = 0

(* The worker's commit is the one of a task the scheduler has SUCCEEDED.   *)
ValidWorkerResult(e, t) == e[t] = "SUCCEEDED"

(* Every earlier task is integrated or will never be.                      *)
TopologicalGate(e, integrated, t) == \A u \in 1..(t - 1) : u \in integrated \cup NonSuccess(e)

(* git merge-tree still answers what the commit says of it: a clean merge, *)
VerifyIntegrationCommit(h, i) == ~Conflicts(h[i].task, SubSeq(h, 1, i - 1))

(* ... or the conflict that was repaired.                                  *)
RecoverRepairedAttempt(h, i) == Conflicts(h[i].task, SubSeq(h, 1, i - 1))

(* The first-parent history h is one the queue could have made from rows e.*)
RecoverSuccessfulHistory(h, e) ==
  \A i \in 1..Len(h) :
    LET t == h[i].task
        recovered == Merged(SubSeq(h, 1, i - 1))
    IN  /\ ValidWorkerResult(e, t)
        /\ \A u \in recovered : u < t
        /\ Deps[t] \subseteq recovered
        /\ IF h[i].repair = 0 THEN VerifyIntegrationCommit(h, i) ELSE RecoverRepairedAttempt(h, i)

(* The marker sits on the head, and its conflict is still there.           *)
RecoverConflictMarker(e) ==
  /\ marker.at = Len(history)
  /\ marker.task \notin Merged(history)
  /\ ValidWorkerResult(e, marker.task)
  /\ Deps[marker.task] \subseteq Merged(history)
  /\ TopologicalGate(e, Merged(history), marker.task)
  /\ Conflicts(marker.task, history)

RecoverRef(c) == head' = [head EXCEPT ![c] = history]

(* The queue is built over the ref and the rows the controller loaded; an  *)
(* unresolved marker stops it.                                             *)
OpenQueue(c) ==
  /\ pc[c] = "loaded"
  /\ RecoverSuccessfulHistory(history, seen[c])
  /\ \/ /\ Unresolved
        /\ RecoverConflictMarker(seen[c])
        /\ stopped' = [stopped EXCEPT ![c] = marker.task]
     \/ ~Unresolved /\ UNCHANGED stopped
  /\ RecoverRef(c)
  /\ Go(c, "integrating")
  /\ UNCHANGED <<runVars, taskVars, gitVars, rowVars, repairs, seen, work, human>>

(* What integrate() asks of a result before it touches Git.                *)
IntegrateAccepts(e, integrated, t) ==
  /\ t \notin integrated
  /\ ValidWorkerResult(e, t)
  /\ Deps[t] \subseteq integrated
  /\ TopologicalGate(e, integrated, t)

(* The next task _integrate_available hands to the queue.                  *)
Integrable(c) == {t \in Tasks : IntegrateAccepts(seen[c], Merged(head[c]), t)}

(* Fault: update-ref without the old value.                               *)
MergeWithoutCAS(c) ==
  /\ pc[c] = "integrating" /\ stopped[c] = 0
  /\ \E t \in Integrable(c) :
       /\ ~Conflicts(t, head[c])
       /\ history' = Append(history, [task |-> t, repair |-> 0])
       /\ head' = [head EXCEPT ![c] = Append(@, [task |-> t, repair |-> 0])]
  /\ UNCHANGED <<runVars, taskVars, marker, decision, staging, rowVars, repairs, pc, seen, stopped, work, human>>

(* Fault: the queue goes on with the tasks behind a conflict.             *)
MergeSkipsConflict(c) ==
  /\ pc[c] = "integrating" /\ stopped[c] = 0
  /\ history = head[c]
  /\ \E t \in Having(seen[c], "SUCCEEDED") \ Merged(history) :
       /\ \A u \in 1..(t - 1) : u \in Merged(history) \cup NonSuccess(seen[c]) \/ Conflicts(u, history)
       /\ ~Conflicts(t, history)
       /\ history' = Append(history, [task |-> t, repair |-> 0])
       /\ head' = [head EXCEPT ![c] = history']
  /\ UNCHANGED <<runVars, taskVars, marker, decision, staging, rowVars, repairs, pc, seen, stopped, work, human>>

(* _integrate_one, clean: merge-tree, commit-tree and update-ref with the  *)
(* old value, which fails when the ref is no longer the queue's head.      *)
MergeTask(c) ==
  /\ pc[c] = "integrating" /\ stopped[c] = 0
  /\ history = head[c]
  /\ \E t \in Integrable(c) :
       /\ ~Conflicts(t, history)
       /\ history' = Append(history, [task |-> t, repair |-> 0])
       /\ head' = [head EXCEPT ![c] = history']
  /\ UNCHANGED <<runVars, taskVars, marker, decision, staging, rowVars, repairs, pc, seen, stopped, work, human>>

(* _integrate_one, conflict.  The ref is compared with the head before     *)
(* merge-tree, not when the marker is made.                                *)
DetectConflict(c) ==
  /\ pc[c] = "integrating" /\ stopped[c] = 0
  /\ history = head[c]
  /\ \E t \in Integrable(c) :
       /\ Conflicts(t, history)
       /\ stopped' = [stopped EXCEPT ![c] = t]
  /\ Go(c, "marking")
  /\ UNCHANGED <<runVars, taskVars, gitVars, rowVars, repairs, seen, head, work, human>>

(* _persist_conflict_marker: the marker ref is created if it is absent.    *)
(* The head is compared again afterwards; an exception leaves the marker.  *)
MarkConflict(c) ==
  /\ pc[c] = "marking"
  /\ marker = NoMarker
  /\ marker' = [task |-> stopped[c], at |-> Len(head[c]), again |-> stopped[c] \in Merged(history)]
  /\ \/ history = head[c] /\ Go(c, "integrating") /\ UNCHANGED <<seen, head, stopped, work>>
     \/ history # head[c] /\ Leave(c)
  /\ UNCHANGED <<runVars, taskVars, history, decision, staging, rowVars, repairs, human>>

(* _persist_merge_snapshot, keyed by attempt count and head: the same      *)
(* snapshot is stored once.  Nothing compares it with the rows before it.  *)
PersistSnapshot(c) ==
  /\ pc[c] = "integrating"
  /\ stopped[c] # 0 \/ Integrable(c) = {}
  /\ LET s == [hist |-> head[c], stopped |-> stopped[c]]
     IN  IF s = [hist |-> <<>>, stopped |-> 0] THEN UNCHANGED snapshots
         ELSE /\ run = "RUNNING"
              /\ snapshots' = IF \E i \in 1..Len(snapshots) : snapshots[i] = s
                              THEN snapshots ELSE Append(snapshots, s)
  /\ Go(c, IF stopped[c] # 0 THEN "gating" ELSE "settling")
  /\ UNCHANGED <<runVars, taskVars, gitVars, conflictRows, gateRows, decisionRows, repairRows,
                 repairs, seen, head, stopped, work, human>>

(***************************************************************************)
(* The conflict branch.  append_evidence for a task demands the run_token  *)
(* of any task that has one, and the controller has none to give.          *)
(***************************************************************************)
AppendAccepts(t) == run = "RUNNING" /\ t \notin Leased

RecordConflict(c) ==
  /\ pc[c] = "gating"
  /\ AppendAccepts(stopped[c])
  /\ conflictRows' = conflictRows \cup {stopped[c]}
  /\ Go(c, "gated")
  /\ UNCHANGED <<runVars, taskVars, gitVars, snapshots, gateRows, decisionRows, repairRows,
                 repairs, seen, head, stopped, work, human>>

(* The classifier reproduces the conflict of task t from live Git.         *)
Classified(t, h) ==
  /\ history = h
  /\ marker = [task |-> t, at |-> Len(h), again |-> FALSE]
  /\ Conflicts(t, h)

(* The decision ref, if there is one, belongs to this conflict and does    *)
(* not authorize what the policy forbids.                                  *)
DecisionRecovered(t, h) ==
  /\ decision.task \in {0, t}
  /\ decision.what = "AUTHORIZE_REPAIR" => Authorizable(t, h)

(* IntegrationHumanGate validates the stopped snapshot of task t.          *)
GateLive(t, h) == t \in SuccessfulWorkers /\ Classified(t, h) /\ DecisionRecovered(t, h)

GateState ==
  CASE decision.what = "NONE" -> "AWAITING_HUMAN"
    [] decision.what = "AUTHORIZE_REPAIR" -> "REPAIR_AUTHORIZED"
    [] OTHER -> "ABORTED"

PersistGate(c) ==
  /\ pc[c] = "gated"
  /\ GateLive(stopped[c], head[c])
  /\ AppendAccepts(stopped[c])
  /\ gateRows' = gateRows \cup {stopped[c]}
  /\ \/ GateState = "AWAITING_HUMAN" /\ Leave(c)
     \/ GateState = "ABORTED" /\ Go(c, "aborting") /\ UNCHANGED <<seen, head, stopped, work>>
     \/ GateState = "REPAIR_AUTHORIZED" /\ Go(c, "authorized") /\ UNCHANGED <<seen, head, stopped, work>>
  /\ UNCHANGED <<runVars, taskVars, gitVars, snapshots, conflictRows, decisionRows, repairRows,
                 repairs, human>>

(* The newest snapshot row that task t stopped.                            *)
StoppedAt(t) == {i \in 1..Len(snapshots) : snapshots[i].stopped = t}

CurrentConflict(t) == snapshots[CHOOSE i \in StoppedAt(t) : \A j \in StoppedAt(t) : j <= i].hist

(* The decision ref is created against the live gate; a human cannot       *)
(* authorize what the policy forbids.                                      *)
RecordHumanDecision(t, h) ==
  /\ decision.task = 0
  /\ \E d \in Decisions :
       /\ d = "AUTHORIZE_REPAIR" => Authorizable(t, h)
       /\ decision' = [task |-> t, what |-> d]

(* DurableHumanGateService.decide: a new decision, or the one found in Git *)
(* already; its rows come later.                                           *)
HumanDecides(t) ==
  /\ human = NoDecision
  /\ run = "RUNNING"
  /\ t \in conflictRows /\ StoppedAt(t) # {}
  /\ GateLive(t, CurrentConflict(t))
  /\ \/ RecordHumanDecision(t, CurrentConflict(t))
     \/ decision.task = t /\ UNCHANGED decision
  /\ human' = decision'
  /\ UNCHANGED <<runVars, taskVars, history, marker, staging, rowVars, repairs, ctlVars>>

HumanRecords ==
  /\ human # NoDecision
  /\ \/ /\ AppendAccepts(human.task)
        /\ decisionRows' = [decisionRows EXCEPT ![human.task] = human.what]
        /\ gateRows' = gateRows \cup {human.task}
     \/ UNCHANGED <<decisionRows, gateRows>>             \* refused, or the API dies
  /\ human' = NoDecision
  /\ UNCHANGED <<runVars, taskVars, gitVars, snapshots, conflictRows, repairRows, repairs, ctlVars>>

(***************************************************************************)
(* IntegrationConflictRepairService.repair.  work is the commit of the     *)
(* repair row the service loaded, 0 if there was none.                     *)
(***************************************************************************)
LoadRepair(c) ==
  /\ pc[c] = "authorized"
  /\ work' = [work EXCEPT ![c] = repairRows[stopped[c]]]
  /\ Go(c, "repairing")
  /\ UNCHANGED <<runVars, taskVars, gitVars, rowVars, repairs, seen, head, stopped, human>>

(* _anchor_repair_commit: the staging ref is created, or already right.    *)
Anchor(t, commit) ==
  /\ staging[t] \in {0, commit}
  /\ staging' = [staging EXCEPT ![t] = commit]

(* The repair of an earlier controller is carried on from its row, ...     *)
ReuseRepair(c) ==
  /\ work[c] # 0
  /\ Anchor(stopped[c], work[c])
  /\ Go(c, "advancing")
  /\ UNCHANGED <<work, repairs>>

(* ... or the Agent resolves the conflict and the verifier accepts the     *)
(* merged tree: a new commit.                                              *)
ProduceRepair(c) ==
  /\ work[c] = 0
  /\ repairs < MaxRepairs
  /\ repairs' = repairs + 1
  /\ Anchor(stopped[c], repairs + 1)
  /\ work' = [work EXCEPT ![c] = repairs + 1]
  /\ Go(c, "recording")

AnchorRepair(c) ==
  /\ pc[c] = "repairing"
  /\ ReuseRepair(c) \/ ProduceRepair(c)
  /\ UNCHANGED <<runVars, taskVars, history, marker, decision, rowVars, seen, head, stopped, human>>

(* record_integration_repair: one row per conflict.                        *)
RecordRepair(c) ==
  /\ pc[c] = "recording"
  /\ run = "RUNNING"
  /\ repairRows[stopped[c]] \in {0, work[c]}
  /\ repairRows' = [repairRows EXCEPT ![stopped[c]] = work[c]]
  /\ Go(c, "advancing")
  /\ UNCHANGED <<runVars, taskVars, gitVars, snapshots, conflictRows, gateRows, decisionRows,
                 repairs, seen, head, stopped, work, human>>

(* Fault: the ref moves before the repair row is durable.                 *)
AdvanceUnrecorded(c) ==
  /\ pc[c] \in {"recording", "advancing"}
  /\ history = head[c]
  /\ history' = Append(history, [task |-> stopped[c], repair |-> work[c]])
  /\ Go(c, "archiving")
  /\ UNCHANGED <<runVars, taskVars, marker, decision, staging, rowVars, repairs, seen, head, stopped, work, human>>

(* _advance_ref: compare-and-swap, or the repair is already the head.      *)
AdvanceRef(c) ==
  /\ pc[c] = "advancing"
  /\ LET h == Append(head[c], [task |-> stopped[c], repair |-> work[c]])
     IN  history \in {head[c], h} /\ history' = h
  /\ Go(c, "archiving")
  /\ UNCHANGED <<runVars, taskVars, marker, decision, staging, rowVars, repairs, seen, head, stopped, work, human>>

(* _archive_live_gate_refs moves the marker, then the decision.            *)
ArchiveMarker(c) ==
  /\ pc[c] = "archiving"
  /\ marker.task \in {0, stopped[c]} /\ ~marker.again
  /\ marker' = NoMarker
  /\ Go(c, "deciding")
  /\ UNCHANGED <<runVars, taskVars, history, decision, staging, rowVars, repairs, seen, head, stopped, work, human>>

ArchiveDecision(c) ==
  /\ pc[c] = "deciding"
  /\ decision.task \in {0, stopped[c]}
  /\ decision' = NoDecision
  /\ Go(c, "releasing")
  /\ UNCHANGED <<runVars, taskVars, history, marker, staging, rowVars, repairs, seen, head, stopped, work, human>>

(* The staging ref is deleted, and _advance_once starts over.              *)
ReleaseAnchor(c) ==
  /\ pc[c] = "releasing"
  /\ staging' = [staging EXCEPT ![stopped[c]] = IF @ = work[c] THEN 0 ELSE @]
  /\ Leave(c)
  /\ UNCHANGED <<runVars, taskVars, history, marker, decision, rowVars, repairs, human>>

(***************************************************************************)
(* The end of advance(): a terminal result, or new dispatches.             *)
(***************************************************************************)
AllTerminal(e, roots) == Having(e, "SUCCEEDED") \cup Having(e, "FAILED") \cup Blocked(roots) = Tasks

Finalize(c, status) ==
  /\ run = "RUNNING"
  /\ run' = status
  /\ finalHead' = head[c]
  /\ Leave(c)
  /\ UNCHANGED <<taskVars, gitVars, rowVars, repairs, human>>

RequireAbortDecision(t) == decisionRows[t] = "ABORT"

(* The rows that are in the database by now bear out what the controller   *)
(* says of every task.                                                     *)
ValidateFailure(c, aborted) ==
  /\ Having(seen[c], "FAILED") \subseteq Having(WorkerEvidence, "FAILED")
  /\ Having(seen[c], "SUCCEEDED") \subseteq SuccessfulWorkers
  /\ \A t \in Blocked(Having(seen[c], "FAILED") \cup aborted) : WorkerEvidence[t] = "NONE"
  /\ \A t \in aborted : t \in SuccessfulWorkers /\ RequireAbortDecision(t)

ValidateSuccess(c) ==
  /\ SuccessfulWorkers = Tasks
  /\ \E i \in 1..Len(snapshots) : snapshots[i] = [hist |-> head[c], stopped |-> 0]
  /\ Merged(head[c]) = Tasks

FinalizeAbort(c) ==
  /\ pc[c] = "aborting"
  /\ AllTerminal(seen[c], Having(seen[c], "FAILED") \cup {stopped[c]})
  /\ ValidateFailure(c, {stopped[c]})
  /\ Finalize(c, "FAILED")

(* Fault: the first failure ends the Run.                                 *)
FinalizeEarly(c) ==
  /\ pc[c] = "settling"
  /\ Having(seen[c], "FAILED") # {}
  /\ Finalize(c, "FAILED")

FinalizeFailed(c) ==
  /\ pc[c] = "settling"
  /\ Having(seen[c], "FAILED") # {}
  /\ AllTerminal(seen[c], Having(seen[c], "FAILED"))
  /\ ValidateFailure(c, {})
  /\ Finalize(c, "FAILED")

(* Fault: every task has succeeded, whether or not it was integrated.     *)
FinalizeUnmerged(c) ==
  /\ pc[c] \in {"settling", "gating"}
  /\ Having(seen[c], "SUCCEEDED") = Tasks
  /\ Finalize(c, "SUCCEEDED")

FinalizeSucceeded(c) ==
  /\ pc[c] = "settling"
  /\ Having(seen[c], "SUCCEEDED") = Tasks
  /\ ValidateSuccess(c)
  /\ Finalize(c, "SUCCEEDED")

(* Tasks whose dependencies have succeeded and which no worker has.        *)
Frontier ==
  {t \in Tasks \ NonSuccess(exec) : exec[t] = "NONE" /\ Deps[t] \subseteq Having(exec, "SUCCEEDED")}

(* DAGRunReconciler.reconcile_run over fresh evidence; its concurrency     *)
(* limit and its failures admit any part of the candidates.                *)
ReconcileRun(c) ==
  /\ pc[c] = "settling"
  /\ ~(Having(seen[c], "FAILED") # {} /\ AllTerminal(seen[c], Having(seen[c], "FAILED")))
  /\ Merged(head[c]) # Tasks
  /\ run = "RUNNING"
  /\ (\E t \in Frontier : Deps[t] # {}) => SnapshotsValid
  /\ \E S \in SUBSET {t \in Frontier : BaseAvailable(t)} : dispatched' = dispatched \cup S
  /\ Leave(c)
  /\ UNCHANGED <<runVars, exec, base, gitVars, rowVars, repairs, human>>

ControllerStep(c) ==
  \/ Load(c) \/ OpenQueue(c) \/ MergeTask(c) \/ DetectConflict(c) \/ MarkConflict(c) \/ PersistSnapshot(c)
  \/ RecordConflict(c) \/ PersistGate(c)
  \/ LoadRepair(c) \/ AnchorRepair(c) \/ RecordRepair(c) \/ AdvanceRef(c) \/ ArchiveMarker(c) \/ ArchiveDecision(c)
  \/ ReleaseAnchor(c)
  \/ FinalizeAbort(c) \/ FinalizeFailed(c) \/ FinalizeSucceeded(c) \/ ReconcileRun(c)

HumanStep == HumanRecords \/ \E t \in Tasks : HumanDecides(t)

Next ==
  \/ \E c \in Controllers : ControllerStep(c) \/ Stop(c)
  \/ \E t \in Tasks : StartTask(t) \/ FinishTask(t)
  \/ HumanStep

Spec == Init /\ [][Next]_vars

(***************************************************************************)
(* Properties.                                                             *)
(***************************************************************************)

Merges    == [task : Tasks, repair : 0..MaxRepairs]
Histories == Seq(Merges)

(* Types of every variable; what a controller has seen is terminal evidence. *)
TypeOK ==
  /\ run \in {"RUNNING", "SUCCEEDED", "FAILED"} /\ finalHead \in Histories
  /\ exec \in [Tasks -> Statuses] /\ base \in [Tasks -> Nat] /\ dispatched \subseteq Tasks
  /\ history \in Histories
  /\ marker \in [task : 0..TaskCount, at : Nat, again : BOOLEAN]
  /\ decision \in [task : 0..TaskCount, what : Decisions \cup {"NONE"}]
  /\ staging \in [Tasks -> 0..MaxRepairs]
  /\ snapshots \in Seq([hist : Histories, stopped : 0..TaskCount])
  /\ conflictRows \subseteq Tasks /\ gateRows \subseteq Tasks
  /\ decisionRows \in [Tasks -> Decisions \cup {"NONE"}]
  /\ repairRows \in [Tasks -> 0..MaxRepairs] /\ repairs \in 0..MaxRepairs
  /\ pc \in [Controllers -> PCs]
  /\ seen \in [Controllers -> [Tasks -> Terminal \cup {"NONE"}]]
  /\ head \in [Controllers -> Histories]
  /\ stopped \in [Controllers -> 0..TaskCount]
  /\ work \in [Controllers -> 0..MaxRepairs]
  /\ human \in [task : 0..TaskCount, what : Decisions \cup {"NONE"}]

(* However controllers race, the integration ref holds a history that      *)
(* every later recovery accepts: successful tasks in topological order,    *)
(* each once, each after its dependencies, each started from an earlier    *)
(* point of this very history that contained them.                         *)
HistoryRecoverable ==
  \A i \in 1..Len(history) :
    LET t == history[i].task
    IN  /\ exec[t] = "SUCCEEDED"
        /\ \A j \in 1..(i - 1) : history[j].task < t
        /\ base[t] < i
        /\ Deps[t] \subseteq {history[j].task : j \in 1..base[t]}

(* The marker of a task that is not merged sits on the current head, and   *)
(* the task really conflicts there: no controller merges past a conflict   *)
(* that another one found, or marks one against a head that has moved.     *)
ConflictStopsQueue ==
  marker.task # 0 /\ marker.task \notin Merged(history) =>
    marker.at = Len(history) /\ Conflicts(marker.task, history)

(* A repaired commit reaches the ref only after its repair row is durable, *)
(* never for a conflict that a human aborted, and never for one that the   *)
(* policy keeps from Agents, whoever authorized it.                        *)
RepairBacked ==
  \A i \in 1..Len(history) : history[i].repair # 0 =>
    /\ repairRows[history[i].task] = history[i].repair
    /\ decisionRows[history[i].task] # "ABORT"
    /\ Authorizable(history[i].task, SubSeq(history, 1, i - 1))

(* A SUCCEEDED Run has every task in the integration history, and its      *)
(* result names the final head.                                            *)
SucceededIsIntegrated ==
  run = "SUCCEEDED" => Merged(history) = Tasks /\ finalHead = history

(* The result of a Run stays true: once the Run is terminal no controller, *)
(* however late, moves the integration ref away from the reported head.    *)
ReportedHeadIsFinal ==
  [][run # "RUNNING" => history' = history /\ finalHead = history]_vars

(* A terminal Run tells its final story: SUCCEEDED means that every task is *)
(* integrated, and the head it reports is the last one there will be.       *)
ResultIsFinal == [](TypeOK /\ SucceededIsIntegrated) /\ ReportedHeadIsFinal

=============================================================================
