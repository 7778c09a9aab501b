----------------------------- MODULE TaskRuntime -----------------------------
(***************************************************************************)
(* One dispatched task, from the worktree to the evidence it leaves:       *)
(*                                                                         *)
(*   runtime/orchestrator.py, runtime/state_machine.py   the task's run    *)
(*   agents/developer.py, agents/repair.py, agents/reviewer.py             *)
(*   tools/repository.py, workspace/scope.py, workspace/git.py             *)
(*   verification/verifier.py, runtime/failure_classifier.py               *)
(*   workers/executor.py, workspace/worktree.py   slices and checkpoints   *)
(*                                                                         *)
(* A tree maps each path to the content it holds.  A model turn is one     *)
(* step, each tool call it asks for another.  asyncio.wait_for around a    *)
(* tool thread gives up waiting but cannot stop the thread: its write goes *)
(* to late and lands at any later moment.  Clocks are not modelled: a time *)
(* limit may be met wherever the code compares one.                        *)
(***************************************************************************)
EXTENDS Integers, Sequences, FiniteSets, FiniteSetsExt

CONSTANTS
  Writable, Protected,   \* paths inside and outside the task's write scope
  Contents,              \* contents a file may have
  Fast, Full,            \* verification commands by stage
  MaxIterations,         \* turns of a Developer run
  MaxRepairIterations,   \* turns of a repair attempt
  MaxToolCalls,          \* _max_tool_calls_per_turn
  RepairBudget,          \* max(task.max_retries, minimum_repair_attempts)
  MaxSlices,             \* _effective_max_slices of the task
  MaxRepeatedFiles,      \* _continuation_max_repeated_file_slices
  MaxLate                \* bound: tool threads abandoned at a time

Paths == Writable \cup Protected
Trees == [Paths -> Contents]
Commands == Fast \cup Full

ASSUME RuntimeAssumption ==
  /\ Writable \cap Protected = {} /\ Fast \cap Full = {}
  /\ IsFiniteSet(Paths) /\ IsFiniteSet(Commands) /\ Contents # {}
  /\ {MaxIterations, MaxRepairIterations, MaxToolCalls, MaxSlices} \subseteq Nat \ {0}
  /\ {RepairBudget, MaxRepeatedFiles, MaxLate} \subseteq Nat

RepairableFailures == {"TEST_FAILURE", "LINT_FAILURE", "REVIEW_REJECTED"}
CommandOutcomes == {"PASSED", "TEST_FAILURE", "TOOL_FAILURE", "UNSUPPORTED"}
Reports == (Commands \cup {"git_scope", "review"})
             \X {"TEST_FAILURE", "TOOL_FAILURE", "SCOPE_VIOLATION", "REVIEW_REJECTED"}
ToolErrors == {"INVALID_ARGUMENTS",   \* and AMBIGUOUS_PATCH, IO_ERROR: recoverable
               "SCOPE_DENIED"}        \* and NOT_FOUND, UNKNOWN_TOOL: not
RecoverableErrors == {"INVALID_ARGUMENTS"}
BoundedStops == {"TIME_LIMIT", "ITERATION_LIMIT", "TOOL_CALL_LIMIT"}
DeveloperStops == BoundedStops \cup {"MODEL_STOP", "REPEATED_TOOL_FAILURE"}
RepairStops == BoundedStops \cup {"MODEL_STOP", "EXPLICIT_BLOCKER", "NO_PROGRESS"}
Progress == {"PATCH_PRODUCED", "NO_PATCH_PRODUCED", "REPAIRED",
             "REPAIR_INEFFECTIVE", "PROGRESS_MADE"}

VARIABLES
  pc,       \* where the worker is
  state,    \* TaskStateMachine._state
  base,     \* tree of the task's execution base
  head,     \* tree of the worktree's HEAD: the base of this slice
  work,     \* tree of the worktree's files
  late,     \* writes of abandoned tool threads
  ran,      \* history: a tool thread was abandoned
  agent,    \* locals of the agent at work
  devStop,  \* stop reason of this slice's DeveloperRunResult
  check,    \* last VerificationResult, with the tree it saw
  review,   \* last ReviewDecision, with the tree it saw
  cause,    \* failures handed to the repair agent
  repairs,  \* RepairRunResults of this slice
  failed,   \* failure types of the slice's result
  slice,    \* locals of the slice loop
  exec      \* WorkerExecutionEvidence of the last slice

treeVars == <<base, head, work>>
threadVars == <<late, ran>>
gateVars == <<check, review>>
repairVars == <<cause, repairs>>
vars == <<pc, state, treeVars, threadVars, agent, devStop, gateVars, repairVars,
          failed, slice, exec>>

NoAgent == [iter |-> 0, left |-> 0, error |-> "none", instr |-> FALSE,
            used |-> FALSE, big |-> 0, idle |-> 0, start |-> base, stop |-> "none"]
NoCheck == [passed |-> FALSE, reports |-> {}, tree |-> base]
NoReview == [pass |-> FALSE, paths |-> {}, tree |-> base]
NoExec == [status |-> "NONE", reason |-> "none", changed |-> {}, tree |-> base]

\* LocalGitWorkspace.changed_files: paths that differ from HEAD.
ChangedFiles == {p \in Paths : work[p] # head[p]}

\* _ALLOWED_TRANSITIONS.
AllowedOnce(s) ==
  CASE s = "PENDING"   -> {"RUNNING", "FAILED"}
    [] s = "RUNNING"   -> {"VERIFYING", "FAILED"}
    [] s = "VERIFYING" -> {"REVIEWING", "REPAIRING", "FAILED"}
    [] s = "REVIEWING" -> {"SUCCEEDED", "REPAIRING", "FAILED"}
    [] s = "REPAIRING" -> {"VERIFYING", "FAILED"}           \* Fault: one attempt per failure
    [] OTHER           -> {}

AllowedTransitions(s) ==
  CASE s = "PENDING"   -> {"RUNNING", "FAILED"}
    [] s = "RUNNING"   -> {"VERIFYING", "FAILED"}
    [] s = "VERIFYING" -> {"REVIEWING", "REPAIRING", "FAILED"}
    [] s = "REVIEWING" -> {"SUCCEEDED", "REPAIRING", "FAILED"}
    [] s = "REPAIRING" -> {"REPAIRING", "VERIFYING", "FAILED"}
    [] OTHER           -> {}

\* TaskStateMachine.transition: an illegal request raises.
Transition(from, to) == IF to \in AllowedTransitions(from) THEN to ELSE "ILLEGAL"

\* machine.transition(...) and go on at `where`; an exception goes to the backend.
Go(to, where) ==
  /\ state' = Transition(state, to)
  /\ pc' = IF state' = "ILLEGAL" THEN "raised" ELSE where

\* machine.transition(FAILED), then _result with these failure types.
Fail(types) == Go("FAILED", "result") /\ failed' = types

-----------------------------------------------------------------------------
(* Repository tools *)

\* ScopeEnforcer.check of changed paths: read-only patterns first, then writable.
ScopePassed(paths) == paths \subseteq Writable

\* Fault: write_file and apply_patch resolve the path but skip the scope check.
MayWriteAnywhere(p) == p \in Paths

\* _resolve_for_write: scope is checked before the filesystem is touched.
MayWrite(p) == ScopePassed({p})

\* _write_file, _apply_patch.
WriteTool ==
  \E p \in Paths, c \in Contents : MayWrite(p) /\ work' = [work EXCEPT ![p] = c]

\* The list, read and search tools.
ReadTool == UNCHANGED work

\* RepositoryToolbox.execute: what the call did, or the error code it returns.
ToolOutcome(error) ==
  \/ error = "none" /\ (WriteTool \/ ReadTool)
  \/ error \in ToolErrors /\ UNCHANGED work

\* asyncio.wait_for gave up on a tool: a write it was about to make stays behind.
AbandonTool ==
  \/ UNCHANGED threadVars
  \/ /\ Cardinality(late) < MaxLate
     /\ \E p \in Paths, c \in Contents : MayWrite(p) /\ late' = late \cup {<<p, c>>}
     /\ ran' = TRUE

\* The abandoned thread writes.
LateWrite ==
  /\ \E w \in late :
       late' = late \ {w} /\ work' = [work EXCEPT ![w[1]] = w[2]]
  /\ pc # "done"
  /\ UNCHANGED <<pc, state, base, head, ran, agent, devStop, gateVars, repairVars,
                 failed, slice, exec>>

-----------------------------------------------------------------------------
(* Developer agent *)

\* orchestrator.run up to the developer, or straight to verification when a
\* checkpoint is resumed with VERIFY_THEN_REPAIR.
StartSlice ==
  /\ pc = "begin"
  /\ agent' = [NoAgent EXCEPT !.iter = 1]
  /\ UNCHANGED <<treeVars, threadVars, devStop, gateVars, repairVars, slice, exec>>
  /\ LET running == Transition("PENDING", "RUNNING") IN
       \/ slice.resume /\ state' = Transition(running, "VERIFYING") /\ pc' = "verify"
                       /\ UNCHANGED failed
       \/ ~slice.resume /\ state' = running /\ pc' = "develop" /\ UNCHANGED failed
       \/ ~slice.resume /\ state' = Transition(running, "FAILED") /\ pc' = "result"
                        /\ failed' = {"TOOL_FAILURE"}   \* ContextBuildError

\* _developer_stop_failure: a controlled exit is no tool fault.
DeveloperStopFailure(stop) ==
  CASE stop = "TIME_LIMIT" -> "AGENT_TIME_LIMIT"
    [] stop = "REPEATED_TOOL_FAILURE" -> "INVALID_TOOL_ARGUMENTS"
    [] OTHER -> "TOOL_FAILURE"

\* The agent returned; run() decides between verification and FAILED.
DeveloperReturns(stop) ==
  /\ devStop' = stop /\ agent' = NoAgent
  /\ IF ChangedFiles' = {}
     THEN Fail({DeveloperStopFailure(stop)})
     ELSE Go("VERIFYING", "verify") /\ UNCHANGED failed

\* The request of a turn: the one after a recoverable tool error carries the
\* correction instruction and the larger output cap.
TurnSent(a) ==
  [a EXCEPT !.instr = FALSE, !.used = @ \/ a.instr, !.big = @ + (IF a.instr THEN 1 ELSE 0)]

\* One model turn: out of time, a provider error, a final answer, too many
\* tool calls, or calls to run.
DeveloperTurn ==
  /\ pc = "develop"
  /\ UNCHANGED <<treeVars, threadVars, gateVars, repairVars, slice, exec>>
  /\ \/ \E stop \in {"TIME_LIMIT", "MODEL_STOP", "TOOL_CALL_LIMIT"} : DeveloperReturns(stop)
     \/ /\ \E t \in {"TOKEN_BUDGET_EXHAUSTED", "PROVIDER_FAILURE"} : Fail({t})
        /\ agent' = NoAgent /\ UNCHANGED devStop
     \/ /\ \E n \in 1..MaxToolCalls : agent' = [TurnSent(agent) EXCEPT !.left = n]
        /\ pc' = "developTool" /\ UNCHANGED <<state, devStop, failed>>

\* The turn's tools are done: out of time, out of turns, or the next turn.
AfterDeveloperTools(a) ==
  \/ DeveloperReturns("TIME_LIMIT")
  \/ a.iter = MaxIterations /\ DeveloperReturns("ITERATION_LIMIT")
  \/ /\ a.iter < MaxIterations /\ agent' = [a EXCEPT !.iter = @ + 1]
     /\ pc' = "develop" /\ UNCHANGED <<state, devStop, failed>>

\* Fault: every recoverable error earns the larger cap again.
NoteToolErrorAlways(a, error) ==
  [a EXCEPT !.left = @ - 1, !.error = error,
            !.instr = @ \/ error \in RecoverableErrors]

\* Bookkeeping after a tool result: last_tool_failure and the recovery credit.
NoteToolError(a, error) ==
  [a EXCEPT !.left = @ - 1, !.error = error,
            !.instr = @ \/ (error \in RecoverableErrors /\ ~a.used)]

\* One tool call of the turn; the same failure twice in a row ends the run.
DeveloperTool ==
  /\ pc = "developTool"
  /\ UNCHANGED <<base, head, gateVars, repairVars, slice, exec>>
  /\ \/ AbandonTool /\ UNCHANGED work /\ DeveloperReturns("TIME_LIMIT")
     \/ /\ UNCHANGED threadVars
        /\ \E error \in ToolErrors \cup {"none"} :
             /\ ToolOutcome(error)
             /\ LET a == NoteToolError(agent, error) IN
                  IF error # "none" /\ agent.error = error
                  THEN DeveloperReturns("REPEATED_TOOL_FAILURE")
                  ELSE IF a.left > 0
                  THEN agent' = a /\ UNCHANGED <<pc, state, devStop, failed>>
                  ELSE AfterDeveloperTools(a)

-----------------------------------------------------------------------------
(* Deterministic verification and review *)

\* verify: unsupported commands are reported and skipped; the fast ones run
\* one by one until one fails, then all the full ones.
CommandReports(results) ==
  LET failing(S) == {<<c, results[c]>> :
                       c \in {d \in S : results[d] \notin {"PASSED", "UNSUPPORTED"}}}
      refused == {<<c, "TOOL_FAILURE">> : c \in {d \in Commands : results[d] = "UNSUPPORTED"}}
  IN IF failing(Fast) = {} THEN {refused \cup failing(Full)}
                           ELSE {refused \cup {r} : r \in failing(Fast)}

\* verify: the scope gate, the commands.  The sandbox mounts the workspace
\* read-only, so commands leave it alone.
VerifyReports ==
  IF ScopePassed(ChangedFiles)
  THEN UNION {CommandReports(results) : results \in [Commands -> CommandOutcomes]}
  ELSE {{<<"git_scope", "SCOPE_VIOLATION">>}}

\* FailureClassifier.repairable.
Repairable(reports) == reports # {} /\ \A r \in reports : r[2] \in RepairableFailures

\* Fault: a patched repair counts as repaired once the hard gate has run.
RepairedOnceVerified(reports) ==
  LET n == Len(repairs) IN
    IF n = 0 \/ repairs[n].status # "PATCH_PRODUCED" THEN repairs
    ELSE [repairs EXCEPT ![n].status = "REPAIRED"]

\* _record_repair_verification: what the last repair turned out to be worth.
RecordRepairVerification(reports) ==
  LET n == Len(repairs) IN
    IF n = 0 \/ repairs[n].status # "PATCH_PRODUCED" THEN repairs
    ELSE [repairs EXCEPT
            ![n].status = IF reports = {} THEN "REPAIRED"
                          ELSE IF reports = repairs[n].before THEN "REPAIR_INEFFECTIVE"
                          ELSE "PROGRESS_MADE"]

\* Fault: the gate is not run again once it has passed.
VerifyOnce ==
  /\ pc = "verify"
  /\ IF check.passed
     THEN /\ Go("REVIEWING", "review") /\ repairs' = RecordRepairVerification({})
          /\ UNCHANGED <<check, cause, failed>>
     ELSE \E reports \in VerifyReports :
            /\ check' = [passed |-> reports = {}, reports |-> reports, tree |-> work]
            /\ repairs' = RecordRepairVerification(reports)
            /\ reports = {} /\ Go("REVIEWING", "review") /\ UNCHANGED <<cause, failed>>
  /\ UNCHANGED <<treeVars, threadVars, agent, devStop, review, slice, exec>>

\* The hard gate: to review, to a targeted repair, or to FAILED.
Verify ==
  /\ pc = "verify"
  /\ \E reports \in VerifyReports :
       /\ check' = [passed |-> reports = {}, reports |-> reports, tree |-> work]
       /\ repairs' = RecordRepairVerification(reports)
       /\ \/ reports = {} /\ Go("REVIEWING", "review") /\ UNCHANGED <<cause, failed>>
          \/ Repairable(reports) /\ cause' = reports /\ pc' = "repairing"
                                 /\ UNCHANGED <<state, failed>>
          \/ reports # {} /\ ~Repairable(reports) /\ UNCHANGED cause
                          /\ Fail({r[2] : r \in reports})
  /\ UNCHANGED <<treeVars, threadVars, agent, devStop, review, slice, exec>>

\* ReviewerAgent.review reaches the model only with a passed check and a diff;
\* otherwise it raises, as it does when every schema repair is used up.
ReviewGate == check.passed /\ ChangedFiles # {}

\* The ContextPacket, the reviewer and the verdict.
Review ==
  /\ pc = "review"
  /\ UNCHANGED <<treeVars, threadVars, agent, devStop, check, repairs, slice, exec>>
  /\ \/ /\ UNCHANGED <<review, cause>>
        /\ \E t \in {"TOOL_FAILURE", "INVALID_AGENT_OUTPUT", "TOKEN_BUDGET_EXHAUSTED",
                     "PROVIDER_FAILURE"} : Fail({t})
     \/ /\ ReviewGate
        /\ review' = [pass |-> TRUE, paths |-> ChangedFiles, tree |-> work]
        /\ Go("SUCCEEDED", "result") /\ failed' = {} /\ UNCHANGED cause
     \/ /\ ReviewGate
        /\ review' = [pass |-> FALSE, paths |-> ChangedFiles, tree |-> work]
        /\ cause' = {<<"review", "REVIEW_REJECTED">>}
        /\ pc' = "repairing" /\ UNCHANGED <<state, failed>>

-----------------------------------------------------------------------------
(* Repair agent *)

\* Fault: the budget is compared with the attempts already made.
BudgetLeftOneMore == Len(repairs) <= RepairBudget

\* attempt > repair_budget ends the task; RepairAgent checks the same bound.
BudgetLeft == Len(repairs) + 1 <= RepairBudget

\* terminalize, _finish_no_progress: the failures stand and the task ends.
GiveUp == Fail({r[2] : r \in cause})

\* RepairAgent.repair: a session of its own, with the patch it starts from.
FreshRepairSession == [NoAgent EXCEPT !.iter = 1, !.start = work]

\* _repair_once: the budget, REPAIRING, the handoff, a fresh repair session.
StartRepair ==
  /\ pc = "repairing"
  /\ IF BudgetLeft
     THEN /\ Go("REPAIRING", "repair") /\ UNCHANGED failed
          /\ agent' = FreshRepairSession
     ELSE GiveUp /\ UNCHANGED agent
  /\ UNCHANGED <<treeVars, threadVars, devStop, gateVars, repairVars, slice, exec>>

RepairReturns(stop, a) ==
  agent' = [a EXCEPT !.stop = stop] /\ pc' = "repaired" /\ UNCHANGED <<state, failed>>

\* A final answer without a patch: _no_patch_recovery_prompt, one turn less.
Reprompt(a) == [a EXCEPT !.iter = @ + 1, !.idle = @ + 1]

\* One model turn of the repair agent.
RepairTurn ==
  /\ pc = "repair"
  /\ UNCHANGED <<treeVars, threadVars, devStop, gateVars, repairVars, slice, exec>>
  /\ \/ RepairReturns("TIME_LIMIT", agent)
     \/ /\ \E t \in {"TOKEN_BUDGET_EXHAUSTED", "PROVIDER_FAILURE"} : Fail({t})
        /\ agent' = NoAgent
     \/ work # agent.start /\ RepairReturns("MODEL_STOP", agent)
     \/ work = agent.start /\ RepairReturns("EXPLICIT_BLOCKER", agent)
     \/ /\ work = agent.start
        /\ IF agent.idle + 1 >= 2 \/ agent.iter >= MaxRepairIterations
           THEN RepairReturns("NO_PROGRESS", agent)
           ELSE agent' = Reprompt(agent) /\ UNCHANGED <<pc, state, failed>>
     \/ RepairReturns("TOOL_CALL_LIMIT", [agent EXCEPT !.idle = 0])
     \/ /\ \E n \in 1..MaxToolCalls : agent' = [agent EXCEPT !.idle = 0, !.left = n]
        /\ pc' = "repairTool" /\ UNCHANGED <<state, failed>>

\* The turn's tools are done: out of time, out of turns, or the next turn.
AfterRepairTools(a) ==
  \/ RepairReturns("TIME_LIMIT", a)
  \/ a.iter = MaxRepairIterations /\ RepairReturns("ITERATION_LIMIT", a)
  \/ /\ a.iter < MaxRepairIterations /\ agent' = [a EXCEPT !.iter = @ + 1]
     /\ pc' = "repair" /\ UNCHANGED <<state, failed>>

\* One tool call of the repair turn; a tool outside _REPAIR_TOOL_NAMES is an error.
RepairTool ==
  /\ pc = "repairTool"
  /\ \/ AbandonTool /\ UNCHANGED work /\ RepairReturns("TIME_LIMIT", agent)
     \/ /\ UNCHANGED threadVars
        /\ \E error \in ToolErrors \cup {"none"} : ToolOutcome(error)
        /\ LET a == [agent EXCEPT !.left = @ - 1] IN
             IF a.left > 0 THEN agent' = a /\ UNCHANGED <<pc, state, failed>>
                           ELSE AfterRepairTools(a)
  /\ UNCHANGED <<base, head, devStop, gateVars, repairVars, slice, exec>>

\* Fault: only attempts that changed something count against the budget.
CountPatchesOnly(record) ==
  IF record.status = "PATCH_PRODUCED" THEN Append(repairs, record) ELSE repairs

\* repairs.append(repair_result): every attempt counts.
CountAttempt(record) == Append(repairs, record)

\* _repair_until_patch: a patch is verified; a blocker or a spent budget ends
\* the task; otherwise another attempt starts.
RepairUntilPatch(patched) ==
  IF patched THEN Go("VERIFYING", "verify") /\ UNCHANGED failed
  ELSE IF agent.stop = "EXPLICIT_BLOCKER" \/ Len(repairs) + 1 >= RepairBudget THEN GiveUp
  ELSE pc' = "repairing" /\ UNCHANGED <<state, failed>>

\* _repair_once's progress evidence, and what follows from it.
JudgeRepair ==
  /\ pc = "repaired"
  /\ LET patched == work # agent.start IN
       /\ repairs' = CountAttempt([before |-> cause, status |->
                        IF patched THEN "PATCH_PRODUCED" ELSE "NO_PATCH_PRODUCED"])
       /\ RepairUntilPatch(patched)
  /\ agent' = NoAgent
  /\ UNCHANGED <<treeVars, threadVars, devStop, gateVars, cause, slice, exec>>

-----------------------------------------------------------------------------
(* Backend and slices *)

\* _checkpoint_reason.
CheckpointReason ==
  IF "TOKEN_BUDGET_EXHAUSTED" \in failed THEN "RUN_TOKEN_BUDGET_EXHAUSTED"
  ELSE IF devStop \in BoundedStops THEN devStop ELSE "VERIFICATION_FAILURE"

\* commit_task_changes: `git add --all` of whatever is there; nothing to commit
\* is an error.
CommitChanges(status, reason) ==
  IF ChangedFiles = {} THEN [NoExec EXCEPT !.status = "FAILED"]
  ELSE [status |-> status, reason |-> reason, changed |-> ChangedFiles, tree |-> work]

\* Under the Git guard: the task's commit, or the checkpoint of a failed slice.
CommitSlice ==
  /\ pc = "result" /\ pc' = "sliced"
  /\ exec' = IF state = "SUCCEEDED" THEN CommitChanges("SUCCEEDED", "none")
                                    ELSE CommitChanges("FAILED", CheckpointReason)
  /\ UNCHANGED <<state, treeVars, threadVars, agent, devStop, gateVars, repairVars,
                 failed, slice>>

\* execute's `except Exception`: worktree, fence, Git or state machine raised.
BackendFails ==
  /\ pc \in {"begin", "result", "raised"} /\ pc' = "sliced"
  /\ exec' = [NoExec EXCEPT !.status = "FAILED"]
  /\ UNCHANGED <<state, treeVars, threadVars, agent, devStop, gateVars, repairVars,
                 failed, slice>>

\* _can_continue, but for the elapsed time.
CanContinue ==
  /\ exec.status = "FAILED" /\ exec.reason \in BoundedStops
  /\ slice.index < MaxSlices
  /\ exec.changed = slice.previous => slice.repeats < MaxRepeatedFiles

\* The slice is persisted; the next one starts from its checkpoint commit.
ContinueSlice ==
  /\ pc = "sliced" /\ CanContinue /\ pc' = "begin"
  /\ head' = exec.tree
  /\ slice' = [index |-> slice.index + 1, previous |-> exec.changed, resume |-> FALSE,
               repeats |-> IF exec.changed = slice.previous THEN slice.repeats + 1 ELSE 0]
  /\ late' = {}     \* the next slice has a worktree of its own
  /\ exec' = NoExec /\ failed' = {} /\ check' = NoCheck /\ review' = NoReview
  /\ repairs' = <<>> /\ cause' = {} /\ devStop' = "none" /\ state' = "PENDING"
  /\ work' = exec.tree
  /\ UNCHANGED <<base, ran, agent>>

\* No further slice (also when the total time budget is used up): the
\* terminal evidence is persisted.
FinishTask ==
  /\ pc = "sliced" /\ pc' = "done"
  /\ UNCHANGED <<state, treeVars, threadVars, agent, devStop, gateVars, repairVars,
                 failed, slice, exec>>

-----------------------------------------------------------------------------
\* A fresh task, or one that resumes an earlier Run's checkpoint.
Init ==
  /\ pc = "begin" /\ state = "PENDING"
  /\ base \in {[p \in Paths |-> c] : c \in {CHOOSE c \in Contents : TRUE}}
  /\ head \in {t \in Trees : \A p \in Protected : t[p] = base[p]}
  /\ work = head /\ late = {} /\ ran = FALSE
  /\ agent = NoAgent /\ devStop = "none" /\ check = NoCheck /\ review = NoReview
  /\ cause = {} /\ repairs = <<>> /\ failed = {} /\ exec = NoExec
  /\ \E resume \in BOOLEAN :
       /\ ~resume => head = base
       /\ slice = [index |-> 1, previous |-> {"unset"}, resume |-> resume,
                   repeats |-> 0]

Step ==
  \/ StartSlice \/ DeveloperTurn \/ DeveloperTool \/ Verify \/ Review
  \/ StartRepair \/ RepairTurn \/ RepairTool \/ JudgeRepair
  \/ CommitSlice \/ BackendFails \/ ContinueSlice \/ FinishTask

Next == Step \/ LateWrite

Spec == Init /\ [][Next]_vars

\* The worker's coroutine runs on: agent turns and tools are bounded by
\* asyncio.timeout and wait_for, verification commands by their own timeout.
FairSpec == Spec /\ WF_vars(Step)

-----------------------------------------------------------------------------
\* Types; turns, tool calls, repairs and slices stay within the limits that the
\* agents and the orchestrator count against.
TypeOK ==
  /\ pc \in {"begin", "develop", "developTool", "verify", "review", "repairing", "repair",
             "repairTool", "repaired", "result", "raised", "sliced", "done"}
  /\ state \in {"PENDING", "RUNNING", "VERIFYING", "REVIEWING", "REPAIRING",
                "SUCCEEDED", "FAILED", "ILLEGAL"}
  /\ {base, head, work, check.tree, review.tree, exec.tree, agent.start} \subseteq Trees
  /\ late \subseteq Paths \X Contents /\ Cardinality(late) <= MaxLate
  /\ ran \in BOOLEAN
  /\ agent.iter \in 0..(MaxIterations + MaxRepairIterations)
  /\ agent.left \in 0..MaxToolCalls /\ agent.idle \in 0..1
  /\ devStop \in DeveloperStops \cup {"none"}
  /\ check.reports \subseteq Reports /\ cause \subseteq Reports
  /\ agent.stop \in RepairStops \cup {"none"}
  /\ repairs \in Seq([status : Progress, before : SUBSET Reports])
  /\ Len(repairs) <= RepairBudget
  /\ slice.index \in 1..MaxSlices /\ slice.repeats \in 0..MaxRepeatedFiles
  /\ exec.reason \in BoundedStops
       \cup {"none", "VERIFICATION_FAILURE", "RUN_TOKEN_BUDGET_EXHAUSTED"}

\* The orchestrator never asks TaskStateMachine for a transition its table
\* does not have: the ValueError would end as a Git or fence failure in the
\* backend and cost the slice its checkpoint.
NoIllegalTransition == state # "ILLEGAL"

\* A task commit is exactly the tree that passed the hard gate and then the
\* reviewer, whatever repairs, rejections and slices came before; only a tool
\* thread that asyncio.wait_for gave up on may change it in between.
SuccessIsEvidenced ==
  exec.status = "SUCCEEDED" =>
    /\ check.passed /\ review.pass
    /\ ~ran => exec.tree = check.tree /\ exec.tree = review.tree

\* No commit of the task, checkpoints of failed slices included, touches a
\* path outside its write scope.  The checkpoint commit has no scope check of
\* its own and a later slice is compared with the checkpoint, so the toolbox
\* is all that keeps a foreign edit from being carried into a task commit.
CommitsInScope == \A p \in Protected : exec.tree[p] = base[p]

\* The progress written into the last RepairRunResult says what the hard gate
\* found after it: the next attempt and the operator are told from it.
ProgressTruthful ==
  repairs # <<>> =>
    LET r == repairs[Len(repairs)] IN
      /\ r.status = "PATCH_PRODUCED" => pc \in {"verify", "raised"}
      /\ r.status = "REPAIRED" => check.passed
      /\ r.status = "REPAIR_INEFFECTIVE" => check.reports = r.before
      /\ r.status = "PROGRESS_MADE" => ~check.passed /\ check.reports # r.before

\* "Give exactly one diagnosed retry a larger, separately-budgeted completion
\* cap": however often tools fail, a Developer run sends one such turn.
OneRecoveryTurn == agent.big <= 1

\* The worker ends: turns, tool calls, repairs and slices are all bounded.
Terminates == <>(pc = "done")

\* What is committed is what was checked, and nothing outside the write scope.
CommitsSound == SuccessIsEvidenced /\ CommitsInScope

\* The orchestrator stays within its state machine and its limits, and tells
\* the next attempt the truth about the last one.
ReportsSound == TypeOK /\ NoIllegalTransition /\ ProgressTruthful /\ OneRecoveryTurn

=============================================================================
