---------------------------- MODULE RunAdmission ----------------------------
(***************************************************************************)
(* From a planner's proposal to the tasks that a Run lets start.  A work   *)
(* package plan is validated and turned into a TaskDAG; the Run is         *)
(* persisted with its interface contracts and its first tasks dispatched;  *)
(* from then on only the end of a worker, or an operator to whom it is     *)
(* offered, invokes the controller, which rebuilds the frontier from facts *)
(* that it reads one after the other and dispatches a bounded part of it.  *)
(* Launch, workers and controllers may die between any two transactions.   *)
(*                                                                         *)
(* Task ids are numbers, so that the lexicographic order of the code is    *)
(* their order; an interface carries the id of the package that declares   *)
(* it.  The broker and the leases are those of TaskExecution, the merge    *)
(* queue that of RunIntegration; both are reduced to what admission reads. *)
(***************************************************************************)
EXTENDS Integers, Sequences, FiniteSets, SequencesExt, FiniteSetsExt

CONSTANTS Tasks,           \* package ids a proposal may use
          Controllers,     \* invocations of the run controller at one time
          Complexity,      \* [Tasks -> "WORKFLOW", "LOW", "MEDIUM" or "HIGH"]
          MaxTasks,        \* max_tasks of the planner
          Funded(_),       \* validate_hierarchy_plan: whether the budget carries a plan
          MaxConcurrent,   \* dag_max_concurrent_tasks
          MaxRepairs,      \* max_schema_repair_attempts
          MaxCrashes       \* bound: deaths, broker errors and failures outside a task

ASSUME TasksAssumption == Tasks \subseteq Nat /\ IsFiniteSet(Tasks)
ASSUME ComplexityAssumption == Complexity \in [Tasks -> {"WORKFLOW", "LOW", "MEDIUM", "HIGH"}]
ASSUME BoundsAssumption == MaxTasks \in Nat /\ MaxConcurrent \in Nat \ {0} /\ MaxRepairs \in Nat
                           /\ MaxCrashes \in Nat

VARIABLES phase,     \* where the launch is
          plan,      \* [packages -> interfaces consumed]: the last valid proposal
          order,     \* its tasks as normalize_task_dag stores them
          calls,     \* calls made by the planner of the launch
          initial,   \* tasks that the launch has still to dispatch
          run,       \* status of the Run
          contract,  \* rows of run_interface_contracts, one per consumed interface
          evidence,  \* WORKER_EXECUTION of a task
          lease,     \* state of its lease
          queued,    \* its newest dispatch, unless that is the one the lease names
          worker,    \* what the worker of the task has done
          merged,    \* tasks of the persisted merge snapshot
          pc, seen, todo,  \* controllers: step, evidence and merges read, tasks to dispatch
          crashes

planVars == <<phase, plan, order, calls, initial>>
taskVars == <<contract, evidence, lease, queued, worker>>
controlVars == <<pc, seen, todo>>
vars == <<planVars, run, taskVars, merged, controlVars, crashes>>

-----------------------------------------------------------------------------
(* TaskDAG *)

Dag == DOMAIN plan

\* The packages that produce what t consumes.
DependsOn(t) == plan[t]

\* Kahn's algorithm with a heap: always the smallest id that is ready.
TopologicalOrder(deps) ==
  LET rest[done \in SUBSET DOMAIN deps] ==
        LET ready == {t \in DOMAIN deps \ done : deps[t] \subseteq done} IN
        IF ready = {} THEN <<>> ELSE <<Min(ready)>> \o rest[done \cup {Min(ready)}]
  IN rest[{}]

\* Fault: only the direct dependents of a failed task are blocked.
BlockedTaskIdsDirect(failed) == {t \in Dag \ failed : DependsOn(t) \cap failed # {}}

BlockedTaskIds(failed) ==
  LET spread[blocked \in SUBSET Dag] ==
        LET more == {t \in Dag \ failed : DependsOn(t) \cap (failed \cup blocked) # {}} IN
        IF more \subseteq blocked THEN blocked ELSE spread[blocked \cup more]
  IN spread[{}]

ReadyTaskIds(completed, failed) ==
  {t \in Dag \ (completed \cup failed \cup BlockedTaskIds(failed)) : DependsOn(t) \subseteq completed}

Position(t) == CHOOSE i \in 1..Len(order) : order[i] = t

CompletedIn(ev) == {t \in Dag : ev[t] = "SUCCEEDED"}
FailedIn(ev) == {t \in Dag : ev[t] = "FAILED"}

-----------------------------------------------------------------------------
(* DAGScheduler, rebuilt from terminal evidence by _reconstruct_scheduler *)

\* The tasks in each state; those in none of them are PENDING.
RefreshReady(s) == [s EXCEPT !.ready = ReadyTaskIds(s.succeeded, s.failed)]

\* start and succeed; a task that is not READY is corruption.
Succeed(s, t) ==
  RefreshReady([s EXCEPT !.succeeded = @ \cup {t}, !.corrupt = @ \/ t \notin s.ready])

\* start and fail; the tasks behind it must still be PENDING.
Fail(s, t) ==
  LET blocked == BlockedTaskIds(s.failed \cup {t}) IN
  [s EXCEPT !.failed = @ \cup {t}, !.ready = @ \ {t}, !.blocked = blocked,
            !.corrupt = @ \/ t \notin s.ready \/ blocked \cap (s.succeeded \cup s.ready) # {}]

Scheduler(ev) ==
  FoldLeft(LAMBDA s, t : CASE ev[t] = "NONE" -> s
                           [] ev[t] = "SUCCEEDED" -> Succeed(s, t)
                           [] ev[t] = "FAILED" -> Fail(s, t),
           RefreshReady([succeeded |-> {}, failed |-> {}, blocked |-> {}, ready |-> {},
                         corrupt |-> FALSE]),
           order)

\* _integrate_available: the merge stops in front of the first task, in
\* topological order, that is neither done nor, in the scheduler, out of the game.
IntegrateAvailable(ev) ==
  LET over == CompletedIn(ev) \cup FailedIn(ev) \cup BlockedTaskIds(FailedIn(ev))
  IN {t \in CompletedIn(ev) : \A u \in Dag : Position(u) < Position(t) => u \in over}

-----------------------------------------------------------------------------
NothingSeen == [evidence |-> [t \in Tasks |-> "NONE"], merged |-> {}]

Init ==
  /\ phase = "planning" /\ plan = <<>> /\ order = <<>> /\ calls = 0 /\ initial = {}
  /\ run = "NONE"
  /\ contract = [t \in Tasks |-> "NONE"]
  /\ evidence = [t \in Tasks |-> "NONE"]
  /\ lease = [t \in Tasks |-> "UNOWNED"]
  /\ queued = [t \in Tasks |-> "none"]
  /\ worker = [t \in Tasks |-> "none"]
  /\ merged = {}
  /\ pc = [c \in Controllers |-> "idle"]
  /\ seen = [c \in Controllers |-> NothingSeen]
  /\ todo = [c \in Controllers |-> {}]
  /\ crashes = 0

-----------------------------------------------------------------------------
(* MultiTaskPlannerAgent *)

\* _validated_candidate: the number of packages, interfaces that are consumed
\* but not produced or produced by the consumer, and cycles.
\* Fault: the order is not checked for completeness.
ValidatedCyclic(p) ==
  /\ Cardinality(DOMAIN p) <= MaxTasks
  /\ \A t \in DOMAIN p : p[t] \subseteq DOMAIN p /\ t \notin p[t]

Validated(p) ==
  /\ Cardinality(DOMAIN p) <= MaxTasks
  /\ \A t \in DOMAIN p : p[t] \subseteq DOMAIN p /\ t \notin p[t]
  /\ Len(TopologicalOrder(p)) = Cardinality(DOMAIN p)

\* What the model answers: packages with unique producers, or no valid JSON.
Proposals == UNION {[T -> SUBSET Tasks] : T \in (SUBSET Tasks) \ {{}}}
NoProposal == <<>>

\* plan and replan_for_budget: a valid answer goes to the budget check, an
\* invalid one is repaired as long as calls are left.
PlannerAnswers(p) ==
  /\ calls' = calls + 1
  /\ \/ /\ plan' = p /\ p # NoProposal /\ Validated(p)
        /\ order' = TopologicalOrder(p) /\ phase' = "checking"
     \/ /\ UNCHANGED <<plan, order>>
        /\ phase' = IF phase = "planning" /\ calls < MaxRepairs THEN "planning" ELSE "refused"
        /\ p = NoProposal \/ ~Validated(p)
  /\ UNCHANGED <<initial, run, taskVars, merged, controlVars, crashes>>

\* _validate_run_token_budget_plan; a plan that cannot be funded is planned
\* once more if the planner has a call left.
\* Fault: the planner is asked again whatever it has spent.
CheckBudgetAgain ==
  /\ phase = "checking"
  /\ \/ Funded(plan) /\ phase' = "accepted" /\ UNCHANGED <<plan, order>>
     \/ ~Funded(plan) /\ phase' = "replanning" /\ plan' = <<>> /\ order' = <<>>
  /\ UNCHANGED <<calls, initial, run, taskVars, merged, controlVars, crashes>>

CheckBudget ==
  /\ phase = "checking"
  /\ \/ Funded(plan) /\ phase' = "accepted" /\ UNCHANGED <<plan, order>>
     \/ /\ ~Funded(plan)
        /\ phase' = IF calls < MaxRepairs + 1 THEN "replanning" ELSE "refused"
        /\ plan' = <<>> /\ order' = <<>>
  /\ UNCHANGED <<calls, initial, run, taskVars, merged, controlVars, crashes>>

\* start_run of the DAG store: Run, tasks and topology in one transaction.
StartRun ==
  /\ phase = "accepted"
  /\ phase' = "started"
  /\ run' = "RUNNING" /\ calls' = 0
  /\ UNCHANGED <<plan, order, initial, taskVars, merged, controlVars, crashes>>

\* declare_for_dag: a row for every interface that somebody consumes.  The
\* launch goes on to the tasks that are ready at once, all of them.
DeclareContracts ==
  /\ phase = "started"
  /\ phase' = "declared"
  /\ contract' = [i \in Tasks |-> IF i \in Dag /\ \E t \in Dag : i \in plan[t]
                                  THEN "DECLARED" ELSE "NONE"]
  /\ initial' = ReadyTaskIds({}, {})
  /\ UNCHANGED <<plan, order, calls, run, evidence, lease, queued, worker, merged, controlVars, crashes>>

\* begin_initial_attempt refuses a task that has a dispatch already, and a Run
\* that is over: the launch then ends with an error.
Undispatched(t) == lease[t] = "UNOWNED" /\ queued[t] = "none"

\* _dispatch_initial_task, in topological order; a broker error leaves an
\* attempt that nobody repeats.
DispatchInitial ==
  /\ phase = "declared"
  /\ \E t \in initial :
       /\ \A u \in initial : Position(t) <= Position(u)
       /\ \/ /\ run = "RUNNING" /\ Undispatched(t)
             /\ \/ queued' = [queued EXCEPT ![t] = "sent"] /\ UNCHANGED crashes
                \/ /\ queued' = [queued EXCEPT ![t] = "lost"]
                   /\ crashes < MaxCrashes /\ crashes' = crashes + 1
             /\ initial' = initial \ {t}
          \/ /\ ~(run = "RUNNING" /\ Undispatched(t))
             /\ initial' = {} /\ UNCHANGED <<queued, crashes>>
  /\ phase' = IF initial' = {} THEN "over" ELSE "declared"
  /\ UNCHANGED <<plan, order, calls, run, contract, evidence, lease, worker, merged, controlVars>>

\* The API process dies once the Run is persisted.
LaunchDies ==
  /\ phase \in {"started", "declared"}
  /\ crashes < MaxCrashes /\ crashes' = crashes + 1
  /\ phase' = "over" /\ initial' = {}
  /\ UNCHANGED <<plan, order, calls, run, taskVars, merged, controlVars>>

-----------------------------------------------------------------------------
(* RecoveryStateClassifier and DAGRunReconciliationPlanner: what a task is *)
(* in the evidence and merges s, read earlier, and the leases of now       *)

\* classify: what recovery may do with a task of a RUNNING Run.
Disposition(s, t) ==
  CASE lease[t] = "UNOWNED" -> "BLOCKED_UNOWNED_DISPATCH_AMBIGUITY"
    [] lease[t] = "ACTIVE" -> "WAIT_ACTIVE_OWNER"
    [] lease[t] \in {"EXPIRED", "RELEASED"} /\ s.evidence[t] # "NONE" -> "RESUME_FROM_TERMINAL_EVIDENCE"
    [] lease[t] = "EXPIRED" /\ s.evidence[t] = "NONE" -> "REDISPATCH_CANDIDATE_EXPIRED_GENERATION"
    [] lease[t] = "RELEASED" /\ s.evidence[t] = "NONE" -> "BLOCKED_RELEASED_EVIDENCE_GAP"

\* What raises PersistenceCorruptionError: an unowned task with evidence, or
\* work on a task behind a failed one.
UnownedEvidence(s) == \E t \in Dag : lease[t] = "UNOWNED" /\ s.evidence[t] # "NONE"

AdvancedBlocked(s) ==
  \E t \in BlockedTaskIds(FailedIn(s.evidence)) : s.evidence[t] # "NONE" \/ lease[t] # "UNOWNED"

Corrupt(s) == UnownedEvidence(s) \/ AdvancedBlocked(s)

\* build_plan: where a task stands; the frontier is what waits for nothing.
FrontierState(s, t) ==
  LET completed == CompletedIn(s.evidence)
      failed == FailedIn(s.evidence) IN
  CASE t \in completed -> "SUCCEEDED"
    [] t \in failed -> "FAILED"
    [] t \in BlockedTaskIds(failed) -> "BLOCKED_UPSTREAM_FAILURE"
    [] t \in Dag \ (completed \cup failed \cup BlockedTaskIds(failed) \cup ReadyTaskIds(completed, failed))
         -> "WAIT_DEPENDENCIES"
    [] t \in ReadyTaskIds(completed, failed) ->
         CASE Disposition(s, t) = "WAIT_ACTIVE_OWNER" -> "WAIT_ACTIVE_OWNER"
           [] Disposition(s, t) = "BLOCKED_RELEASED_EVIDENCE_GAP" -> "BLOCKED_RECOVERY_GAP"
           [] lease[t] \in {"UNOWNED", "EXPIRED"} ->
                IF DependsOn(t) \subseteq s.merged THEN "RECONCILE_CANDIDATE" ELSE "WAIT_INTEGRATION_BASE"

ReconcileTaskIds(s) == {t \in Dag : FrontierState(s, t) = "RECONCILE_CANDIDATE"}

-----------------------------------------------------------------------------
(* Who invokes the controller *)

Go(c, at) == pc' = [pc EXCEPT ![c] = at]

Durable == [evidence |-> evidence, merged |-> merged]

\* _redispatch_candidate_is_actionable: the newest dispatch is the one that
\* the expired lease names.
Actionable(t) == lease[t] = "EXPIRED" /\ queued[t] = "none"

\* _should_offer_advance
\* Fault: only work that is over makes the action available.
OfferedForEvidence ==
  /\ \E t \in Dag : FrontierState(Durable, t) \in
                      {"SUCCEEDED", "FAILED", "BLOCKED_UPSTREAM_FAILURE", "WAIT_INTEGRATION_BASE"}
  /\ ~Corrupt(Durable)

ShouldOfferAdvance ==
  /\ \E t \in Dag :
       \/ FrontierState(Durable, t) \in
            {"SUCCEEDED", "FAILED", "BLOCKED_UPSTREAM_FAILURE", "WAIT_INTEGRATION_BASE"}
       \/ Actionable(t) /\ FrontierState(Durable, t) = "RECONCILE_CANDIDATE"
  /\ ~Corrupt(Durable)

-----------------------------------------------------------------------------
(* DurableMultiAgentRunController.advance and DAGRunReconciler.reconcile_run *)

\* Integration is persisted before anything is scheduled; a Run whose tasks
\* are all terminal or blocked is finalized.  A Run of one task is left to
\* its worker.
Advance(c) ==
  LET failed == FailedIn(evidence)
      ended == CompletedIn(evidence) \cup failed
      integrated == merged \cup IntegrateAvailable(evidence)
      all == ended \cup BlockedTaskIds(failed) = Dag IN
  \/ /\ run # "RUNNING" \/ Cardinality(Dag) = 1
     /\ UNCHANGED <<run, merged, pc>>
  \/ /\ run = "RUNNING" /\ Cardinality(Dag) > 1
     /\ merged' = integrated
     /\ \/ /\ failed # {} /\ all
           /\ run' = "FAILED" /\ UNCHANGED pc
        \/ /\ failed = {} /\ all /\ integrated = Dag
           /\ run' = "SUCCEEDED" /\ UNCHANGED pc
        \/ /\ ~(failed # {} /\ all) /\ ~(failed = {} /\ all /\ integrated = Dag)
           /\ Go(c, "load") /\ UNCHANGED run

\* execute_task_from_settings: a worker that has released its lease advances
\* the Run before it returns.
WorkerAdvances(t, c) ==
  /\ worker[t] = "released" /\ pc[c] = "idle"
  /\ worker' = [worker EXCEPT ![t] = "none"]
  /\ Advance(c)
  /\ UNCHANGED <<planVars, contract, evidence, lease, queued, seen, todo, crashes>>

\* OperatorRecoveryCoordinator.execute, once its fresh plan offers the action;
\* a Run of one task is only reconciled.
OperatorExecutes(c) ==
  /\ pc[c] = "idle" /\ run = "RUNNING"
  /\ UNCHANGED <<planVars, taskVars, seen, todo, crashes>>
  /\ ShouldOfferAdvance
  /\ IF Cardinality(Dag) = 1 THEN Go(c, "load") /\ UNCHANGED <<run, merged>> ELSE Advance(c)

\* The Run and its evidence are read first, the leases later.
LoadRun(c) ==
  /\ pc[c] = "load"
  /\ \/ /\ run = "RUNNING"
        /\ seen' = [seen EXCEPT ![c] = Durable]
        /\ Go(c, "leases")
     \/ run # "RUNNING" /\ Go(c, "idle") /\ UNCHANGED seen
  /\ UNCHANGED <<planVars, run, taskVars, merged, todo, crashes>>

Rank(t) == CASE Complexity[t] = "WORKFLOW" -> 0 [] Complexity[t] = "LOW" -> 1
             [] Complexity[t] = "MEDIUM" -> 2 [] Complexity[t] = "HIGH" -> 3

Before(t, u) == Rank(t) < Rank(u) \/ (Rank(t) = Rank(u) /\ Position(t) < Position(u))

ActiveHigh == \E t \in Dag : lease[t] = "ACTIVE" /\ Complexity[t] = "HIGH"

\* HIGH packages run one at a time.
LimitHigh(candidates) ==
  LET high == {t \in candidates : Complexity[t] = "HIGH"} IN
  IF ActiveHigh THEN candidates \ high
  ELSE {t \in candidates : t \in high => \A u \in high \ {t} : Before(t, u)}

\* gate_for_task
\* Fault: a contract that is declared is good enough.
GateAllowsDeclared(t) == \A i \in plan[t] : contract[i] \in {"NONE", "DECLARED", "SATISFIED"}

GateAllows(t) == \A i \in plan[t] : contract[i] \in {"NONE", "SATISFIED"}

Slots == LET free == MaxConcurrent - Cardinality({t \in Dag : lease[t] = "ACTIVE"}) IN
         IF free > 0 THEN free ELSE 0

\* The candidates in admission order, as far as the slots reach.
Admitted(s) ==
  LET candidates == IF Corrupt(s) THEN {} ELSE {t \in LimitHigh(ReconcileTaskIds(s)) : GateAllows(t)}
  IN {t \in candidates : Cardinality({u \in candidates : Before(u, t)}) < Slots}

ReadLeases(c) ==
  /\ pc[c] = "leases"
  /\ UNCHANGED <<planVars, run, taskVars, merged, crashes>>
  /\ todo' = [todo EXCEPT ![c] = Admitted(seen[c])]
  /\ seen' = [seen EXCEPT ![c] = NothingSeen]
  /\ Go(c, IF todo'[c] = {} THEN "idle" ELSE "dispatch")

\* IdempotentTaskReconciler.reconcile looks again, under the locks of the
\* Run and the task, before anything is published.
\* Fault: it trusts what the planner read.
RevalidatedAlways(t) == run = "RUNNING" /\ queued[t] = "none"

Revalidated(t) == /\ run = "RUNNING" /\ evidence[t] = "NONE" /\ queued[t] = "none"
                  /\ lease[t] \in {"UNOWNED", "EXPIRED"}

\* A broker error ends the whole invocation.
Dispatch(c) ==
  /\ pc[c] = "dispatch"
  /\ \E t \in todo[c] :
       /\ \A u \in todo[c] \ {t} : Before(t, u)
       /\ \/ /\ queued' = IF Revalidated(t) THEN [queued EXCEPT ![t] = "sent"] ELSE queued
             /\ todo' = [todo EXCEPT ![c] = @ \ {t}]
             /\ UNCHANGED crashes
          \/ /\ Revalidated(t) /\ queued' = [queued EXCEPT ![t] = "lost"]
             /\ todo' = [todo EXCEPT ![c] = {}]
             /\ crashes < MaxCrashes /\ crashes' = crashes + 1
  /\ Go(c, IF todo'[c] = {} THEN "idle" ELSE "dispatch")
  /\ UNCHANGED <<planVars, run, contract, evidence, lease, worker, merged, seen>>

\* The process that runs the controller dies, or an exception ends it.
ControllerDies(c) ==
  /\ pc[c] # "idle"
  /\ crashes < MaxCrashes /\ crashes' = crashes + 1
  /\ Go(c, "idle")
  /\ seen' = [seen EXCEPT ![c] = NothingSeen]
  /\ todo' = [todo EXCEPT ![c] = {}]
  /\ UNCHANGED <<planVars, run, taskVars, merged>>

-----------------------------------------------------------------------------
(* Workers *)

TakeTask(t) ==
  /\ queued[t] = "sent" /\ run = "RUNNING"
  /\ queued' = [queued EXCEPT ![t] = "none"]
  /\ lease' = [lease EXCEPT ![t] = "ACTIVE"]
  /\ worker' = [worker EXCEPT ![t] = "running"]
  /\ UNCHANGED <<planVars, run, contract, evidence, merged, controlVars, crashes>>

\* The terminal evidence is one transaction, the contract rows another, the
\* end of a Run of one task a third and the release of the lease a fourth.
PersistExecution(t, outcome) ==
  /\ worker[t] = "running"
  /\ evidence' = [evidence EXCEPT ![t] = outcome]
  /\ worker' = [worker EXCEPT ![t] = "evidenced"]
  /\ UNCHANGED <<planVars, run, contract, lease, queued, merged, controlVars, crashes>>

Marked(t) == worker' = [worker EXCEPT ![t] = IF Cardinality(Dag) = 1 THEN "marked" ELSE "ending"]

\* Fault: producers are marked satisfied however they ended.
MarkProducerSatisfied(t) ==
  /\ worker[t] = "evidenced"
  /\ contract' = [contract EXCEPT ![t] = IF @ = "DECLARED" THEN "SATISFIED" ELSE @]
  /\ Marked(t)
  /\ UNCHANGED <<planVars, run, evidence, lease, queued, merged, controlVars, crashes>>

MarkProducer(t) ==
  /\ worker[t] = "evidenced"
  /\ contract' = [contract EXCEPT ![t] =
                    IF @ # "DECLARED" THEN @
                    ELSE IF evidence[t] = "SUCCEEDED" THEN "SATISFIED" ELSE "UNMET"]
  /\ Marked(t)
  /\ UNCHANGED <<planVars, run, evidence, lease, queued, merged, controlVars, crashes>>

FinalizeSingleTask(t) ==
  /\ worker[t] = "marked"
  /\ run' = evidence[t]
  /\ worker' = [worker EXCEPT ![t] = "ending"]
  /\ UNCHANGED <<planVars, contract, evidence, lease, queued, merged, controlVars, crashes>>

\* Fault: the lease is cleared instead of kept as the history of ownership.
ReleaseForgotten(t) ==
  /\ worker[t] \in {"ending", "closing"}
  /\ lease' = [lease EXCEPT ![t] = "UNOWNED"]
  /\ worker' = [worker EXCEPT ![t] = IF @ = "ending" THEN "released" ELSE "none"]
  /\ UNCHANGED <<planVars, run, contract, evidence, queued, merged, controlVars, crashes>>

\* A boundary violation is raised again after the release: nobody advances.
Release(t) ==
  /\ worker[t] \in {"ending", "closing"}
  /\ lease' = [lease EXCEPT ![t] = "RELEASED"]
  /\ worker' = [worker EXCEPT ![t] = IF @ = "ending" THEN "released" ELSE "none"]
  /\ UNCHANGED <<planVars, run, contract, evidence, queued, merged, controlVars, crashes>>

\* An exception that escapes the task becomes FAILED evidence; neither the
\* contracts nor the Run are touched.
WorkerException(t) ==
  /\ worker[t] = "running"
  /\ crashes < MaxCrashes /\ crashes' = crashes + 1
  /\ evidence' = [evidence EXCEPT ![t] = "FAILED"]
  /\ \E end \in {"ending", "closing"} : worker' = [worker EXCEPT ![t] = end]
  /\ UNCHANGED <<planVars, run, contract, lease, queued, merged, controlVars>>

\* The contract rows or the end of the Run cannot be written; the evidence
\* stands and the worker goes on to release its lease.
MarkingFails(t) ==
  /\ worker[t] \in {"evidenced", "marked"}
  /\ crashes < MaxCrashes /\ crashes' = crashes + 1
  /\ \E end \in {"ending", "closing"} : worker' = [worker EXCEPT ![t] = end]
  /\ UNCHANGED <<planVars, run, contract, evidence, lease, queued, merged, controlVars>>

\* The time limit cancels the worker: the lease is released without evidence.
WorkerCancelled(t) ==
  /\ worker[t] = "running"
  /\ crashes < MaxCrashes /\ crashes' = crashes + 1
  /\ worker' = [worker EXCEPT ![t] = "none"]
  /\ lease' = [lease EXCEPT ![t] = "RELEASED"]
  /\ UNCHANGED <<planVars, run, contract, evidence, queued, merged, controlVars>>

\* The worker dies and its lease, if it holds one, runs out.
WorkerDies(t) ==
  /\ worker[t] # "none"
  /\ crashes < MaxCrashes /\ crashes' = crashes + 1
  /\ worker' = [worker EXCEPT ![t] = "none"]
  /\ lease' = [lease EXCEPT ![t] = IF @ = "ACTIVE" THEN "EXPIRED" ELSE @]
  /\ UNCHANGED <<planVars, run, contract, evidence, queued, merged, controlVars>>

-----------------------------------------------------------------------------
Launch == \/ /\ phase \in {"planning", "replanning"}
             /\ \E p \in Proposals \cup {NoProposal} : PlannerAnswers(p)
          \/ CheckBudget \/ StartRun \/ DeclareContracts \/ DispatchInitial

Control(c) == LoadRun(c) \/ ReadLeases(c) \/ Dispatch(c)

Work(t) == \/ TakeTask(t) \/ \E outcome \in {"SUCCEEDED", "FAILED"} : PersistExecution(t, outcome)
           \/ MarkProducer(t) \/ FinalizeSingleTask(t) \/ Release(t)
           \/ \E c \in Controllers : WorkerAdvances(t, c)

Next == \/ Launch \/ LaunchDies
        \/ \E c \in Controllers : OperatorExecutes(c) \/ Control(c) \/ ControllerDies(c)
        \/ \E t \in Tasks : \/ Work(t) \/ WorkerException(t) \/ MarkingFails(t)
                            \/ WorkerCancelled(t) \/ WorkerDies(t)

Spec == Init /\ [][Next]_vars

\* The launch, the controllers and the workers proceed, and an operator takes
\* the action that the recovery view offers.
Fairness == /\ WF_vars(Launch)
            /\ WF_vars(\E c \in Controllers : Control(c))
            /\ WF_vars(\E c \in Controllers : OperatorExecutes(c))
            /\ WF_vars(\E t \in Tasks : Work(t))

FairSpec == Spec /\ Fairness

-----------------------------------------------------------------------------
(* Properties *)

\* Types; the launch makes no more planner calls than it may, and a worker at
\* work holds its lease.
TypeOK ==
  /\ phase \in {"planning", "replanning", "checking", "refused", "accepted", "started", "declared", "over"}
  /\ Dag \subseteq Tasks /\ (\A t \in Dag : plan[t] \subseteq Tasks) /\ calls \in 0..MaxRepairs + 1
  /\ run \in {"NONE", "RUNNING", "SUCCEEDED", "FAILED"}
  /\ contract \in [Tasks -> {"NONE", "DECLARED", "SATISFIED", "UNMET"}]
  /\ evidence \in [Tasks -> {"NONE", "SUCCEEDED", "FAILED"}]
  /\ lease \in [Tasks -> {"UNOWNED", "ACTIVE", "EXPIRED", "RELEASED"}]
  /\ queued \in [Tasks -> {"none", "sent", "lost"}]
  /\ worker \in [Tasks -> {"none", "running", "evidenced", "marked", "ending", "closing", "released"}]
  /\ \A t \in Tasks : worker[t] \notin {"none", "released"} => lease[t] = "ACTIVE"
  /\ merged \subseteq Dag
  /\ pc \in [Controllers -> {"idle", "load", "leases", "dispatch"}]
  /\ \A c \in Controllers : todo[c] \subseteq Dag
  /\ crashes \in 0..MaxCrashes

\* Everything that t depends on, directly or not: what every set that holds
\* its dependencies, and those of its members, holds.
DependsOnTransitively(t, f) ==
  \A S \in SUBSET Dag : DependsOn(t) \subseteq S /\ (\A u \in S : DependsOn(u) \subseteq S) => f \in S

\* An accepted plan has no cycle, and its topological order runs through
\* every task once, each after all that it depends on.
PlanIsOrdered ==
  phase = "checking" =>
    /\ ToSet(order) = Dag /\ Len(order) = Cardinality(Dag)
    /\ \A t \in Dag : \A u \in DependsOn(t) : Position(u) < Position(t)
    /\ \A t \in Dag : ~DependsOnTransitively(t, t)

\* The scheduler that the controller replays from the evidence and the
\* frontier that the reconciler derives agree on every task, and no evidence
\* that workers can leave behind looks corrupt to either.
FrontiersAgree ==
  run # "NONE" =>
    LET ancestors[t \in Dag] == DependsOn(t) \cup UNION {ancestors[u] : u \in DependsOn(t)}
        s == Scheduler(evidence)
        failed == FailedIn(evidence)
        completed == CompletedIn(evidence) IN
    /\ ~s.corrupt
    /\ s.succeeded = completed /\ s.failed = failed
    /\ s.blocked = {t \in Dag : ancestors[t] \cap failed # {}}
    /\ s.ready = ReadyTaskIds(completed, failed)

\* A task that was ever given to a worker found the results of everything it
\* depends on accepted, integrated and, where somebody declared it, satisfied.
RunsOnAcceptedWork ==
  \A t \in Dag : queued[t] # "none" \/ lease[t] # "UNOWNED" =>
    /\ DependsOn(t) \subseteq CompletedIn(evidence) \cap merged
    /\ \A i \in plan[t] : contract[i] = "SATISFIED"

\* A contract says what its producer's evidence says.
ContractsTruthful ==
  \A i \in Tasks : /\ contract[i] = "SATISFIED" => evidence[i] = "SUCCEEDED"
                   /\ contract[i] = "UNMET" => evidence[i] = "FAILED"

\* What has terminal evidence is not dispatched or executed again, however old
\* the facts are that a controller works from.
NoRerun == \A t \in Tasks : evidence[t] # "NONE" => queued[t] = "none" /\ worker[t] # "running"

\* The evidence is read before the leases, so whatever workers do in between,
\* no plan built from the two looks corrupt.
PlanNeverCorrupt == \A c \in Controllers : pc[c] = "leases" => ~Corrupt(seen[c])

\* The worker of a producer failed or died between its evidence and its contract
\* row: nobody marks the row any more, and the gate of its consumers stays closed.
ContractGap ==
  \E i \in Dag : contract[i] = "DECLARED" /\ evidence[i] = "SUCCEEDED" /\ worker[i] # "evidenced"

\* A worker was cancelled: its lease is released and the task has no evidence.
EvidenceGap == \E t \in Dag : lease[t] = "RELEASED" /\ evidence[t] = "NONE"

\* A dispatch is on record of which nobody knows whether it was sent.
DispatchGap == \E t \in Dag : queued[t] = "lost"

\* The launch died before it dispatched anything: no action is ever offered.
LaunchGap == /\ phase = "over"
             /\ \A t \in Dag : Undispatched(t)

\* The only task of a Run ended and its worker did not finalize the Run.
SingleTaskGap == \E t \in Dag : Dag = {t} /\ evidence[t] # "NONE" /\ worker[t] \notin {"evidenced", "marked"}

\* Every accepted Run ends, whatever dies and whenever, except in the five gaps
\* that nothing in the code closes.
RunsEnd ==
  <>(\/ phase = "refused" \/ run \in {"SUCCEEDED", "FAILED"}
     \/ ContractGap \/ EvidenceGap \/ DispatchGap \/ LaunchGap \/ SingleTaskGap)

\* Stored order, replayed scheduler and derived frontier are one and the same
\* reading of an acyclic plan.
FrontiersSound == TypeOK /\ PlanIsOrdered /\ FrontiersAgree

\* Tasks start on accepted, integrated results, and contracts say what the
\* evidence says.
WorkSound == RunsOnAcceptedWork /\ ContractsTruthful

\* Facts read one after the other, while workers go on, neither rerun a task
\* nor look corrupt.
StaleFactsHarmless == NoRerun /\ PlanNeverCorrupt

=============================================================================
