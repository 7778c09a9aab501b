------------------------------ MODULE TokenBudget ------------------------------
(***************************************************************************)
(* The token ledgers of a launch and of the Run it creates.                *)
(*                                                                         *)
(*   persistence/planning_budget.py  the launch ledger of the Planner      *)
(*   persistence/token_budget.py     the Run ledger with its stage and     *)
(*                                   work-package shares                   *)
(*   providers/planning_budgeted.py, providers/budgeted.py                 *)
(*                                   reserve, call the provider, settle    *)
(*   agents/dag_planner.py           first call and one bounded recovery   *)
(*                                                                         *)
(* Planner calls come one after the other, before the Run exists.  Model   *)
(* calls of the Run run concurrently; a call is the whole of               *)
(* BudgetedAgentDriver.complete.  The reserve and the settle transaction   *)
(* are two steps each, one per row lock they wait for, since they take the *)
(* Run row and the work-package row in opposite orders.  Anything that     *)
(* ends a transaction early (a deadlock victim, asyncio.timeout around     *)
(* complete, a killed worker) rolls it back.                               *)
(***************************************************************************)
EXTENDS Integers, FiniteSets, FiniteSetsExt

CONSTANTS
  Calls,          \* model calls of the Run
  Tasks,          \* work packages
  TaskOf, RoleOf, \* task and role of each call
  Total,          \* run_token_budgets.total_budget_tokens
  PlanTotal,      \* planning_token_budgets.total_budget_tokens
  MaxAttempts,    \* planning_token_budgets.max_attempts
  Estimates,      \* what the token estimator may answer for a request
  MaxOutput,      \* max_output_tokens of a request
  Envelope,       \* estimate of _build_capacity_recovery_request
  Usages,         \* usages a provider may report, [prompt, completion]
  ToolTokens,     \* argument and result tokens a tool group may leave behind
  Factor          \* _token_estimate_safety_factor, in percent

None == [in |-> 0, out |-> 0]                 \* no reservation row: out >= 1
NoObservation == [prompt |-> 0, growth |-> 0, tools |-> 0, set |-> FALSE]
PackageRoles == {"DEVELOPER", "REPAIR"}
Roles == PackageRoles \cup {"REVIEWER"}
Stages == {"PLANNING", "DEVELOPMENT", "VERIFICATION_REPAIR", "REVIEW_PUBLICATION"}
Levels == <<"NORMAL", "WARNING", "CRITICAL", "EXHAUSTED">>

ASSUME BudgetAssumption ==
  /\ IsFiniteSet(Calls)
  /\ TaskOf \in [Calls -> Tasks] /\ RoleOf \in [Calls -> Roles]
  /\ {Total, PlanTotal, MaxAttempts, MaxOutput, Factor} \subseteq Nat \ {0}
  /\ Factor >= 100
  /\ Estimates \subseteq Nat /\ ToolTokens \subseteq Nat /\ Envelope \in Nat
  /\ Usages \subseteq [prompt : Nat, completion : Nat]

VARIABLES
  plan,      \* planning_token_budgets row, and its one open reservation
  planner,   \* control point of the planning conversation
  planLog,   \* history: what each Planner call reserved and used
  run,       \* run_token_budgets row
  stage,     \* run_stage_token_budgets rows
  share,     \* run_task_token_budgets rows, the columns of each role
  obs,       \* newest run_task_cost_observations row of a task and role
  rows,      \* run_token_reservations
  point,     \* control point of each call
  want,      \* the reservation the call computed, then the usage it settles
  runLock,   \* call that holds the Run row
  taskLock,  \* call that holds each work-package row
  log        \* history: what each settled call reserved and used

planVars == <<plan, planner, planLog>>
rowVars  == <<run, stage, share, rows, log>>
lockVars == <<runLock, taskLock>>
budgetVars == <<planVars, rowVars, obs, point, want, lockVars>>

Free == "free"
Amount(r) == r.in + r.out
StatusRank(s) == CHOOSE i \in 1..4 : Levels[i] = s

\* RunTokenBudgetStatus of an amount; both stores have the same thresholds.
StatusFor(amount, total) ==
  Levels[IF amount >= total THEN 4
         ELSE IF amount * 100 >= total * 90 THEN 3
         ELSE IF amount * 100 >= total * 70 THEN 2 ELSE 1]

\* None: cancelled, nothing is charged; an all-zero usage is charged in full.
ActualUsage(usage, row) ==
  IF usage.prompt + usage.completion = 0 THEN [prompt |-> row.in, completion |-> row.out]
  ELSE usage

StageFor(role) ==
  CASE role = "PLANNER" -> "PLANNING"
    [] role = "REPAIR" -> "VERIFICATION_REPAIR"
    [] role = "REVIEWER" -> "REVIEW_PUBLICATION"
    [] OTHER -> "DEVELOPMENT"

CeilFactor(n) == (n * Factor + 99) \div 100

\* _next_input_prediction; the write/patch floor is never above the growth
\* floor because write and patch arguments are part of all tool arguments.
NextInputPrediction(estimate, prompt, growth, tools) ==
  Max({estimate, CeilFactor(prompt), prompt + CeilFactor(Max({growth, tools}))})

Calibrated(c, estimate) ==
  LET observed == share[TaskOf[c]][RoleOf[c]].observed
      o == obs[TaskOf[c]][RoleOf[c]]
  IN IF RoleOf[c] \notin PackageRoles THEN estimate
     ELSE IF ~o.set THEN Max({estimate, CeilFactor(observed)})
     ELSE NextInputPrediction(estimate, Max({observed, o.prompt}), o.growth, o.tools)

-----------------------------------------------------------------------------
(* The launch: planning budget, one initial call, one bounded recovery.    *)

PlanAvailable == Max({0, PlanTotal - plan.used - Amount(plan.row)})

\* PlanningBudgetedAgentDriver.ensure_capacity: the sum over two requests.
RequiredTokens(first) == first + MaxOutput + Envelope + MaxOutput

CapacityFor(tokens, calls) == calls <= MaxAttempts - plan.attempts /\ tokens <= PlanAvailable

\* Fault: Checks the first request alone.
EnsureFirstOnly ==
  /\ planner = "new"
  /\ \E e \in Estimates :
       /\ planLog' = [planLog EXCEPT !.first = e]
       /\ planner' = IF CapacityFor(e + MaxOutput, 1) THEN "checked" ELSE "denied"
  /\ UNCHANGED <<plan, rowVars, obs, point, want, lockVars>>

\* ensure_launch_capacity: initial request plus the recovery envelope.
EnsureCapacity ==
  /\ planner = "new"
  /\ \E e \in Estimates :
       /\ planLog' = [planLog EXCEPT !.first = e]
       /\ planner' = IF CapacityFor(RequiredTokens(e), 2) THEN "checked" ELSE "denied"
  /\ UNCHANGED <<plan, rowVars, obs, point, want, lockVars>>

PlanRefusal(estimate) ==
  \/ plan.attempts >= MaxAttempts
  \/ plan.used + Amount(plan.row) + estimate + MaxOutput > PlanTotal

\* PostgresPlanningTokenBudgetStore.reserve.  _mark_exhausted runs in the
\* transaction that the raised error rolls back, so a refusal changes no row.
PlanReserve ==
  /\ planner \in {"checked", "recover"}
  /\ \E e \in IF planner = "checked" THEN {planLog.first} ELSE Estimates :
       IF PlanRefusal(e)
       THEN /\ planner' = "denied"
            /\ planLog' = [planLog EXCEPT !.denied = e + MaxOutput]
            /\ UNCHANGED plan
       ELSE /\ plan' = [plan EXCEPT !.row = [in |-> e, out |-> MaxOutput], !.attempts = @ + 1,
                          !.status = StatusFor(plan.used + e + MaxOutput, PlanTotal)]
            /\ planner' = IF planner = "checked" THEN "calling1" ELSE "calling2"
            /\ UNCHANGED planLog
  /\ UNCHANGED <<rowVars, obs, point, want, lockVars>>

PlanFinish(actual) ==
  plan' = [plan EXCEPT !.row = None, !.used = @ + actual,
             !.status = StatusFor(plan.used + actual, PlanTotal)]

\* The answer is valid, or invalid and then repaired once, or the plan is
\* valid but must be split again for the budget (replan_for_budget).
PlanSettle ==
  /\ planner \in {"calling1", "calling2"}
  /\ \E u \in Usages, good \in BOOLEAN :
       LET actual == ActualUsage(u, plan.row) IN
       /\ PlanFinish(actual.prompt + actual.completion)
       /\ planLog' = [planLog EXCEPT !.over =
            @ + Max({0, actual.prompt + actual.completion - Amount(plan.row)})]
       /\ planner' = IF good THEN "planned" ELSE IF planner = "calling1" THEN "recover" ELSE "failed"
  /\ UNCHANGED <<rowVars, obs, point, want, lockVars>>

\* The provider raised, or the caller was cancelled: cancel(reservation).
PlanCancel ==
  /\ planner \in {"calling1", "calling2"}
  /\ PlanFinish(0)
  /\ planner' = "failed"
  /\ UNCHANGED <<planLog, rowVars, obs, point, want, lockVars>>

\* The API process dies during the call: nobody settles the reservation.
PlanLost ==
  /\ planner \in {"calling1", "calling2"}
  /\ planner' = "failed"
  /\ UNCHANGED <<plan, planLog, rowVars, obs, point, want, lockVars>>

\* _transfer_planner_usage, first transaction: link_to_run.  The Run, its
\* budget row and its shares exist by now (_initialize_run_token_budget).
LinkToRun ==
  /\ planner = "planned"
  /\ plan' = [plan EXCEPT !.linked = TRUE]
  /\ planner' = IF plan.used > 0 THEN "linked" ELSE "running"
  /\ planLog' = [first |-> 0, over |-> 0, denied |-> 0]
  /\ UNCHANGED <<rowVars, obs, point, want, lockVars>>

RecordStageUsage(role, total) == stage' = [stage EXCEPT ![StageFor(role)].used = @ + total]

\* Fault: Leaves the status of the Run alone when planning is charged.
RecordUsageSilently ==
  /\ planner = "linked" /\ runLock = Free
  /\ run' = [run EXCEPT !.used = @ + plan.used]
  /\ RecordStageUsage("PLANNER", plan.used)
  /\ planner' = "running"
  /\ UNCHANGED <<plan, planLog, share, rows, log, obs, point, want, lockVars>>

\* Second transaction: record_usage charges the Run for its own planning.
RecordUsage ==
  /\ planner = "linked" /\ runLock = Free
  /\ run' = [run EXCEPT !.used = @ + plan.used,
               !.status = IF StatusRank(StatusFor(run.used + plan.used, Total)) > 1
                          THEN StatusFor(run.used + plan.used, Total) ELSE @]
  /\ RecordStageUsage("PLANNER", plan.used)
  /\ planner' = "running"
  /\ UNCHANGED <<plan, planLog, share, rows, log, obs, point, want, lockVars>>

\* The process dies in between; a retry of link_to_run answers zero usage,
\* and the Run goes on (its controller finds it in the database).
TransferLost ==
  /\ planner = "linked"
  /\ planner' = "running"
  /\ UNCHANGED <<plan, planLog, rowVars, obs, point, want, lockVars>>

-----------------------------------------------------------------------------
(* A model call of the Run: BudgetedAgentDriver.complete.                  *)

\* Fault: Keeps the package row locked after a reservation.
ReleaseRunOnly(c) ==
  /\ runLock' = IF runLock = c THEN Free ELSE runLock
  /\ UNCHANGED taskLock

\* The end of a transaction frees its row locks.
Release(c) ==
  /\ runLock' = IF runLock = c THEN Free ELSE runLock
  /\ taskLock' = [t \in Tasks |-> IF taskLock[t] = c THEN Free ELSE taskLock[t]]

\* reserve, up to its first lock: the calibrated estimate of the package row.
BeginReserve(c) ==
  /\ point[c] = "idle" /\ planner = "running"
  /\ RoleOf[c] \in PackageRoles => taskLock[TaskOf[c]] = Free
  /\ \E e \in Estimates :
       want' = [want EXCEPT ![c] = [in |-> Calibrated(c, e), out |-> MaxOutput]]
  /\ taskLock' = IF RoleOf[c] \in PackageRoles THEN [taskLock EXCEPT ![TaskOf[c]] = c] ELSE taskLock
  /\ point' = [point EXCEPT ![c] = "reserving"]
  /\ UNCHANGED <<planVars, rowVars, obs, runLock>>

\* Fault: Admits a call against what is used and forgets what is promised.
FitsUsedOnly(c) == run.used + Amount(want[c]) <= Total

Fits(c) == run.used + run.reserved + Amount(want[c]) <= Total

\* Soft shares are telemetry: there is no denial path.
RecordSoftShare(c) ==
  share' = [share EXCEPT ![TaskOf[c]][RoleOf[c]].reserved = @ + Amount(want[c])]

ReserveHierarchy(c) ==
  /\ stage' = [stage EXCEPT ![StageFor(RoleOf[c])].reserved = @ + Amount(want[c])]
  /\ IF RoleOf[c] \in PackageRoles THEN RecordSoftShare(c) ELSE UNCHANGED share

\* reserve, the rest: the Run row decides, and everything is committed.
Reserve(c) ==
  /\ point[c] = "reserving" /\ runLock = Free
  /\ Fits(c)
  /\ ReserveHierarchy(c)
  /\ run' = [run EXCEPT !.reserved = @ + Amount(want[c]),
               !.status = StatusFor(run.used + run.reserved + Amount(want[c]), Total)]
  /\ rows' = [rows EXCEPT ![c] = want[c]]
  /\ point' = [point EXCEPT ![c] = "calling"]
  /\ Release(c)
  /\ UNCHANGED <<planVars, log, obs, want>>

\* RunBudgetExhaustedError rolls the transaction back ...
Refuse(c) ==
  /\ point[c] = "reserving" /\ runLock = Free
  /\ ~Fits(c)
  /\ point' = [point EXCEPT ![c] = "refused"]
  /\ Release(c)
  /\ UNCHANGED <<planVars, rowVars, obs, want>>

\* ... and a second transaction makes the refusal visible.
PersistRunExhaustedStatus(c) ==
  /\ point[c] = "refused" /\ runLock = Free
  /\ run' = [run EXCEPT !.status = "EXHAUSTED"]
  /\ point' = [point EXCEPT ![c] = "denied"]
  /\ UNCHANGED <<planVars, stage, share, rows, log, obs, want, lockVars>>

\* The provider answered: settle(reservation, usage) follows.
ProviderAnswers(c) ==
  /\ point[c] = "calling"
  /\ \E u \in Usages :
       LET actual == ActualUsage(u, rows[c]) IN
       want' = [want EXCEPT ![c] = [in |-> actual.prompt, out |-> actual.completion]]
  /\ point' = [point EXCEPT ![c] = "settling"]
  /\ UNCHANGED <<planVars, rowVars, obs, lockVars>>

\* It raised, or the turn timed out: cancel(reservation) follows.
ProviderFails(c) ==
  /\ point[c] = "calling"
  /\ want' = [want EXCEPT ![c] = None]
  /\ point' = [point EXCEPT ![c] = "cancelling"]
  /\ UNCHANGED <<planVars, rowVars, obs, lockVars>>

\* _finish_reservation, up to the Run row.
BeginFinish(c) ==
  /\ point[c] \in {"settling", "cancelling"} /\ runLock = Free
  /\ runLock' = c
  /\ point' = [point EXCEPT ![c] = IF point[c] = "settling" THEN "settle2" ELSE "cancel2"]
  /\ UNCHANGED <<planVars, rowVars, obs, want, taskLock>>

SettleHierarchy(c) ==
  LET s == StageFor(RoleOf[c])
      row == share[TaskOf[c]][RoleOf[c]]
      paid(r) == [r EXCEPT !.reserved = Max({0, @ - Amount(rows[c])}), !.used = @ + Amount(want[c])]
  IN /\ stage' = [stage EXCEPT ![s] = paid(stage[s])]
     /\ share' = IF RoleOf[c] \notin PackageRoles THEN share
                 ELSE [share EXCEPT ![TaskOf[c]][RoleOf[c]] =
                         [paid(row) EXCEPT !.observed = Max({row.observed, want[c].in})]]

\* Fault: Settles the Run row and forgets the stage and package rows of a cancel.
FinishSkipsHierarchy(c) ==
  /\ point[c] \in {"settle2", "cancel2"}
  /\ RoleOf[c] \in PackageRoles => taskLock[TaskOf[c]] = Free
  /\ run' = [run EXCEPT !.reserved = Max({0, @ - Amount(rows[c])}), !.used = @ + Amount(want[c]),
               !.status = StatusFor(run.used + Amount(want[c]), Total)]
  /\ IF point[c] = "cancel2" THEN UNCHANGED <<stage, share>> ELSE SettleHierarchy(c)
  /\ rows' = [rows EXCEPT ![c] = None]
  /\ log' = [log EXCEPT ![c] = [reserved |-> Amount(rows[c]), used |-> Amount(want[c])]]
  /\ point' = [point EXCEPT ![c] = IF point[c] = "settle2" /\ RoleOf[c] \in PackageRoles THEN "observing" ELSE "done"]
  /\ Release(c)
  /\ UNCHANGED <<planVars, obs, want>>

\* ... and the rest of it, once the package row is free too.
FinishReservation(c) ==
  /\ point[c] \in {"settle2", "cancel2"}
  /\ RoleOf[c] \in PackageRoles => taskLock[TaskOf[c]] = Free
  /\ run' = [run EXCEPT !.reserved = Max({0, @ - Amount(rows[c])}), !.used = @ + Amount(want[c]),
               !.status = StatusFor(run.used + Amount(want[c]), Total)]
  /\ SettleHierarchy(c)
  /\ rows' = [rows EXCEPT ![c] = None]
  /\ log' = [log EXCEPT ![c] = [reserved |-> Amount(rows[c]), used |-> Amount(want[c])]]
  /\ point' = [point EXCEPT ![c] = IF point[c] = "settle2" /\ RoleOf[c] \in PackageRoles THEN "observing" ELSE "done"]
  /\ Release(c)
  /\ UNCHANGED <<planVars, obs, want>>

\* Fault: a prompt that shrank makes the context growth negative.
ObservationUnclamped(c) ==
  /\ point[c] = "observing" /\ taskLock[TaskOf[c]] = Free
  /\ \E n \in ToolTokens :
       obs' = [obs EXCEPT ![TaskOf[c]][RoleOf[c]] =
                 [prompt |-> want[c].in, growth |-> want[c].in - @.prompt, tools |-> n, set |-> TRUE]]
  /\ point' = [point EXCEPT ![c] = "tools"]
  /\ UNCHANGED <<planVars, rowVars, want, lockVars>>

\* record_model_turn_observation, with the arguments of the answer's tools.
RecordTurnObservation(c) ==
  /\ point[c] = "observing" /\ taskLock[TaskOf[c]] = Free
  /\ \E n \in ToolTokens :
       obs' = [obs EXCEPT ![TaskOf[c]][RoleOf[c]] =
                 [prompt |-> want[c].in, growth |-> Max({0, want[c].in - @.prompt}),
                  tools |-> n, set |-> TRUE]]
  /\ point' = [point EXCEPT ![c] = "tools"]
  /\ UNCHANGED <<planVars, rowVars, want, lockVars>>

\* record_tool_outcome_observation: results are added, arguments that the
\* retained conversation no longer holds are taken off.
RecordToolOutcome(c) ==
  /\ point[c] = "tools" /\ taskLock[TaskOf[c]] = Free
  /\ \E n \in ToolTokens : obs' = [obs EXCEPT ![TaskOf[c]][RoleOf[c]].tools = n]
  /\ point' = [point EXCEPT ![c] = "done"]
  /\ UNCHANGED <<planVars, rowVars, want, lockVars>>

WaitsFor(c, d) ==
  \/ point[c] = "reserving" /\ runLock = d
  \/ point[c] \in {"settle2", "cancel2"} /\ RoleOf[c] \in PackageRoles /\ taskLock[TaskOf[c]] = d

\* The open transaction is rolled back and complete never settles or cancels.
Rollback(c) ==
  /\ point' = [point EXCEPT ![c] = "lost"]
  /\ Release(c)
  /\ UNCHANGED <<planVars, rowVars, obs, want>>

\* PostgreSQL aborts one of two transactions that wait for each other.
DeadlockVictim(c) == (\E d \in Calls \ {c} : WaitsFor(c, d) /\ WaitsFor(d, c)) /\ Rollback(c)

\* The turn's asyncio.timeout, which covers the ledger calls too, or a
\* killed worker.
Interrupt(c) ==
  /\ point[c] \in {"reserving", "refused", "calling", "settling", "cancelling", "settle2", "cancel2", "observing"}
  /\ Rollback(c)

\* initialize of the launch ledger.
InitPlan ==
  plan = [used |-> 0, row |-> None, attempts |-> 0, status |-> "NORMAL", linked |-> FALSE]

\* initialize and initialize_hierarchy of the Run ledger; no share of a
\* stage or package limits a call.
InitRun == run = [used |-> 0, reserved |-> 0, status |-> "NORMAL"]

InitHierarchy ==
  /\ stage = [s \in Stages |-> [used |-> 0, reserved |-> 0]]
  /\ share = [t \in Tasks |-> [r \in Roles |-> [used |-> 0, reserved |-> 0, observed |-> 0]]]

BudgetInit ==
  /\ InitPlan /\ InitRun /\ InitHierarchy
  /\ planner = "new"
  /\ planLog = [first |-> 0, over |-> 0, denied |-> 0]
  /\ obs = [t \in Tasks |-> [r \in Roles |-> NoObservation]]
  /\ rows = [c \in Calls |-> None]
  /\ point = [c \in Calls |-> "idle"]
  /\ want = [c \in Calls |-> None]
  /\ runLock = Free
  /\ taskLock = [t \in Tasks |-> Free]
  /\ log = [c \in Calls |-> [reserved |-> 0, used |-> 0]]

PlanningStep ==
  \/ EnsureCapacity \/ PlanReserve \/ PlanSettle \/ PlanCancel \/ PlanLost
  \/ LinkToRun \/ RecordUsage \/ TransferLost

CallStep(c) ==
  \/ BeginReserve(c) \/ Reserve(c) \/ Refuse(c) \/ PersistRunExhaustedStatus(c)
  \/ ProviderAnswers(c) \/ ProviderFails(c) \/ BeginFinish(c) \/ FinishReservation(c)
  \/ RecordTurnObservation(c) \/ RecordToolOutcome(c)

BudgetNext == PlanningStep \/ \E c \in Calls : CallStep(c) \/ DeadlockVictim(c) \/ Interrupt(c)

BudgetSpec == BudgetInit /\ [][BudgetNext]_budgetVars

\* A provider call ends (it has a timeout), lock queues move and PostgreSQL
\* detects deadlocks.
BudgetFairSpec == BudgetSpec /\ WF_budgetVars(PlanningStep)
                             /\ \A c \in Calls : WF_budgetVars(CallStep(c)) /\ WF_budgetVars(DeadlockVictim(c))

-----------------------------------------------------------------------------
(* Properties                                                              *)

Reservations == [in : Nat, out : Nat]
Totals == [used : Nat, reserved : Nat]

(* Every row and every conversation keeps its shape; the launch never makes *)
(* more Planner calls than max_attempts.                                    *)
BudgetTypeOK ==
  /\ plan \in [used : Nat, row : Reservations, attempts : 0..MaxAttempts,
               status : {Levels[i] : i \in 1..4}, linked : BOOLEAN]
  /\ planner \in {"new", "checked", "calling1", "recover", "calling2", "planned",
                  "failed", "denied", "linked", "running"}
  /\ planLog \in [first : Nat, over : Nat, denied : Nat]
  /\ run \in [used : Nat, reserved : Nat, status : {Levels[i] : i \in 1..4}]
  /\ stage \in [Stages -> Totals]
  /\ share \in [Tasks -> [Roles -> [used : Nat, reserved : Nat, observed : Nat]]]
  /\ obs \in [Tasks -> [Roles -> [prompt : Nat, growth : Nat, tools : Nat, set : BOOLEAN]]]
  /\ rows \in [Calls -> Reservations] /\ want \in [Calls -> Reservations]
  /\ point \in [Calls -> {"idle", "reserving", "refused", "denied", "calling", "settling", "cancelling",
                       "settle2", "cancel2", "observing", "tools", "done", "lost"}]
  /\ runLock \in Calls \cup {Free} /\ taskLock \in [Tasks -> Calls \cup {Free}]
  /\ log \in [Calls -> Totals]

Reserved(S) == MapThenSumSet(LAMBDA c : Amount(rows[c]), S)
Used(S) == MapThenSumSet(LAMBDA c : log[c].used, S)
CallsOf(t, r) == {c \in Calls : TaskOf[c] = t /\ RoleOf[c] = r}

(* Whatever is interrupted, the four ledgers tell the same story: the Run   *)
(* row is the sum of its open reservations and of its settled calls, the    *)
(* stages and the package shares split exactly that, the GREATEST(0, ...)   *)
(* clamps never hide a difference, and planning is charged at most once.    *)
LedgersAgree ==
  /\ run.reserved = Reserved(Calls)
  /\ run.used = Used(Calls) + stage["PLANNING"].used
  /\ run.reserved = MapThenSumSet(LAMBDA s : stage[s].reserved, Stages)
  /\ run.used = MapThenSumSet(LAMBDA s : stage[s].used, Stages)
  /\ \A t \in Tasks, r \in PackageRoles :
       /\ share[t][r].reserved = Reserved(CallsOf(t, r))
       /\ share[t][r].used = Used(CallsOf(t, r))
  /\ stage["PLANNING"].used \in {0, plan.used}

(* The Run total is a hard limit on admission: spent and promised tokens    *)
(* exceed it only by what providers used beyond their reservation.          *)
HardLimit ==
  run.used + run.reserved <=
    Max({Total, stage["PLANNING"].used}) +
    MapThenSumSet(LAMBDA c : Max({0, log[c].used - log[c].reserved}), Calls)

(* A status shown for the Run never looks better than what it already spent. *)
StatusNotUnderstated == StatusRank(run.status) >= StatusRank(StatusFor(run.used, Total))

(* What ensure_launch_capacity promises: after it passed, the one recovery  *)
(* call is refused only if the first call used more than it reserved or the *)
(* recovery request is larger than the envelope.                            *)
EnvelopeSuffices ==
  planLog.denied > 0 => planLog.over > 0 \/ planLog.denied > Envelope + MaxOutput

(* No call waits for ever for a ledger row, although reserve and settle take *)
(* the Run row and the package row in opposite orders.                       *)
CallsEnd == \A c \in Calls : point[c] = "reserving" ~> point[c] \in {"done", "denied", "lost"}

(* Rows of calls, stages, packages and Run, and the status derived from     *)
(* them, stay consistent however transactions interleave and break off.     *)
LedgersSound == BudgetTypeOK /\ LedgersAgree /\ StatusNotUnderstated

(* Admission keeps both promises: the Run's total is not oversold, and the  *)
(* envelope checked at the launch carries the planner's recovery.           *)
LimitsHold == HardLimit /\ EnvelopeSuffices

=============================================================================
