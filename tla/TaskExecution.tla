--------------------------- MODULE TaskExecution ---------------------------
(***************************************************************************)
(* Execution of one persisted task of one Run: the lease row and its       *)
(* fencing token (persistence/leases.py, fencing.py), the dispatch ledger  *)
(* (persistence/dispatch.py), the two publishers of dispatches (the API's  *)
(* durable dispatcher and the reconciler), the broker, and the leased      *)
(* worker that turns a message into durable evidence (workers/).           *)
(*                                                                         *)
(* Every database transaction locks the Run row and then the Task row, so  *)
(* a transaction is one action.  A dispatch_id is the number of the        *)
(* attempt it was created for and a run_token is the number of the         *)
(* generation it was issued to: both are fresh UUIDs created together with *)
(* that number.  lease_owner and lease_dispatch_id are written in the      *)
(* transaction that writes run_token, so a token that is current implies   *)
(* the owner and the dispatch, and only the dispatch is kept.  Database    *)
(* time is the number of ticks the lease has left.                         *)
(***************************************************************************)
EXTENDS Naturals, FiniteSets

CONSTANTS
  Workers,          \* delivery slots: at most one message is processed by each
  Reconcilers,      \* processes that call IdempotentTaskReconciler.reconcile
  MaxAttempts,      \* bound on rows of the dispatch ledger of the task
  MaxGenerations,   \* bound on lease generations of the task
  LeaseTicks,       \* lease_seconds, in ticks of database time
  Redelivery,       \* whether the broker may deliver a message again
  SingleTask        \* whether the Run holds this task only

ASSUME BoundsAssumption ==
  /\ MaxAttempts \in Nat \ {0}
  /\ MaxGenerations \in Nat \ {0}
  /\ LeaseTicks \in Nat \ {0}

ASSUME FlagsAssumption ==
  /\ Redelivery \in BOOLEAN
  /\ SingleTask \in BOOLEAN

VARIABLES
  run,          \* Run.status
  gen,          \* Task.lease_generation, and the current run_token
  disp,         \* Task.lease_dispatch_id (0: none)
  released,     \* Task.lease_released_at is set
  ttl,          \* ticks until Task.lease_until
  grants,       \* LEASE_ACQUIRED / LEASE_TAKEN_OVER events: generation -> dispatch
  attempts,     \* number of rows of the dispatch ledger
  ledger,       \* DispatchAttemptRow.state of each attempt
  queue,        \* messages the broker can deliver
  sent,         \* how often actor.send was called for each dispatch
  received,     \* dispatches with a RECEIVED event
  completed,    \* dispatches with a COMPLETED event
  execStatus,   \* status of the WORKER_EXECUTION evidence of each dispatch
  execGen,      \* generation that wrote that evidence
  commits,      \* generations whose task branch was committed
  detached,     \* generations whose commit thread outlived its cancelled guard
  pc,           \* control point of each delivery slot
  msg,          \* dispatch the slot is processing
  tok,          \* run_token the slot was granted
  outcome,      \* result it computed, see Results
  rpc,          \* control point of each reconciler
  rmsg,         \* dispatch it prepared
  dpc           \* control point of the API's dispatcher

leaseVars  == <<gen, disp, released, ttl, grants>>
ledgerVars == <<attempts, ledger>>
brokerVars == <<queue, sent>>
factVars   == <<received, completed, execStatus, execGen, commits, detached>>
workerVars == <<pc, msg, tok, outcome>>
reconVars  == <<rpc, rmsg>>
vars == <<run, leaseVars, ledgerVars, brokerVars, factVars, workerVars, reconVars, dpc>>

Dispatches  == 1..MaxAttempts
Generations == 1..MaxGenerations

AttemptStates == {"NONE", "REQUESTED", "ENQUEUED", "PUBLISH_FAILED"}
Outcomes      == {"NONE", "SUCCEEDED", "FAILED"}

(* What an execution computed.  RAISED is FAILED evidence whose run_result *)
(* is missing or disagrees; the other two have a run_result that agrees.   *)
Results == Outcomes \cup {"RAISED"}
EvidenceStatus(result) == IF result = "RAISED" THEN "FAILED" ELSE result

(* Control points of a slot between the grant and the end of execution:    *)
(* the points at which its heartbeat task is running.                      *)
Executing == {"loading", "receiving", "working", "persisting", "completing", "finalizing"}
PCs == {"idle", "acquiring", "releasing"} \cup Executing

(***************************************************************************)
(* Lease state and fencing.                                                *)
(***************************************************************************)
LeaseState ==
  CASE gen = 0                         -> "UNOWNED"
    [] gen # 0 /\ released             -> "RELEASED"
    [] gen # 0 /\ ~released /\ ttl = 0 -> "EXPIRED"
    [] OTHER                           -> "ACTIVE"

(* Fault: the fence looks at the state of the lease but not at the token. *)
LiveButNotCurrent(w) == w \in Workers /\ LeaseState = "ACTIVE"

(* assert_live_current_run_token for the token held by slot w.             *)
LiveCurrentToken(w) == tok[w] = gen /\ LeaseState = "ACTIVE"

(* append_evidence and guard_task_git_mutation accept a write of slot w.   *)
FenceAccepts(w) == run = "RUNNING" /\ LiveCurrentToken(w)

Init ==
  /\ run = "RUNNING"
  /\ gen = 0 /\ disp = 0 /\ released = FALSE /\ ttl = 0
  /\ grants = [g \in Generations |-> 0]
  /\ attempts = 0
  /\ ledger = [d \in Dispatches |-> "NONE"]
  /\ queue = {}
  /\ sent = [d \in Dispatches |-> 0]
  /\ received = {} /\ completed = {}
  /\ execStatus = [d \in Dispatches |-> "NONE"]
  /\ execGen = [d \in Dispatches |-> 0]
  /\ commits = {} /\ detached = {}
  /\ pc = [w \in Workers |-> "idle"]
  /\ msg = [w \in Workers |-> 0]
  /\ tok = [w \in Workers |-> 0]
  /\ outcome = [w \in Workers |-> "NONE"]
  /\ rpc = [r \in Reconcilers |-> "idle"]
  /\ rmsg = [r \in Reconcilers |-> 0]
  /\ dpc = "idle"

(***************************************************************************)
(* The API's DurableDramatiqTaskDispatcher: intent, send, observation, in  *)
(* three separate steps; a crash may fall between any two of them.         *)
(***************************************************************************)
InsertAttempt ==
  /\ attempts < MaxAttempts
  /\ attempts' = attempts + 1
  /\ ledger' = [ledger EXCEPT ![attempts + 1] = "REQUESTED"]

BeginInitialAttempt ==
  /\ dpc = "idle"
  /\ run = "RUNNING"
  /\ attempts = 0
  /\ InsertAttempt
  /\ dpc' = "begun"
  /\ UNCHANGED <<run, leaseVars, brokerVars, factVars, workerVars, reconVars>>

(* actor.send: an acknowledged message is delivered, while neither a       *)
(* BrokerConnectionError nor a crash proves that it is not.                *)
Send(d) ==
  /\ sent' = [sent EXCEPT ![d] = @ + 1]
  /\ queue' = queue \cup {d}

SendUnacknowledged(d) ==
  /\ sent' = [sent EXCEPT ![d] = @ + 1]
  /\ queue' \in {queue, queue \cup {d}}

DispatcherSend ==
  /\ dpc = "begun"
  /\ \/ Send(1) /\ dpc' = "sent"
     \/ SendUnacknowledged(1) /\ dpc' = "failed"
  /\ UNCHANGED <<run, leaseVars, ledgerVars, factVars, workerVars, reconVars>>

(* mark_enqueued and mark_publish_failed rewrite only a REQUESTED row.     *)
DispatcherMark ==
  /\ dpc \in {"sent", "failed"}
  /\ ledger[1] = "REQUESTED"
  /\ ledger' = [ledger EXCEPT ![1] = IF dpc = "sent" THEN "ENQUEUED" ELSE "PUBLISH_FAILED"]
  /\ dpc' = "done"
  /\ UNCHANGED <<run, leaseVars, attempts, brokerVars, factVars, workerVars, reconVars>>

DispatcherCrash ==
  /\ dpc \in {"begun", "sent", "failed"}
  /\ dpc' = "done"
  /\ UNCHANGED <<run, leaseVars, ledgerVars, brokerVars, factVars, workerVars, reconVars>>

(***************************************************************************)
(* The reconciler.  prepare_task commits REQUESTED in one transaction; the *)
(* publication guard is a second one that stays open across the send.      *)
(* All other decisions of prepare_task change nothing.                     *)
(***************************************************************************)
PrepareInitial == gen = 0 /\ attempts = 0

(* Faults: recovery ignores terminal evidence, or a newer attempt.        *)
RecoveryIgnoresEvidence == LeaseState = "EXPIRED" /\ attempts = disp
RecoveryIgnoresNewerAttempt == LeaseState = "EXPIRED" /\ execStatus[disp] = "NONE"

PrepareRecovery ==
  /\ LeaseState = "EXPIRED"
  /\ execStatus[disp] = "NONE"
  /\ attempts = disp

PrepareTask(r) ==
  /\ rpc[r] = "idle"
  /\ run = "RUNNING"
  /\ PrepareInitial \/ PrepareRecovery
  /\ InsertAttempt
  /\ rpc' = [rpc EXCEPT ![r] = "prepared"]
  /\ rmsg' = [rmsg EXCEPT ![r] = attempts + 1]
  /\ UNCHANGED <<run, leaseVars, brokerVars, factVars, workerVars, dpc>>

(* What guard_prepared_publication revalidates before it allows the send.  *)
PublicationAllowed(d) ==
  /\ run = "RUNNING"
  /\ d = attempts
  /\ ledger[d] = "REQUESTED"
  /\ d \notin received /\ execStatus[d] = "NONE"
  /\ \/ gen = 0 /\ d = 1
     \/ LeaseState = "EXPIRED" /\ execStatus[disp] = "NONE" /\ d = disp + 1

(* Fault: the reconciler sends again after a BrokerConnectionError.       *)
PublishRetries(r) ==
  /\ rpc[r] = "prepared"
  /\ PublicationAllowed(rmsg[r])
  /\ \/ /\ Send(rmsg[r])
        /\ ledger' = [ledger EXCEPT ![rmsg[r]] = "ENQUEUED"]
        /\ rpc' = [rpc EXCEPT ![r] = "idle"]
        /\ rmsg' = [rmsg EXCEPT ![r] = 0]
     \/ /\ SendUnacknowledged(rmsg[r])
        /\ sent[rmsg[r]] < 2
        /\ UNCHANGED <<ledger, rpc, rmsg>>
  /\ UNCHANGED <<run, leaseVars, attempts, factVars, workerVars, dpc>>

Publish(r) ==
  /\ rpc[r] = "prepared"
  /\ PublicationAllowed(rmsg[r])
  /\ \/ /\ Send(rmsg[r])
        /\ ledger' = [ledger EXCEPT ![rmsg[r]] = "ENQUEUED"]
     \/ /\ SendUnacknowledged(rmsg[r])
        /\ ledger' = [ledger EXCEPT ![rmsg[r]] = "PUBLISH_FAILED"]
     \/ /\ SendUnacknowledged(rmsg[r])        \* crash: the transaction rolls back
        /\ UNCHANGED ledger
  /\ rpc' = [rpc EXCEPT ![r] = "idle"]
  /\ rmsg' = [rmsg EXCEPT ![r] = 0]
  /\ UNCHANGED <<run, leaseVars, attempts, factVars, workerVars, dpc>>

(* The guard rejects the publication, or the process dies before the send. *)
PublishAbandoned(r) ==
  /\ rpc[r] = "prepared"
  /\ rpc' = [rpc EXCEPT ![r] = "idle"]
  /\ rmsg' = [rmsg EXCEPT ![r] = 0]
  /\ UNCHANGED <<run, leaseVars, ledgerVars, brokerVars, factVars, workerVars, dpc>>

(***************************************************************************)
(* The broker.  A message leaves the queue when it is delivered.  With     *)
(* Redelivery, a message whose processing was not acknowledged comes back. *)
(***************************************************************************)
Deliver(w) ==
  /\ pc[w] = "idle"
  /\ \E d \in queue :
       /\ queue' = queue \ {d}
       /\ msg' = [msg EXCEPT ![w] = d]
  /\ pc' = [pc EXCEPT ![w] = "acquiring"]
  /\ UNCHANGED <<run, leaseVars, ledgerVars, sent, factVars, tok, outcome, reconVars, dpc>>

Redeliver(w) ==
  /\ Redelivery
  /\ pc[w] # "idle"
  /\ queue' = queue \cup {msg[w]}
  /\ UNCHANGED <<run, leaseVars, ledgerVars, sent, factVars, workerVars, reconVars, dpc>>

(* The end of a delivery: the slot forgets everything it held.             *)
Idle(w) ==
  /\ pc' = [pc EXCEPT ![w] = "idle"]
  /\ msg' = [msg EXCEPT ![w] = 0]
  /\ tok' = [tok EXCEPT ![w] = 0]
  /\ outcome' = [outcome EXCEPT ![w] = "NONE"]

(* The worker process dies at any point; the lease row stays as it is.     *)
Crash(w) ==
  /\ pc[w] # "idle"
  /\ Idle(w)
  /\ queue' = IF Redelivery THEN queue \cup {msg[w]} ELSE queue
  /\ detached' = detached \ {tok[w]}
  /\ UNCHANGED <<run, leaseVars, ledgerVars, sent, received, completed, execStatus, execGen, commits, reconVars, dpc>>

(***************************************************************************)
(* Database time and the lease row.                                        *)
(***************************************************************************)
Tick ==
  /\ ttl > 0
  /\ ttl' = ttl - 1
  /\ UNCHANGED <<run, gen, disp, released, grants, ledgerVars, brokerVars, factVars, workerVars, reconVars, dpc>>

(* acquire_task_lease grants a generation to dispatch d: the first one, or *)
(* the takeover of an expired generation of another dispatch.  Neither the *)
(* ledger nor the evidence of the task is consulted.                       *)
Acquirable(d) ==
  /\ run = "RUNNING"
  /\ gen = 0 \/ (LeaseState = "EXPIRED" /\ disp # d)

AcquireTaskLease(w) ==
  /\ pc[w] = "acquiring"
  /\ Acquirable(msg[w])
  /\ gen < MaxGenerations
  /\ gen' = gen + 1
  /\ disp' = msg[w]
  /\ released' = FALSE
  /\ ttl' = LeaseTicks
  /\ grants' = [grants EXCEPT ![gen + 1] = msg[w]]
  /\ tok' = [tok EXCEPT ![w] = gen + 1]
  /\ pc' = [pc EXCEPT ![w] = "loading"]
  /\ UNCHANGED <<run, ledgerVars, brokerVars, factVars, msg, outcome, reconVars, dpc>>

(* The conflict is a boundary error: the message is dropped, max_retries=0.*)
RejectDelivery(w) ==
  /\ pc[w] = "acquiring"
  /\ ~Acquirable(msg[w])
  /\ Idle(w)
  /\ UNCHANGED <<run, leaseVars, ledgerVars, brokerVars, factVars, reconVars, dpc>>

(* Faults: the deadline is extended from its old value instead of from    *)
(* database time, or an expired generation is renewed.                     *)
RenewExtendsDeadline(w) ==
  /\ pc[w] \in Executing
  /\ LiveCurrentToken(w)
  /\ ttl' = ttl + LeaseTicks
  /\ UNCHANGED <<run, gen, disp, released, grants, ledgerVars, brokerVars, factVars, workerVars, reconVars, dpc>>

RenewResurrects(w) ==
  /\ pc[w] \in Executing
  /\ tok[w] = gen /\ ~released
  /\ ttl' = LeaseTicks
  /\ UNCHANGED <<run, gen, disp, released, grants, ledgerVars, brokerVars, factVars, workerVars, reconVars, dpc>>

(* One turn of the heartbeat loop while the execution task is running.     *)
RenewTaskLease(w) ==
  /\ pc[w] \in Executing
  /\ LiveCurrentToken(w)
  /\ ttl' = LeaseTicks
  /\ UNCHANGED <<run, gen, disp, released, grants, ledgerVars, brokerVars, factVars, workerVars, reconVars, dpc>>

(* renew_task_lease raised (stale, expired, or the database was out of     *)
(* reach): the execution is cancelled and the lease is not released.       *)
HeartbeatFails(w) ==
  /\ pc[w] \in Executing
  /\ Idle(w)
  /\ UNCHANGED <<run, leaseVars, ledgerVars, brokerVars, factVars, reconVars, dpc>>

(* release_task_lease; a token that is not live and current is reported to *)
(* the caller, which only drops the delivery.                              *)
ReleaseTaskLease(w) ==
  /\ pc[w] = "releasing"
  /\ \/ LiveCurrentToken(w) /\ released' = TRUE
     \/ ~LiveCurrentToken(w) /\ UNCHANGED released
  /\ Idle(w)
  /\ UNCHANGED <<run, gen, disp, ttl, grants, ledgerVars, brokerVars, factVars, reconVars, dpc>>

(***************************************************************************)
(* QueuedTaskWorker.execute.  A step of a slot is one transaction or one   *)
(* guarded Git mutation.  What the slot itself holds changes in Go, what   *)
(* it decides about the result in Decide.                                  *)
(***************************************************************************)
Go(w, next) == pc' = [pc EXCEPT ![w] = next] /\ UNCHANGED <<msg, tok>>

Decide(w, result) == outcome' = [outcome EXCEPT ![w] = result]

(* The execution ends, by return or by exception: what it computed is gone *)
(* and only the lease is left to be released.                              *)
Leave(w) == Go(w, "releasing") /\ Decide(w, "NONE")

UnchangedByWork == UNCHANGED <<leaseVars, ledgerVars, brokerVars, reconVars, dpc>>

(* load_run, load_dag and the project identity check precede the try       *)
(* block: whatever they raise leaves no evidence behind.                   *)
LoadRun(w) ==
  /\ pc[w] = "loading"
  /\ \/ run = "RUNNING" /\ Go(w, "receiving") /\ UNCHANGED outcome
     \/ Leave(w)
  /\ UNCHANGED <<run, factVars>> /\ UnchangedByWork

RecordReceived(w) ==
  /\ pc[w] = "receiving"
  /\ FenceAccepts(w)
  /\ received' = received \cup {msg[w]}
  /\ Go(w, "working")
  /\ UNCHANGED <<run, completed, execStatus, execGen, commits, detached, outcome>>
  /\ UnchangedByWork

(* Fault: the result is the agent's, whether or not the commit failed.    *)
CommitFailureIgnored(w) ==
  /\ pc[w] = "working"
  /\ FenceAccepts(w)
  /\ commits' \in {commits, commits \cup {tok[w]}}
  /\ Decide(w, "SUCCEEDED")
  /\ Go(w, "persisting")
  /\ UNCHANGED <<run, received, completed, execStatus, execGen, detached>> /\ UnchangedByWork

(* The agent run SUCCEEDED: the task branch is committed under the Git     *)
(* guard, or the guard refuses and the evidence is FAILED.                 *)
CommitTask(w) ==
  /\ pc[w] = "working"
  /\ \/ /\ FenceAccepts(w)
        /\ commits' = commits \cup {tok[w]}
        /\ Decide(w, "SUCCEEDED")
     \/ /\ ~FenceAccepts(w)
        /\ Decide(w, "RAISED")
        /\ UNCHANGED commits
  /\ Go(w, "persisting")
  /\ UNCHANGED <<run, received, completed, execStatus, execGen, detached>> /\ UnchangedByWork

AgentFails(w) ==
  /\ pc[w] = "working"
  /\ Decide(w, "FAILED")
  /\ Go(w, "persisting")
  /\ UNCHANGED <<run, factVars>> /\ UnchangedByWork

(* Any other exception before the evidence is durable is turned into       *)
(* FAILED evidence without a run_result, even if the branch is committed.  *)
WorkerException(w) ==
  /\ pc[w] \in {"receiving", "working", "persisting"}
  /\ Decide(w, "RAISED")
  /\ Go(w, "persisting")
  /\ UNCHANGED <<run, factVars>> /\ UnchangedByWork

(* The WORKER_EXECUTION row is keyed by the dispatch.  A key that is taken *)
(* leads to the exception path, whose row is accepted only if an equal one *)
(* (FAILED, no run_result) is already there.                               *)
PersistExecution(w) ==
  /\ pc[w] = "persisting"
  /\ FenceAccepts(w)
  /\ \/ /\ execStatus[msg[w]] = "NONE"
        /\ execStatus' = [execStatus EXCEPT ![msg[w]] = EvidenceStatus(outcome[w])]
        /\ execGen' = [execGen EXCEPT ![msg[w]] = tok[w]]
        /\ Go(w, "completing")
        /\ UNCHANGED outcome
     \/ /\ execStatus[msg[w]] = "FAILED"
        /\ Decide(w, "RAISED")
        /\ Go(w, "completing")
        /\ UNCHANGED <<execStatus, execGen>>
     \/ /\ execStatus[msg[w]] # "NONE"
        /\ Leave(w)
        /\ UNCHANGED <<execStatus, execGen>>
  /\ UNCHANGED <<run, received, completed, commits, detached>> /\ UnchangedByWork

(* The COMPLETED event, after the interface registry and the budget.  When *)
(* one of those fails the event is still recorded, the Run not finalized.  *)
RecordCompleted(w) ==
  /\ pc[w] = "completing"
  /\ FenceAccepts(w)
  /\ completed' = completed \cup {msg[w]}
  /\ \/ SingleTask /\ outcome[w] # "RAISED" /\ Go(w, "finalizing") /\ UNCHANGED outcome
     \/ Leave(w)
  /\ UNCHANGED <<run, received, execStatus, execGen, commits, detached>> /\ UnchangedByWork

(* finalize_single_task_run, or the exception that leaves the Run RUNNING. *)
FinalizeSingleTask(w) ==
  /\ pc[w] = "finalizing"
  /\ FenceAccepts(w)
  /\ run' \in {run, outcome[w]}
  /\ Leave(w)
  /\ UNCHANGED factVars /\ UnchangedByWork

(* A fenced write is refused; the handlers try one more fenced write, it   *)
(* is refused too, and the exception reaches the lease layer.              *)
FenceFails(w) ==
  /\ pc[w] \in {"receiving", "persisting", "completing", "finalizing"}
  /\ ~FenceAccepts(w)
  /\ Leave(w)
  /\ UNCHANGED <<run, factVars>> /\ UnchangedByWork

(* Fault: the time limit does not reach a running agent.                  *)
AbandonSparesAgent(w) ==
  /\ pc[w] \in Executing \ {"working"}
  /\ Leave(w)
  /\ UNCHANGED <<run, factVars>> /\ UnchangedByWork

(* The actor's time limit, or the shutdown of the worker, cancels the      *)
(* execution wherever it is; no Exception handler runs, the lease layer    *)
(* releases.                                                               *)
Abandon(w) ==
  /\ pc[w] \in Executing
  /\ Leave(w)
  /\ UNCHANGED <<run, factVars>> /\ UnchangedByWork

(* A cancellation (time limit, shutdown or failed heartbeat) that arrives  *)
(* while the guard waits for asyncio.to_thread(commit_task_changes): the   *)
(* guard's transaction ends, the thread does not.                          *)
CancelInGuard(w) ==
  /\ pc[w] = "working"
  /\ FenceAccepts(w)
  /\ detached' = detached \cup {tok[w]}
  /\ Leave(w) \/ Idle(w)
  /\ UNCHANGED <<run, received, completed, execStatus, execGen, commits>> /\ UnchangedByWork

DetachedCommit ==
  /\ \E g \in detached :
       /\ commits' = commits \cup {g}
       /\ detached' = detached \ {g}
  /\ UNCHANGED <<run, received, completed, execStatus, execGen, workerVars>> /\ UnchangedByWork

(* MultiTaskProductController closes the Run of several tasks once every   *)
(* task has its evidence; SUCCEEDED only if every one of them succeeded.   *)
ControllerFinalizes ==
  /\ ~SingleTask
  /\ run = "RUNNING"
  /\ \E d \in Dispatches :
       /\ execStatus[d] # "NONE"
       /\ run' \in {"FAILED", execStatus[d]}
  /\ UNCHANGED <<factVars, workerVars>> /\ UnchangedByWork

DispatcherStep == BeginInitialAttempt \/ DispatcherSend \/ DispatcherMark \/ DispatcherCrash

ReconcilerStep(r) == PrepareTask(r) \/ Publish(r) \/ PublishAbandoned(r)

WorkerStep(w) ==
  \/ AcquireTaskLease(w) \/ RejectDelivery(w) \/ LoadRun(w) \/ RecordReceived(w)
  \/ CommitTask(w) \/ AgentFails(w) \/ WorkerException(w) \/ PersistExecution(w)
  \/ RecordCompleted(w) \/ FinalizeSingleTask(w) \/ FenceFails(w) \/ ReleaseTaskLease(w)

Interruption(w) == Abandon(w) \/ CancelInGuard(w) \/ HeartbeatFails(w) \/ Crash(w)

Next ==
  \/ DispatcherStep
  \/ \E r \in Reconcilers : ReconcilerStep(r)
  \/ \E w \in Workers :
       Deliver(w) \/ Redeliver(w) \/ WorkerStep(w) \/ Interruption(w) \/ RenewTaskLease(w)
  \/ DetachedCommit
  \/ ControllerFinalizes
  \/ Tick

Spec == Init /\ [][Next]_vars

(* Database time advances, a delivered message is processed, the time limit*)
(* of the actor strikes, and a release is attempted.  Nothing is assumed of*)
(* the agent, of the heartbeats, of the broker or of the reconcilers.      *)
Fairness ==
  /\ WF_vars(Tick)
  /\ \A w \in Workers : WF_vars(Abandon(w)) /\ WF_vars(ReleaseTaskLease(w))

FairSpec == Spec /\ Fairness

(***************************************************************************)
(* Properties.                                                             *)
(***************************************************************************)

(* Types of every variable.                                                *)
LeaseTypes ==
  /\ gen \in 0..MaxGenerations
  /\ disp \in 0..MaxAttempts
  /\ released \in BOOLEAN
  /\ ttl \in 0..LeaseTicks
  /\ grants \in [Generations -> 0..MaxAttempts]

LedgerTypes ==
  /\ attempts \in 0..MaxAttempts
  /\ ledger \in [Dispatches -> AttemptStates]
  /\ queue \subseteq Dispatches
  /\ sent \in [Dispatches -> Nat]

FactTypes ==
  /\ run \in {"RUNNING", "SUCCEEDED", "FAILED"}
  /\ received \subseteq Dispatches
  /\ completed \subseteq Dispatches
  /\ execStatus \in [Dispatches -> Outcomes]
  /\ execGen \in [Dispatches -> 0..MaxGenerations]
  /\ commits \subseteq Generations
  /\ detached \subseteq Generations

SlotTypes ==
  /\ pc \in [Workers -> PCs]
  /\ msg \in [Workers -> 0..MaxAttempts]
  /\ tok \in [Workers -> 0..MaxGenerations]
  /\ outcome \in [Workers -> Results]

PublisherTypes ==
  /\ rpc \in [Reconcilers -> {"idle", "prepared"}]
  /\ rmsg \in [Reconcilers -> 0..MaxAttempts]
  /\ dpc \in {"idle", "begun", "sent", "failed", "done"}

(* Every variable keeps its type; in particular a lease never runs longer   *)
(* than lease_seconds after its last renewal.                              *)
TypeOK == LeaseTypes /\ LedgerTypes /\ FactTypes /\ SlotTypes /\ PublisherTypes

Evidenced(d) == execStatus[d] # "NONE"

(* However deliveries, expirations, crashes and recovery dispatches        *)
(* interleave, a task ends up with at most one WORKER_EXECUTION row, and   *)
(* it belongs to the dispatch of the current lease: the controller's       *)
(* _terminal_executions never meets conflicting terminal evidence.         *)
AtMostOneTerminalExecution ==
  \A d, e \in Dispatches : Evidenced(d) /\ Evidenced(e) => d = e /\ d = disp

(* No state reached without redelivery makes prepare_task or the           *)
(* publication guard raise PersistenceCorruptionError: no worker evidence  *)
(* on an UNOWNED task, no COMPLETED event without its execution, no lease  *)
(* of an unknown dispatch, at most one attempt beyond an expired lease.    *)
NoSpuriousCorruption ==
  /\ gen = 0 => received = {} /\ completed = {} /\ \A d \in Dispatches : ~Evidenced(d)
  /\ \A d \in completed : Evidenced(d)
  /\ gen # 0 => disp \in 1..attempts
  /\ LeaseState = "EXPIRED" => attempts <= disp + 1

(* A dispatch is handed to actor.send at most once, by whichever publisher *)
(* created its ledger row, whatever the other publishers and crashes do.   *)
PublishedOnce == \A d \in Dispatches : sent[d] <= 1

(* SUCCEEDED evidence names work that exists: the generation that wrote it *)
(* committed its task branch and was granted to that very dispatch.        *)
SucceededEvidenceHasCommit ==
  \A d \in Dispatches :
    execStatus[d] = "SUCCEEDED" => execGen[d] \in commits /\ grants[execGen[d]] = d

(* Once terminal evidence exists the task is resumed downstream, never run *)
(* again: no further dispatch is prepared and no further generation is     *)
(* granted.                                                                *)
TerminalEvidenceNotRerun ==
  [][(\E d \in Dispatches : Evidenced(d)) => attempts' = attempts /\ gen' = gen]_vars

(* The implementation of the fencing contract: an expired generation is    *)
(* replaced and never revived, a released one is final, and the evidence   *)
(* of the task changes only under the ACTIVE generation of a RUNNING Run.  *)
Fenced == INSTANCE FencedTask WITH
  generation <- gen,
  state      <- LeaseState,
  durable    <- <<received, completed, execStatus, execGen>>,
  closed     <- (run # "RUNNING")

FencingContract == Fenced!FSpec

(* No worker keeps a generation ACTIVE for ever by heartbeats: the actor's *)
(* time limit ends the execution, after which the lease is released or     *)
(* expires.  The next generation is granted only then, so that this holds  *)
(* of every generation.                                                    *)
ActiveLeaseSettles == []<>(LeaseState # "ACTIVE")

(***************************************************************************)
(* Strengthenings that make the properties inductive.                      *)
(***************************************************************************)

(* A slot past the grant holds a token that was issued to its message, at  *)
(* or before the current generation, which belongs to lease_dispatch_id.   *)
TokensMatchGrants ==
  /\ gen # 0 => grants[gen] = disp
  /\ \A w \in Workers : pc[w] \notin {"idle", "acquiring"} =>
       tok[w] \in 1..gen /\ grants[tok[w]] = msg[w]

(* A SUCCEEDED result or row stands for a commit of a granted generation.  *)
SuccessIsCommitted ==
  /\ \A w \in Workers : outcome[w] = "SUCCEEDED" =>
       tok[w] \in commits /\ pc[w] \notin {"idle", "acquiring"}
  /\ \A d \in Dispatches : execStatus[d] = "SUCCEEDED" =>
       execGen[d] \in 1..gen /\ execGen[d] \in commits /\ grants[execGen[d]] = d

(* A dispatch is in one place: unsent with the publisher that created it,  *)
(* in the queue, or with one slot that has not asked for the lease; in the *)
(* last two it is ahead of the dispatch that owns the lease.               *)
SentOnce == \A d \in Dispatches : sent[d] <= 1 /\ (d > attempts => sent[d] = 0)

QueuedAhead == \A d \in queue : disp < d /\ d <= attempts /\ sent[d] = 1

AcquiringAhead ==
  \A w \in Workers : pc[w] = "acquiring" =>
    /\ disp < msg[w] /\ msg[w] <= attempts
    /\ msg[w] \notin queue /\ sent[msg[w]] = 1
    /\ \A v \in Workers : pc[v] = "acquiring" /\ msg[v] = msg[w] => v = w

PreparedUnsent ==
  \A r \in Reconcilers : rpc[r] = "prepared" =>
    /\ rmsg[r] <= attempts /\ sent[rmsg[r]] = 0
    /\ \A q \in Reconcilers : rpc[q] = "prepared" /\ rmsg[q] = rmsg[r] => q = r

BegunUnsent ==
  dpc = "begun" =>
    /\ gen = 0 /\ attempts = 1 /\ sent[1] = 0
    /\ \A r \in Reconcilers : rpc[r] # "prepared"

DispatchPlaces == SentOnce /\ QueuedAhead /\ AcquiringAhead /\ PreparedUnsent /\ BegunUnsent

(* The ledger is at most one attempt ahead of the lease, and only when the *)
(* lease has expired without evidence.                                     *)
LedgerFollowsLease ==
  /\ gen = 0 => disp = 0 /\ attempts <= 1
  /\ gen # 0 => 1 <= disp /\ disp <= attempts /\ attempts <= disp + 1
  /\ gen # 0 /\ attempts # disp => LeaseState = "EXPIRED" /\ ~Evidenced(disp)

(* Evidence belongs to the dispatch that owns the lease, and it precedes   *)
(* the COMPLETED event.                                                    *)
EvidenceOfOwner ==
  /\ \A d \in Dispatches : Evidenced(d) => gen # 0 /\ d = disp
  /\ gen = 0 => received = {} /\ completed = {}
  /\ \A d \in completed : Evidenced(d)
  /\ \A w \in Workers : pc[w] = "completing" => Evidenced(msg[w])

OnceOnly == TokensMatchGrants /\ DispatchPlaces /\ LedgerFollowsLease /\ EvidenceOfOwner
=============================================================================
