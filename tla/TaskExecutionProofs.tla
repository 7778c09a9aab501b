------------------------ MODULE TaskExecutionProofs ------------------------
(***************************************************************************)
(* Theorems about TaskExecution, for any number of workers, reconcilers,   *)
(* attempts, generations and ticks.                                        *)
(***************************************************************************)
EXTENDS TaskExecution, TLAPS

(* Every slot and reconciler that is busy holds what its control point     *)
(* promises: a message, a token, a decided result, a prepared dispatch.    *)
SlotsHold ==
  \A w \in Workers :
    /\ pc[w] # "idle" => msg[w] \in Dispatches
    /\ pc[w] \notin {"idle", "acquiring"} => tok[w] \in Generations
    /\ pc[w] \in {"persisting", "completing", "finalizing"} => outcome[w] # "NONE"
    /\ pc[w] = "finalizing" => outcome[w] # "RAISED"

PublishersHold == \A r \in Reconcilers : rpc[r] = "prepared" => rmsg[r] \in Dispatches

SlotInv      == SlotTypes /\ SlotsHold
PublisherInv == PublisherTypes /\ PublishersHold
TInv == LeaseTypes /\ LedgerTypes /\ FactTypes /\ SlotInv /\ PublisherInv

USE BoundsAssumption, FlagsAssumption

LEMMA InitTInv == Init => TInv
  <1> SUFFICES ASSUME Init PROVE TInv OBVIOUS
  <1> USE DEF Init
  <1>0. released \in BOOLEAN OBVIOUS
  <1>1. LeaseTypes   BY <1>0 DEF LeaseTypes
  <1>2. LedgerTypes  BY DEF LedgerTypes, AttemptStates
  <1>3. FactTypes    BY DEF FactTypes, Outcomes
  <1>4. SlotInv      BY DEF SlotInv, SlotTypes, SlotsHold, PCs, Results, Outcomes
  <1>5. PublisherInv BY DEF PublisherInv, PublisherTypes, PublishersHold
  <1>q. QED BY <1>1, <1>2, <1>3, <1>4, <1>5 DEF TInv

(* A part of the state that a step leaves alone keeps its types.           *)
LEMMA Frames ==
  ASSUME TInv
  PROVE  /\ UNCHANGED leaseVars => LeaseTypes'
         /\ UNCHANGED <<ledgerVars, brokerVars>> => LedgerTypes'
         /\ UNCHANGED <<run, factVars>> => FactTypes'
         /\ UNCHANGED workerVars => SlotInv'
         /\ UNCHANGED <<reconVars, dpc>> => PublisherInv'
  <1> USE DEF TInv
  <1>1. UNCHANGED leaseVars => LeaseTypes'
        BY DEF leaseVars, LeaseTypes
  <1>2. UNCHANGED <<ledgerVars, brokerVars>> => LedgerTypes'
        BY DEF ledgerVars, brokerVars, LedgerTypes
  <1>3. UNCHANGED <<run, factVars>> => FactTypes'
        BY DEF factVars, FactTypes
  <1>4. UNCHANGED workerVars => SlotInv'
        BY DEF workerVars, SlotInv, SlotTypes, SlotsHold
  <1>5. UNCHANGED <<reconVars, dpc>> => PublisherInv'
        BY DEF reconVars, PublisherInv, PublisherTypes, PublishersHold
  <1>q. QED BY <1>1, <1>2, <1>3, <1>4, <1>5

(* Sending a dispatch of the ledger keeps the broker's types.              *)
LEMMA SendTypes ==
  ASSUME LedgerTypes, NEW d \in Dispatches, Send(d) \/ SendUnacknowledged(d)
  PROVE  queue' \subseteq Dispatches /\ sent' \in [Dispatches -> Nat]
  <1>1. queue' = queue \/ queue' = queue \cup {d}
        BY DEF Send, SendUnacknowledged
  <1>2. queue' \subseteq Dispatches
        BY <1>1 DEF LedgerTypes
  <1>3. sent' = [sent EXCEPT ![d] = sent[d] + 1]
        BY DEF Send, SendUnacknowledged
  <1>4. sent' \in [Dispatches -> Nat]
        BY <1>3 DEF LedgerTypes
  <1>q. QED BY <1>2, <1>4

(* What the publishers do keeps the types.                                 *)
LEMMA PublishersTInv ==
  ASSUME TInv,
         DispatcherStep \/ \E r \in Reconcilers : ReconcilerStep(r)
  PROVE  TInv'
  <1> USE DEF leaseVars, ledgerVars, brokerVars, factVars, workerVars, reconVars
  <1>1. CASE BeginInitialAttempt
    <2>1. LedgerTypes'
          BY <1>1 DEF BeginInitialAttempt, InsertAttempt, TInv, LedgerTypes, AttemptStates,
              Dispatches
    <2>2. PublisherInv'
          BY <1>1 DEF BeginInitialAttempt, InsertAttempt, TInv, PublisherInv, PublisherTypes,
              PublishersHold, Dispatches
    <2>q. QED BY <1>1, <2>1, <2>2, Frames DEF BeginInitialAttempt, InsertAttempt, TInv
  <1>2. CASE DispatcherSend
    <2>a. 1 \in Dispatches
          BY <1>2 DEF DispatcherSend, Dispatches, TInv, PublisherInv, PublishersHold
    <2>b. queue' \subseteq Dispatches /\ sent' \in [Dispatches -> Nat]
          BY <1>2, <2>a, SendTypes DEF DispatcherSend, TInv
    <2>1. LedgerTypes'
          BY <1>2, <2>a, <2>b DEF DispatcherSend, TInv, LedgerTypes, AttemptStates
    <2>2. PublisherInv'
          BY <1>2 DEF DispatcherSend, Send, SendUnacknowledged, TInv, PublisherInv,
              PublisherTypes, PublishersHold, Dispatches
    <2>q. QED BY <1>2, <2>1, <2>2, Frames DEF DispatcherSend, Send, SendUnacknowledged, TInv
  <1>3. CASE DispatcherMark
    <2>1. LedgerTypes'
          BY <1>3 DEF DispatcherMark, TInv, LedgerTypes, AttemptStates, Dispatches
    <2>2. PublisherInv'
          BY <1>3 DEF DispatcherMark, TInv, PublisherInv, PublisherTypes, PublishersHold, Dispatches
    <2>q. QED BY <1>3, <2>1, <2>2, Frames DEF DispatcherMark, TInv
  <1>4. CASE DispatcherCrash
    <2>1. PublisherInv'
          BY <1>4 DEF DispatcherCrash, TInv, PublisherInv, PublisherTypes, PublishersHold,
              Dispatches
    <2>q. QED BY <1>4, <2>1, Frames DEF DispatcherCrash, TInv
  <1>5. ASSUME NEW r \in Reconcilers, PrepareTask(r) PROVE TInv'
    <2>1. LedgerTypes'
          BY <1>5 DEF PrepareTask, InsertAttempt, TInv, LedgerTypes, AttemptStates, Dispatches
    <2>2. PublisherInv'
          BY <1>5 DEF PrepareTask, InsertAttempt, TInv, PublisherInv, PublisherTypes,
              PublishersHold, Dispatches, LedgerTypes
    <2>q. QED BY <1>5, <2>1, <2>2, Frames DEF PrepareTask, InsertAttempt, TInv
  <1>6. ASSUME NEW r \in Reconcilers, Publish(r) PROVE TInv'
    <2>a. rmsg[r] \in Dispatches
          BY <1>6 DEF Publish, Dispatches, TInv, PublisherInv, PublishersHold
    <2>b. queue' \subseteq Dispatches /\ sent' \in [Dispatches -> Nat]
          BY <1>6, <2>a, SendTypes DEF Publish, TInv
    <2>1. LedgerTypes'
          BY <1>6, <2>a, <2>b DEF Publish, TInv, LedgerTypes, AttemptStates
    <2>2. PublisherInv'
          BY <1>6 DEF Publish, Send, SendUnacknowledged, TInv, PublisherInv, PublisherTypes,
              PublishersHold, Dispatches
    <2>q. QED BY <1>6, <2>1, <2>2, Frames DEF Publish, Send, SendUnacknowledged, TInv
  <1>7. ASSUME NEW r \in Reconcilers, PublishAbandoned(r) PROVE TInv'
    <2>1. PublisherInv'
          BY <1>7 DEF PublishAbandoned, TInv, PublisherInv, PublisherTypes, PublishersHold,
              Dispatches
    <2>q. QED BY <1>7, <2>1, Frames DEF PublishAbandoned, TInv
  <1>q. QED BY <1>1, <1>2, <1>3, <1>4, <1>5, <1>6, <1>7 DEF DispatcherStep, ReconcilerStep

(* So do the broker, the clock, the lease row and interruptions.           *)
LEMMA LeaseTInv ==
  ASSUME TInv,
         \/ \E w \in Workers : \/ Deliver(w) \/ Redeliver(w) \/ Crash(w) \/ AcquireTaskLease(w)
                               \/ RejectDelivery(w) \/ RenewTaskLease(w) \/ HeartbeatFails(w)
                               \/ ReleaseTaskLease(w)
         \/ Tick
  PROVE  TInv'
  <1> USE DEF leaseVars, ledgerVars, brokerVars, factVars, workerVars, reconVars
  <1>1. ASSUME NEW w \in Workers, Deliver(w) PROVE TInv'
    <2>1. LedgerTypes'
          BY <1>1 DEF Deliver, TInv, LedgerTypes, AttemptStates, Dispatches
    <2>2. SlotInv'
          BY <1>1 DEF Deliver, TInv, SlotInv, SlotTypes, SlotsHold, PCs, Executing, Results,
              Outcomes, Dispatches, Generations, LedgerTypes
    <2>q. QED BY <1>1, <2>1, <2>2, Frames DEF Deliver, TInv
  <1>2. ASSUME NEW w \in Workers, Redeliver(w) PROVE TInv'
    <2>1. LedgerTypes'
          BY <1>2 DEF Redeliver, TInv, LedgerTypes, AttemptStates, Dispatches, SlotInv,
              SlotTypes, SlotsHold
    <2>q. QED BY <1>2, <2>1, Frames DEF Redeliver, TInv
  <1>3. ASSUME NEW w \in Workers, Crash(w) PROVE TInv'
    <2>1. LedgerTypes'
          BY <1>3 DEF Crash, Idle, TInv, LedgerTypes, AttemptStates, Dispatches, SlotInv,
              SlotTypes, SlotsHold
    <2>2. FactTypes'
          BY <1>3 DEF Crash, Idle, TInv, FactTypes, Outcomes
    <2>3. SlotInv'
          BY <1>3 DEF Crash, Idle, TInv, SlotInv, SlotTypes, SlotsHold, PCs, Executing, Results,
              Outcomes
    <2>q. QED BY <1>3, <2>1, <2>2, <2>3, Frames DEF Crash, Idle, TInv
  <1>4. ASSUME NEW w \in Workers, AcquireTaskLease(w) PROVE TInv'
    <2>0. released' \in BOOLEAN BY <1>4 DEF AcquireTaskLease
    <2>1. LeaseTypes'
          BY <1>4, <2>0 DEF AcquireTaskLease, TInv, LeaseTypes, SlotInv, SlotTypes, SlotsHold,
              Dispatches, Generations
    <2>2. SlotInv'
          BY <1>4 DEF AcquireTaskLease, TInv, SlotInv, SlotTypes, SlotsHold, PCs, Executing,
              Results, Outcomes, Dispatches, Generations, LeaseTypes
    <2>q. QED BY <1>4, <2>1, <2>2, Frames DEF AcquireTaskLease, TInv
  <1>5. ASSUME NEW w \in Workers, RejectDelivery(w) PROVE TInv'
    <2>1. SlotInv'
          BY <1>5 DEF RejectDelivery, Idle, TInv, SlotInv, SlotTypes, SlotsHold, PCs, Executing,
              Results, Outcomes
    <2>q. QED BY <1>5, <2>1, Frames DEF RejectDelivery, Idle, TInv
  <1>6. ASSUME NEW w \in Workers, RenewTaskLease(w) PROVE TInv'
    <2>1. LeaseTypes'
          BY <1>6 DEF RenewTaskLease, TInv, LeaseTypes
    <2>q. QED BY <1>6, <2>1, Frames DEF RenewTaskLease, TInv
  <1>7. ASSUME NEW w \in Workers, HeartbeatFails(w) PROVE TInv'
    <2>1. SlotInv'
          BY <1>7 DEF HeartbeatFails, Idle, TInv, SlotInv, SlotTypes, SlotsHold, PCs, Executing,
              Results, Outcomes
    <2>q. QED BY <1>7, <2>1, Frames DEF HeartbeatFails, Idle, TInv
  <1>8. ASSUME NEW w \in Workers, ReleaseTaskLease(w) PROVE TInv'
    <2>1. LeaseTypes'
          BY <1>8 DEF ReleaseTaskLease, Idle, TInv, LeaseTypes
    <2>2. SlotInv'
          BY <1>8 DEF ReleaseTaskLease, Idle, TInv, SlotInv, SlotTypes, SlotsHold, PCs,
              Executing, Results, Outcomes
    <2>q. QED BY <1>8, <2>1, <2>2, Frames DEF ReleaseTaskLease, Idle, TInv
  <1>9. CASE Tick
    <2>1. LeaseTypes'
          BY <1>9 DEF Tick, TInv, LeaseTypes
    <2>q. QED BY <1>9, <2>1, Frames DEF Tick, TInv
  <1>q. QED BY <1>1, <1>2, <1>3, <1>4, <1>5, <1>6, <1>7, <1>8, <1>9

(* And so does the execution of a task.                                    *)
LEMMA ExecutionTInv ==
  ASSUME TInv,
         \/ \E w \in Workers : \/ LoadRun(w) \/ RecordReceived(w) \/ CommitTask(w) \/ AgentFails(w)
                               \/ WorkerException(w) \/ PersistExecution(w) \/ RecordCompleted(w)
                               \/ FinalizeSingleTask(w) \/ FenceFails(w) \/ Abandon(w)
                               \/ CancelInGuard(w)
         \/ DetachedCommit \/ ControllerFinalizes
  PROVE  TInv'
  <1> USE DEF leaseVars, ledgerVars, brokerVars, factVars, workerVars, reconVars
  <1>1. ASSUME NEW w \in Workers, LoadRun(w) PROVE TInv'
    <2>1. SlotInv'
          BY <1>1 DEF LoadRun, Go, Decide, Leave, UnchangedByWork, TInv, SlotInv, SlotTypes,
              SlotsHold, PCs, Executing, Results, Outcomes
    <2>q. QED BY <1>1, <2>1, Frames DEF LoadRun, Go, Decide, Leave, UnchangedByWork, TInv
  <1>2. ASSUME NEW w \in Workers, RecordReceived(w) PROVE TInv'
    <2>1. FactTypes'
          BY <1>2 DEF RecordReceived, Go, Decide, Leave, UnchangedByWork, TInv, FactTypes,
              Outcomes, SlotInv, SlotTypes, SlotsHold
    <2>2. SlotInv'
          BY <1>2 DEF RecordReceived, Go, Decide, Leave, UnchangedByWork, TInv, SlotInv,
              SlotTypes, SlotsHold, PCs, Executing, Results, Outcomes
    <2>q. QED BY <1>2, <2>1, <2>2, Frames DEF RecordReceived, Go, Decide, Leave, UnchangedByWork,
              TInv
  <1>3. ASSUME NEW w \in Workers, CommitTask(w) PROVE TInv'
    <2>1. FactTypes'
          BY <1>3 DEF CommitTask, Go, Decide, Leave, UnchangedByWork, TInv, FactTypes, Outcomes,
              SlotInv, SlotTypes, SlotsHold
    <2>2. SlotInv'
          BY <1>3 DEF CommitTask, Go, Decide, Leave, UnchangedByWork, TInv, SlotInv, SlotTypes,
              SlotsHold, PCs, Executing, Results, Outcomes
    <2>q. QED BY <1>3, <2>1, <2>2, Frames DEF CommitTask, Go, Decide, Leave, UnchangedByWork, TInv
  <1>4. ASSUME NEW w \in Workers, AgentFails(w) PROVE TInv'
    <2>1. SlotInv'
          BY <1>4 DEF AgentFails, Go, Decide, Leave, UnchangedByWork, TInv, SlotInv, SlotTypes,
              SlotsHold, PCs, Executing, Results, Outcomes
    <2>q. QED BY <1>4, <2>1, Frames DEF AgentFails, Go, Decide, Leave, UnchangedByWork, TInv
  <1>5. ASSUME NEW w \in Workers, WorkerException(w) PROVE TInv'
    <2>1. SlotInv'
          BY <1>5 DEF WorkerException, Go, Decide, Leave, UnchangedByWork, TInv, SlotInv,
              SlotTypes, SlotsHold, PCs, Executing, Results, Outcomes
    <2>q. QED BY <1>5, <2>1, Frames DEF WorkerException, Go, Decide, Leave, UnchangedByWork, TInv
  <1>6. ASSUME NEW w \in Workers, PersistExecution(w) PROVE TInv'
    <2>1. FactTypes'
          BY <1>6 DEF PersistExecution, Go, Decide, Leave, UnchangedByWork, TInv, FactTypes,
              Outcomes, SlotInv, SlotTypes, SlotsHold, Results, EvidenceStatus
    <2>2. SlotInv'
          BY <1>6 DEF PersistExecution, Go, Decide, Leave, UnchangedByWork, TInv, SlotInv,
              SlotTypes, SlotsHold, PCs, Executing, Results, Outcomes
    <2>q. QED BY <1>6, <2>1, <2>2, Frames DEF PersistExecution, Go, Decide, Leave,
              UnchangedByWork, TInv
  <1>7. ASSUME NEW w \in Workers, RecordCompleted(w) PROVE TInv'
    <2>1. FactTypes'
          BY <1>7 DEF RecordCompleted, Go, Decide, Leave, UnchangedByWork, TInv, FactTypes,
              Outcomes, SlotInv, SlotTypes, SlotsHold
    <2>2. SlotInv'
          BY <1>7 DEF RecordCompleted, Go, Decide, Leave, UnchangedByWork, TInv, SlotInv,
              SlotTypes, SlotsHold, PCs, Executing, Results, Outcomes
    <2>q. QED BY <1>7, <2>1, <2>2, Frames DEF RecordCompleted, Go, Decide, Leave,
              UnchangedByWork, TInv
  <1>8. ASSUME NEW w \in Workers, FinalizeSingleTask(w) PROVE TInv'
    <2>1. FactTypes'
          BY <1>8 DEF FinalizeSingleTask, Go, Decide, Leave, UnchangedByWork, TInv, FactTypes,
              Outcomes, SlotInv, SlotTypes, SlotsHold, Results
    <2>2. SlotInv'
          BY <1>8 DEF FinalizeSingleTask, Go, Decide, Leave, UnchangedByWork, TInv, SlotInv,
              SlotTypes, SlotsHold, PCs, Executing, Results, Outcomes
    <2>q. QED BY <1>8, <2>1, <2>2, Frames DEF FinalizeSingleTask, Go, Decide, Leave,
              UnchangedByWork, TInv
  <1>9. ASSUME NEW w \in Workers, FenceFails(w) PROVE TInv'
    <2>1. SlotInv'
          BY <1>9 DEF FenceFails, Go, Decide, Leave, UnchangedByWork, TInv, SlotInv, SlotTypes,
              SlotsHold, PCs, Executing, Results, Outcomes
    <2>q. QED BY <1>9, <2>1, Frames DEF FenceFails, Go, Decide, Leave, UnchangedByWork, TInv
  <1>10. ASSUME NEW w \in Workers, Abandon(w) PROVE TInv'
    <2>1. SlotInv'
          BY <1>10 DEF Abandon, Go, Decide, Leave, UnchangedByWork, TInv, SlotInv, SlotTypes,
              SlotsHold, PCs, Executing, Results, Outcomes
    <2>q. QED BY <1>10, <2>1, Frames DEF Abandon, Go, Decide, Leave, UnchangedByWork, TInv
  <1>11. ASSUME NEW w \in Workers, CancelInGuard(w) PROVE TInv'
    <2>1. FactTypes'
          BY <1>11 DEF CancelInGuard, Go, Decide, Leave, UnchangedByWork, Idle, TInv, FactTypes,
              Outcomes, SlotInv, SlotTypes, SlotsHold
    <2>2. SlotInv'
          BY <1>11 DEF CancelInGuard, Go, Decide, Leave, UnchangedByWork, Idle, TInv, SlotInv,
              SlotTypes, SlotsHold, PCs, Executing, Results, Outcomes
    <2>q. QED BY <1>11, <2>1, <2>2, Frames DEF CancelInGuard, Go, Decide, Leave, UnchangedByWork,
              Idle, TInv
  <1>12. CASE DetachedCommit
    <2>1. FactTypes'
          BY <1>12 DEF DetachedCommit, Go, Decide, Leave, UnchangedByWork, TInv, FactTypes, Outcomes
    <2>q. QED BY <1>12, <2>1, Frames DEF DetachedCommit, Go, Decide, Leave, UnchangedByWork, TInv
  <1>13. CASE ControllerFinalizes
    <2>1. FactTypes'
          BY <1>13 DEF ControllerFinalizes, Go, Decide, Leave, UnchangedByWork, TInv, FactTypes,
              Outcomes
    <2>q. QED BY <1>13, <2>1, Frames DEF ControllerFinalizes, Go, Decide, Leave, UnchangedByWork,
              TInv
  <1>q. QED BY <1>1, <1>2, <1>3, <1>4, <1>5, <1>6, <1>7, <1>8, <1>9, <1>10, <1>11, <1>12, <1>13

LEMMA NextTInv == TInv /\ [Next]_vars => TInv'
  <1> SUFFICES ASSUME TInv, [Next]_vars PROVE TInv'
      OBVIOUS
  <1>1. CASE UNCHANGED vars
        BY <1>1, Frames DEF vars, TInv
  <1>2. CASE Next
        BY <1>2, PublishersTInv, LeaseTInv, ExecutionTInv DEF Next, WorkerStep, Interruption
  <1>q. QED BY <1>1, <1>2

LEMMA SpecTInv == Spec => []TInv
  BY InitTInv, NextTInv, PTL DEF Spec

(* Every reachable state is well typed, for every instance.                *)
THEOREM TypeCorrect == Spec => []TypeOK
  <1>1. TInv => TypeOK BY DEF TInv, TypeOK, SlotInv, PublisherInv
  <1>q. QED BY SpecTInv, <1>1, PTL

(***************************************************************************)
(* The fencing contract.  Steps that touch neither the lease row, the      *)
(* evidence nor Run.status stutter; the others are classified by what they *)
(* do to the state of the lease.                                           *)
(***************************************************************************)
evidence == <<received, completed, execStatus, execGen>>

LEMMA LeaseStateFrame == UNCHANGED leaseVars => LeaseState' = LeaseState
  BY DEF leaseVars, LeaseState

LEMMA StutterIfUntouched ==
  ASSUME UNCHANGED <<run, leaseVars, evidence>>
  PROVE  UNCHANGED Fenced!fvars
  BY LeaseStateFrame DEF Fenced!fvars, evidence, leaseVars

LEMMA ActiveOwned ==
  ASSUME LeaseState = "ACTIVE" PROVE gen # 0 /\ ~released /\ ttl # 0
  BY DEF LeaseState

(* A fenced write of slot w that leaves the lease and the Run alone.       *)
LEMMA FencedWriteStep ==
  ASSUME NEW w \in Workers, FenceAccepts(w), UNCHANGED <<run, leaseVars>>
  PROVE  Fenced!FNext
  <1>1. LeaseState = "ACTIVE" /\ run = "RUNNING"
        BY DEF FenceAccepts, LiveCurrentToken
  <1>2. Fenced!FWrite
        BY <1>1, LeaseStateFrame DEF Fenced!FWrite, leaseVars
  <1>q. QED BY <1>2 DEF Fenced!FNext

LEMMA AcquireStep ==
  ASSUME TInv, NEW w \in Workers, AcquireTaskLease(w)
  PROVE  Fenced!FNext
  <1>1. run = "RUNNING" /\ UNCHANGED <<run, evidence>>
        BY DEF AcquireTaskLease, Acquirable, factVars, evidence
  <1>2. LeaseState \in {"UNOWNED", "EXPIRED"}
        BY DEF AcquireTaskLease, Acquirable, LeaseState
  <1>3. gen' = gen + 1 /\ gen' # 0 /\ ~released' /\ ttl' # 0
        BY DEF AcquireTaskLease, TInv, LeaseTypes
  <1>4. LeaseState' = "ACTIVE"
        BY <1>3 DEF LeaseState
  <1>5. Fenced!FGrant
        BY <1>1, <1>2, <1>3, <1>4 DEF Fenced!FGrant, evidence
  <1>q. QED BY <1>5 DEF Fenced!FNext

LEMMA RenewStep ==
  ASSUME TInv, NEW w \in Workers, RenewTaskLease(w)
  PROVE  UNCHANGED Fenced!fvars
  <1>1. UNCHANGED <<run, gen, evidence>>
        BY DEF RenewTaskLease, factVars, evidence
  <1>2. LeaseState = "ACTIVE"
        BY DEF RenewTaskLease, LiveCurrentToken
  <1>3. gen' # 0 /\ ~released' /\ ttl' # 0
        BY <1>2, ActiveOwned DEF RenewTaskLease
  <1>4. LeaseState' = "ACTIVE"
        BY <1>3 DEF LeaseState
  <1>q. QED BY <1>1, <1>2, <1>4 DEF Fenced!fvars, evidence

LEMMA ReleaseStep ==
  ASSUME NEW w \in Workers, ReleaseTaskLease(w)
  PROVE  Fenced!FNext \/ UNCHANGED Fenced!fvars
  <1>1. UNCHANGED <<run, gen, disp, ttl, grants, evidence>>
        BY DEF ReleaseTaskLease, factVars, evidence
  <1>2. CASE UNCHANGED released
        BY <1>1, <1>2, StutterIfUntouched DEF leaseVars
  <1>3. CASE LiveCurrentToken(w) /\ released' = TRUE
    <2>1. LeaseState = "ACTIVE" /\ gen' # 0 /\ released'
          BY <1>1, <1>3, ActiveOwned DEF LiveCurrentToken
    <2>2. LeaseState' = "RELEASED"
          BY <2>1 DEF LeaseState
    <2>3. Fenced!FRelease
          BY <1>1, <2>1, <2>2 DEF Fenced!FRelease, evidence
    <2>q. QED BY <2>3 DEF Fenced!FNext
  <1>q. QED BY <1>2, <1>3 DEF ReleaseTaskLease

LEMMA TickStep ==
  ASSUME TInv, Tick
  PROVE  Fenced!FNext \/ UNCHANGED Fenced!fvars
  <1>1. UNCHANGED <<run, gen, released, evidence>>
        BY DEF Tick, factVars, evidence
  <1>2. CASE LeaseState' = LeaseState
        BY <1>1, <1>2 DEF Fenced!fvars, evidence
  <1>3. CASE LeaseState' # LeaseState
    <2>1. LeaseState = "ACTIVE" /\ LeaseState' = "EXPIRED"
          BY <1>1, <1>3 DEF Tick, LeaseState, TInv, LeaseTypes
    <2>2. Fenced!FExpire
          BY <1>1, <2>1 DEF Fenced!FExpire, evidence
    <2>q. QED BY <2>2 DEF Fenced!FNext
  <1>q. QED BY <1>2, <1>3

(* Steps that change Run.status only.                                      *)
LEMMA CloseStep ==
  ASSUME run = "RUNNING", UNCHANGED <<leaseVars, evidence>>
  PROVE  Fenced!FNext \/ UNCHANGED Fenced!fvars
  <1>1. CASE run' = "RUNNING"
        BY <1>1, StutterIfUntouched
  <1>2. CASE run' # "RUNNING"
    <2>1. Fenced!FClose
          BY <1>2, LeaseStateFrame DEF Fenced!FClose, leaseVars, evidence
    <2>q. QED BY <2>1 DEF Fenced!FNext
  <1>q. QED BY <1>1, <1>2

LEMMA NextFenced == TInv /\ [Next]_vars => [Fenced!FNext]_(Fenced!fvars)
  <1> SUFFICES ASSUME TInv, [Next]_vars PROVE Fenced!FNext \/ UNCHANGED Fenced!fvars
      OBVIOUS
  <1> USE DEF evidence, factVars, workerVars, UnchangedByWork
  <1>1. CASE UNCHANGED vars
        BY <1>1, StutterIfUntouched DEF vars
  <1>2. CASE DispatcherStep
        BY <1>2, StutterIfUntouched DEF DispatcherStep, BeginInitialAttempt, DispatcherSend,
           DispatcherMark, DispatcherCrash
  <1>3. ASSUME NEW r \in Reconcilers, ReconcilerStep(r)
        PROVE  Fenced!FNext \/ UNCHANGED Fenced!fvars
        BY <1>3, StutterIfUntouched DEF ReconcilerStep, PrepareTask, Publish, PublishAbandoned
  <1>4. ASSUME NEW w \in Workers, Deliver(w) \/ Redeliver(w) \/ RenewTaskLease(w)
        PROVE  Fenced!FNext \/ UNCHANGED Fenced!fvars
        BY <1>4, StutterIfUntouched, RenewStep DEF Deliver, Redeliver
  <1>5. ASSUME NEW w \in Workers, Interruption(w)
        PROVE  Fenced!FNext \/ UNCHANGED Fenced!fvars
        BY <1>5, StutterIfUntouched DEF Interruption, Abandon, CancelInGuard, HeartbeatFails, Crash
  <1>6. ASSUME NEW w \in Workers, WorkerStep(w)
        PROVE  Fenced!FNext \/ UNCHANGED Fenced!fvars
    <2>1. CASE AcquireTaskLease(w) BY <2>1, AcquireStep
    <2>2. CASE ReleaseTaskLease(w) BY <2>2, ReleaseStep
    <2>3. CASE RecordReceived(w) \/ PersistExecution(w) \/ RecordCompleted(w)
          BY <2>3, FencedWriteStep DEF RecordReceived, PersistExecution, RecordCompleted
    <2>4. CASE FinalizeSingleTask(w)
          BY <2>4, CloseStep DEF FinalizeSingleTask, FenceAccepts
    <2>5. CASE RejectDelivery(w) \/ LoadRun(w) \/ CommitTask(w) \/ AgentFails(w)
               \/ WorkerException(w) \/ FenceFails(w)
          BY <2>5, StutterIfUntouched DEF RejectDelivery, LoadRun, CommitTask, AgentFails,
             WorkerException, FenceFails
    <2>q. QED BY <1>6, <2>1, <2>2, <2>3, <2>4, <2>5 DEF WorkerStep
  <1>7. CASE DetachedCommit
        BY <1>7, StutterIfUntouched DEF DetachedCommit
  <1>8. CASE ControllerFinalizes
        BY <1>8, CloseStep DEF ControllerFinalizes
  <1>9. CASE Tick BY <1>9, TickStep
  <1>q. QED BY <1>1, <1>2, <1>3, <1>4, <1>5, <1>6, <1>7, <1>8, <1>9 DEF Next

LEMMA InitFenced == Init => Fenced!FInit
  BY DEF Init, Fenced!FInit, LeaseState

(* The lease and evidence machinery implements run-token fencing, however  *)
(* the broker behaves and however many workers and reconcilers there are.  *)
THEOREM ImplementsFencing == Spec => FencingContract
  <1>1. Spec => [][Fenced!FNext]_(Fenced!fvars)
        BY SpecTInv, NextFenced, PTL DEF Spec
  <1>q. QED BY InitFenced, <1>1, PTL DEF Spec, FencingContract, Fenced!FSpec

(***************************************************************************)
(* Two shapes cover what most steps of a slot do to its local state.       *)
(***************************************************************************)
SlotAdvances(w) ==
  /\ pc[w] \in Executing
  /\ \E p \in Executing \cup {"releasing"} : pc' = [pc EXCEPT ![w] = p]
  /\ UNCHANGED <<msg, tok>>

SlotEnds(w) == pc[w] # "idle" /\ Idle(w)

Advancing(w) ==
  \/ LoadRun(w) \/ RecordReceived(w) \/ CommitTask(w) \/ AgentFails(w) \/ WorkerException(w)
  \/ PersistExecution(w) \/ RecordCompleted(w) \/ FinalizeSingleTask(w) \/ FenceFails(w)
  \/ Abandon(w)

LEMMA AdvancingAdvances ==
  ASSUME NEW w \in Workers, Advancing(w)
  PROVE  SlotAdvances(w) /\ UnchangedByWork
  <1> USE DEF SlotAdvances, Go, Leave, Executing
  <1>1. CASE LoadRun(w)            BY <1>1 DEF LoadRun
  <1>2. CASE RecordReceived(w)     BY <1>2 DEF RecordReceived
  <1>3. CASE CommitTask(w)         BY <1>3 DEF CommitTask
  <1>4. CASE AgentFails(w)         BY <1>4 DEF AgentFails
  <1>5. CASE WorkerException(w)    BY <1>5 DEF WorkerException
  <1>6. CASE PersistExecution(w)   BY <1>6 DEF PersistExecution
  <1>7. CASE RecordCompleted(w)    BY <1>7 DEF RecordCompleted
  <1>8. CASE FinalizeSingleTask(w) BY <1>8 DEF FinalizeSingleTask
  <1>9. CASE FenceFails(w)         BY <1>9 DEF FenceFails
  <1>10. CASE Abandon(w)           BY <1>10 DEF Abandon
  <1>q. QED
        BY <1>1, <1>2, <1>3, <1>4, <1>5, <1>6, <1>7, <1>8, <1>9, <1>10 DEF Advancing

LEMMA CancelAdvancesOrEnds ==
  ASSUME NEW w \in Workers, CancelInGuard(w)
  PROVE  (SlotAdvances(w) \/ SlotEnds(w)) /\ UnchangedByWork
  BY DEF CancelInGuard, SlotAdvances, SlotEnds, Go, Leave, Executing

(* The steps of Next, grouped by shape.                                    *)
LEMMA NextCases ==
  ASSUME Next
  PROVE  \/ DispatcherStep
         \/ \E r \in Reconcilers : ReconcilerStep(r)
         \/ \E w \in Workers :
              \/ Deliver(w) \/ Redeliver(w) \/ AcquireTaskLease(w) \/ RejectDelivery(w)
              \/ RenewTaskLease(w) \/ ReleaseTaskLease(w) \/ HeartbeatFails(w) \/ Crash(w)
              \/ Advancing(w) \/ CancelInGuard(w)
         \/ DetachedCommit \/ ControllerFinalizes \/ Tick
  BY DEF Next, WorkerStep, Interruption, Advancing

(***************************************************************************)
(* Tokens and grants, however the broker behaves.                          *)
(***************************************************************************)
LEMMA TokensFrame ==
  ASSUME TokensMatchGrants, UNCHANGED <<gen, disp, grants, pc, msg, tok>>
  PROVE  TokensMatchGrants'
  BY DEF TokensMatchGrants

LEMMA TokensSlot ==
  ASSUME TInv, TokensMatchGrants, NEW w \in Workers, SlotAdvances(w) \/ SlotEnds(w),
         UNCHANGED <<gen, disp, grants>>
  PROVE  TokensMatchGrants'
  BY DEF TInv, SlotInv, SlotTypes, TokensMatchGrants, SlotAdvances, SlotEnds, Idle, Executing

LEMMA TokensNext == TInv /\ TokensMatchGrants /\ [Next]_vars => TokensMatchGrants'
  <1> SUFFICES ASSUME TInv, TokensMatchGrants, [Next]_vars PROVE TokensMatchGrants'
      OBVIOUS
  <1> USE DEF leaseVars, workerVars, UnchangedByWork
  <1>1. CASE UNCHANGED vars
        BY <1>1, TokensFrame DEF vars
  <1>2. CASE DispatcherStep
        BY <1>2, TokensFrame DEF DispatcherStep, BeginInitialAttempt, DispatcherSend,
           DispatcherMark, DispatcherCrash
  <1>3. ASSUME NEW r \in Reconcilers, ReconcilerStep(r) PROVE TokensMatchGrants'
        BY <1>3, TokensFrame DEF ReconcilerStep, PrepareTask, Publish, PublishAbandoned
  <1>4. ASSUME NEW w \in Workers, Redeliver(w) \/ RenewTaskLease(w) PROVE TokensMatchGrants'
        BY <1>4, TokensFrame DEF Redeliver, RenewTaskLease
  <1>5. ASSUME NEW w \in Workers, Deliver(w) PROVE TokensMatchGrants'
        BY <1>5 DEF Deliver, TokensMatchGrants, TInv, SlotInv, SlotTypes
  <1>6. ASSUME NEW w \in Workers, AcquireTaskLease(w) PROVE TokensMatchGrants'
        BY <1>6 DEF AcquireTaskLease, TokensMatchGrants, TInv, SlotInv, SlotTypes, LeaseTypes,
           Generations
  <1>7. ASSUME NEW w \in Workers,
               RejectDelivery(w) \/ ReleaseTaskLease(w) \/ HeartbeatFails(w) \/ Crash(w)
        PROVE  TokensMatchGrants'
        BY <1>7, TokensSlot DEF RejectDelivery, ReleaseTaskLease, HeartbeatFails, Crash, SlotEnds,
           Executing
  <1>8. ASSUME NEW w \in Workers, Advancing(w) \/ CancelInGuard(w) PROVE TokensMatchGrants'
        BY <1>8, TokensSlot, AdvancingAdvances, CancelAdvancesOrEnds
  <1>9. CASE DetachedCommit \/ ControllerFinalizes \/ Tick
        BY <1>9, TokensFrame DEF DetachedCommit, ControllerFinalizes, Tick
  <1>q. QED BY NextCases, <1>1, <1>2, <1>3, <1>4, <1>5, <1>6, <1>7, <1>8, <1>9

(***************************************************************************)
(* Successful evidence stands for a commit.                                *)
(***************************************************************************)
LEMMA SuccessFrame ==
  ASSUME SuccessIsCommitted,
         UNCHANGED <<gen, grants, execStatus, execGen, commits, pc, tok, outcome>>
  PROVE  SuccessIsCommitted'
  BY DEF SuccessIsCommitted

(* A slot moves without deciding for success; commits may only grow.       *)
LEMMA SuccessSlot ==
  ASSUME TInv, SuccessIsCommitted, NEW w \in Workers, SlotAdvances(w) \/ SlotEnds(w),
         UNCHANGED <<gen, grants, execStatus, execGen>>, commits \subseteq commits',
         \/ UNCHANGED outcome /\ SlotAdvances(w)
         \/ \E x \in {"NONE", "FAILED", "RAISED"} : outcome' = [outcome EXCEPT ![w] = x]
  PROVE  SuccessIsCommitted'
  BY DEF TInv, SlotInv, SlotTypes, SuccessIsCommitted, SlotAdvances, SlotEnds, Idle, Executing

LEMMA SuccessAdvancing ==
  ASSUME TInv, TokensMatchGrants, SuccessIsCommitted, NEW w \in Workers, Advancing(w)
  PROVE  SuccessIsCommitted'
  <1>0. SlotAdvances(w) /\ UNCHANGED <<gen, grants, msg, tok>>
        BY AdvancingAdvances DEF UnchangedByWork, leaseVars, SlotAdvances
  <1>1. CASE CommitTask(w)
    <2>1. CASE FenceAccepts(w)
          BY <1>0, <1>1, <2>1 DEF CommitTask, Go, Decide, SuccessIsCommitted, SlotAdvances,
             TInv, SlotInv, SlotTypes, Executing
    <2>2. CASE ~FenceAccepts(w)
          BY <1>0, <1>1, <2>2, SuccessSlot DEF CommitTask, Decide
    <2>q. QED BY <2>1, <2>2
  <1>2. CASE PersistExecution(w)
    <2>1. CASE execStatus[msg[w]] = "NONE"
      <3>1. /\ execStatus' = [execStatus EXCEPT ![msg[w]] = EvidenceStatus(outcome[w])]
            /\ execGen' = [execGen EXCEPT ![msg[w]] = tok[w]]
            /\ UNCHANGED <<outcome, commits>>
            BY <1>2, <2>1 DEF PersistExecution, Outcomes
      <3>2. tok[w] \in 1..gen /\ grants[tok[w]] = msg[w]
            BY <1>0 DEF TokensMatchGrants, SlotAdvances, Executing
      <3>3. EvidenceStatus(outcome[w]) = "SUCCEEDED" => tok[w] \in commits
            BY DEF EvidenceStatus, SuccessIsCommitted
      <3>q. QED
            BY <1>0, <3>1, <3>2, <3>3 DEF SuccessIsCommitted, SlotAdvances, Executing,
               TInv, SlotInv, SlotTypes, FactTypes
    <2>2. CASE execStatus[msg[w]] # "NONE"
          BY <1>0, <1>2, <2>2, SuccessSlot DEF PersistExecution, Decide, Leave
    <2>q. QED BY <2>1, <2>2
  <1>3. CASE ~CommitTask(w) /\ ~PersistExecution(w)
        BY <1>0, <1>3, SuccessSlot DEF Advancing, LoadRun, RecordReceived, AgentFails,
           WorkerException, RecordCompleted, FinalizeSingleTask, FenceFails, Abandon,
           Decide, Leave, factVars
  <1>q. QED BY <1>1, <1>2, <1>3

LEMMA SuccessNext ==
  TInv /\ TokensMatchGrants /\ SuccessIsCommitted /\ [Next]_vars => SuccessIsCommitted'
  <1> SUFFICES ASSUME TInv, TokensMatchGrants, SuccessIsCommitted, [Next]_vars
               PROVE  SuccessIsCommitted'
      OBVIOUS
  <1> USE DEF leaseVars, workerVars, factVars, UnchangedByWork
  <1>1. CASE UNCHANGED vars
        BY <1>1, SuccessFrame DEF vars
  <1>2. CASE DispatcherStep
        BY <1>2, SuccessFrame DEF DispatcherStep, BeginInitialAttempt, DispatcherSend,
           DispatcherMark, DispatcherCrash
  <1>3. ASSUME NEW r \in Reconcilers, ReconcilerStep(r) PROVE SuccessIsCommitted'
        BY <1>3, SuccessFrame DEF ReconcilerStep, PrepareTask, Publish, PublishAbandoned
  <1>4. ASSUME NEW w \in Workers, Redeliver(w) \/ RenewTaskLease(w) PROVE SuccessIsCommitted'
        BY <1>4, SuccessFrame DEF Redeliver, RenewTaskLease
  <1>5. ASSUME NEW w \in Workers, Deliver(w) PROVE SuccessIsCommitted'
        BY <1>5 DEF Deliver, SuccessIsCommitted, TInv, SlotInv, SlotTypes
  <1>6. ASSUME NEW w \in Workers, AcquireTaskLease(w) PROVE SuccessIsCommitted'
        BY <1>6 DEF AcquireTaskLease, SuccessIsCommitted, TInv, SlotInv, SlotTypes, LeaseTypes,
           Generations
  <1>7. ASSUME NEW w \in Workers,
               RejectDelivery(w) \/ ReleaseTaskLease(w) \/ HeartbeatFails(w) \/ Crash(w)
        PROVE  SuccessIsCommitted'
        BY <1>7, SuccessSlot DEF RejectDelivery, ReleaseTaskLease, HeartbeatFails, Crash, SlotEnds,
           Idle, Executing
  <1>8. ASSUME NEW w \in Workers, Advancing(w) PROVE SuccessIsCommitted'
        BY <1>8, SuccessAdvancing
  <1>9. ASSUME NEW w \in Workers, CancelInGuard(w) PROVE SuccessIsCommitted'
        BY <1>9, SuccessSlot, CancelAdvancesOrEnds DEF CancelInGuard, Leave, Decide, Idle
  <1>10. CASE DetachedCommit
        BY <1>10 DEF DetachedCommit, SuccessIsCommitted
  <1>11. CASE ControllerFinalizes \/ Tick
        BY <1>11, SuccessFrame DEF ControllerFinalizes, Tick
  <1>q. QED
        BY NextCases, <1>1, <1>2, <1>3, <1>4, <1>5, <1>6, <1>7, <1>8, <1>9, <1>10, <1>11

(* SUCCEEDED evidence always names a branch that its generation committed  *)
(* for that very dispatch, even when the broker redelivers.                *)
THEOREM SuccessHasCommit == Spec => []SucceededEvidenceHasCommit
  <1>1. Init => TokensMatchGrants /\ SuccessIsCommitted
        BY DEF Init, TokensMatchGrants, SuccessIsCommitted
  <1>2. SuccessIsCommitted => SucceededEvidenceHasCommit
        BY DEF SuccessIsCommitted, SucceededEvidenceHasCommit
  <1>3. Spec => []TokensMatchGrants
        BY SpecTInv, <1>1, TokensNext, PTL DEF Spec
  <1>q. QED BY SpecTInv, <1>1, <1>2, <1>3, SuccessNext, PTL DEF Spec

(***************************************************************************)
(* At most one execution, when the broker delivers no message twice.  The  *)
(* argument: a dispatch is in one place and ahead of the owner until it is *)
(* granted the lease (DispatchPlaces), so a grant always goes to the last  *)
(* attempt (LedgerFollowsLease), so evidence can only be the owner's.      *)
(***************************************************************************)
LEMMA PlacesFrame ==
  ASSUME DispatchPlaces, UNCHANGED <<gen, disp, attempts, queue, sent, pc, msg, rpc, rmsg, dpc>>
  PROVE  DispatchPlaces'
  BY DEF DispatchPlaces, SentOnce, QueuedAhead, AcquiringAhead, PreparedUnsent, BegunUnsent

LEMMA PlacesSlot ==
  ASSUME TInv, DispatchPlaces, NEW w \in Workers, SlotAdvances(w) \/ SlotEnds(w),
         UNCHANGED <<gen, disp, attempts, queue, sent, rpc, rmsg, dpc>>
  PROVE  DispatchPlaces'
  BY DEF TInv, SlotInv, SlotTypes, DispatchPlaces, SentOnce, QueuedAhead, AcquiringAhead, PreparedUnsent, BegunUnsent,
     SlotAdvances, SlotEnds, Idle, Executing

(* What sending dispatch d does to the places, when d was unsent.          *)
LEMMA PlacesSend ==
  ASSUME TInv, DispatchPlaces, NEW d \in Dispatches, sent[d] = 0, disp < d, d <= attempts,
         Send(d) \/ SendUnacknowledged(d), UNCHANGED <<disp, attempts, pc, msg>>
  PROVE  SentOnce' /\ QueuedAhead' /\ AcquiringAhead'
  <1>1. sent' = [sent EXCEPT ![d] = 1]
        BY DEF Send, SendUnacknowledged, TInv, LedgerTypes
  <1>2. queue' = queue \/ queue' = queue \cup {d}
        BY DEF Send, SendUnacknowledged
  <1>3. SentOnce'
        BY <1>1 DEF DispatchPlaces, SentOnce, TInv, LedgerTypes, Dispatches
  <1>4. QueuedAhead'
        BY <1>1, <1>2 DEF DispatchPlaces, QueuedAhead, TInv, LedgerTypes
  <1>5. AcquiringAhead'
        BY <1>1, <1>2 DEF DispatchPlaces, AcquiringAhead, TInv, LedgerTypes, SlotInv, SlotsHold
  <1>q. QED BY <1>3, <1>4, <1>5

(* What a new row of the ledger does to them.                              *)
LEMMA PlacesInsert ==
  ASSUME TInv, DispatchPlaces, InsertAttempt, UNCHANGED <<disp, queue, sent, pc, msg>>
  PROVE  /\ SentOnce' /\ QueuedAhead' /\ AcquiringAhead'
         /\ attempts + 1 \in Dispatches /\ sent[attempts + 1] = 0
  <1>1. attempts' = attempts + 1 /\ attempts \in Nat /\ attempts + 1 \in Dispatches
        BY DEF InsertAttempt, TInv, LedgerTypes, Dispatches
  <1>2. sent[attempts + 1] = 0
        BY <1>1 DEF DispatchPlaces, SentOnce
  <1>3. SentOnce'
        BY <1>1 DEF DispatchPlaces, SentOnce, Dispatches
  <1>4. QueuedAhead'
        BY <1>1 DEF DispatchPlaces, QueuedAhead, TInv, LedgerTypes, Dispatches
  <1>5. AcquiringAhead'
        BY <1>1 DEF DispatchPlaces, AcquiringAhead, TInv, SlotInv, SlotsHold, Dispatches
  <1>q. QED BY <1>1, <1>2, <1>3, <1>4, <1>5

LEMMA PlacesDispatcher ==
  ASSUME TInv, LedgerFollowsLease, DispatchPlaces, DispatcherStep
  PROVE  DispatchPlaces'
  <1> USE DEF leaseVars, ledgerVars, brokerVars, workerVars, reconVars
  <1>1. CASE BeginInitialAttempt
    <2>1. SentOnce' /\ QueuedAhead' /\ AcquiringAhead' /\ sent[1] = 0 /\ attempts' = 1
          BY <1>1, PlacesInsert DEF BeginInitialAttempt, InsertAttempt
    <2>2. \A r \in Reconcilers : rpc[r] # "prepared"
          BY <1>1 DEF BeginInitialAttempt, DispatchPlaces, PreparedUnsent, TInv, PublisherInv,
             PublishersHold, Dispatches
    <2>3. gen = 0
          BY <1>1 DEF BeginInitialAttempt, LedgerFollowsLease, TInv, LeaseTypes
    <2>4. PreparedUnsent' /\ BegunUnsent'
          BY <1>1, <2>1, <2>2, <2>3 DEF BeginInitialAttempt, PreparedUnsent, BegunUnsent
    <2>q. QED BY <2>1, <2>4 DEF DispatchPlaces
  <1>2. CASE DispatcherSend
    <2>1. /\ 1 \in Dispatches /\ sent[1] = 0 /\ disp < 1 /\ 1 <= attempts
          /\ \A r \in Reconcilers : rpc[r] # "prepared"
          BY <1>2 DEF DispatcherSend, DispatchPlaces, BegunUnsent, LedgerFollowsLease, Dispatches
    <2>2. SentOnce' /\ QueuedAhead' /\ AcquiringAhead'
          BY <1>2, <2>1, PlacesSend DEF DispatcherSend
    <2>3. PreparedUnsent' /\ BegunUnsent'
          BY <1>2, <2>1 DEF DispatcherSend, PreparedUnsent, BegunUnsent
    <2>q. QED BY <2>2, <2>3 DEF DispatchPlaces
  <1>3. CASE DispatcherMark \/ DispatcherCrash
        BY <1>3 DEF DispatcherMark, DispatcherCrash, DispatchPlaces, SentOnce, QueuedAhead,
           AcquiringAhead, PreparedUnsent, BegunUnsent
  <1>q. QED BY <1>1, <1>2, <1>3 DEF DispatcherStep

LEMMA PlacesReconciler ==
  ASSUME TInv, LedgerFollowsLease, DispatchPlaces, NEW r \in Reconcilers, ReconcilerStep(r)
  PROVE  DispatchPlaces'
  <1> USE DEF leaseVars, ledgerVars, brokerVars, workerVars, reconVars
  <1>1. CASE PrepareTask(r)
    <2>1. /\ SentOnce' /\ QueuedAhead' /\ AcquiringAhead'
          /\ attempts' = attempts + 1 /\ attempts \in Nat /\ sent[attempts + 1] = 0
          BY <1>1, PlacesInsert DEF PrepareTask, InsertAttempt, TInv, LedgerTypes
    <2>2. PreparedUnsent'
          BY <1>1, <2>1 DEF PrepareTask, DispatchPlaces, PreparedUnsent, TInv, PublisherInv,
             PublisherTypes, PublishersHold, Dispatches
    <2>3. dpc # "begun"
          BY <1>1 DEF PrepareTask, PrepareInitial, PrepareRecovery, DispatchPlaces, BegunUnsent,
             LeaseState
    <2>4. BegunUnsent'
          BY <1>1, <2>3 DEF PrepareTask, BegunUnsent
    <2>q. QED BY <2>1, <2>2, <2>4 DEF DispatchPlaces
  <1>2. CASE Publish(r)
    <2>1. /\ rmsg[r] \in Dispatches /\ sent[rmsg[r]] = 0 /\ rmsg[r] <= attempts
          /\ dpc # "begun"
          BY <1>2 DEF Publish, DispatchPlaces, PreparedUnsent, BegunUnsent, TInv, PublisherInv,
             PublishersHold
    <2>2. disp < rmsg[r]
          BY <1>2, <2>1 DEF Publish, PublicationAllowed, LedgerFollowsLease, TInv, LeaseTypes,
             Dispatches
    <2>3. SentOnce' /\ QueuedAhead' /\ AcquiringAhead'
          BY <1>2, <2>1, <2>2, PlacesSend DEF Publish
    <2>4. /\ sent' = [sent EXCEPT ![rmsg[r]] = sent[rmsg[r]] + 1]
          /\ rpc' = [rpc EXCEPT ![r] = "idle"] /\ rmsg' = [rmsg EXCEPT ![r] = 0]
          BY <1>2 DEF Publish, Send, SendUnacknowledged
    <2>5. PreparedUnsent'
          BY <1>2, <2>1, <2>4 DEF Publish, DispatchPlaces, PreparedUnsent, TInv, PublisherInv,
             PublisherTypes, PublishersHold, LedgerTypes
    <2>6. BegunUnsent'
          BY <1>2, <2>1 DEF Publish, BegunUnsent
    <2>q. QED BY <2>3, <2>5, <2>6 DEF DispatchPlaces
  <1>3. CASE PublishAbandoned(r)
        BY <1>3 DEF PublishAbandoned, DispatchPlaces, SentOnce, QueuedAhead, AcquiringAhead,
           PreparedUnsent, BegunUnsent, TInv, PublisherInv, PublisherTypes
  <1>q. QED BY <1>1, <1>2, <1>3 DEF ReconcilerStep

(* A grant goes to the last attempt of the ledger, and leaves no other     *)
(* message or slot ahead of it.                                            *)
LEMMA GrantToLastAttempt ==
  ASSUME TInv, LedgerFollowsLease, DispatchPlaces, NEW w \in Workers, AcquireTaskLease(w)
  PROVE  /\ msg[w] = attempts /\ queue = {}
         /\ \A v \in Workers : pc[v] = "acquiring" => v = w
         /\ dpc # "begun"
  <1>1. disp < msg[w] /\ msg[w] <= attempts /\ msg[w] \notin queue /\ sent[msg[w]] = 1
        BY DEF AcquireTaskLease, DispatchPlaces, AcquiringAhead
  <1>2. disp \in Nat /\ attempts \in Nat /\ msg[w] \in Nat /\ attempts <= disp + 1
        BY DEF TInv, LeaseTypes, LedgerTypes, SlotInv, SlotTypes, LedgerFollowsLease
  <1>3. msg[w] = attempts /\ attempts = disp + 1
        BY <1>1, <1>2
  <1>4. \A d \in queue : d = attempts
        BY <1>2, <1>3 DEF DispatchPlaces, QueuedAhead, TInv, LedgerTypes, Dispatches
  <1>5. queue = {}
        BY <1>1, <1>3, <1>4
  <1>6. \A v \in Workers : pc[v] = "acquiring" => v = w
        BY <1>2, <1>3 DEF DispatchPlaces, AcquiringAhead, AcquireTaskLease, TInv, SlotInv, SlotTypes
  <1>7. dpc # "begun"
        BY <1>1, <1>3 DEF DispatchPlaces, BegunUnsent
  <1>q. QED BY <1>3, <1>5, <1>6, <1>7

(* A delivered message moves from the queue to one slot.                   *)
LEMMA PlacesDeliver ==
  ASSUME TInv, DispatchPlaces, NEW w \in Workers, Deliver(w)
  PROVE  DispatchPlaces'
  <1> USE DEF leaseVars, ledgerVars, reconVars
  <1>1. PICK d \in queue : queue' = queue \ {d} /\ msg' = [msg EXCEPT ![w] = d]
        BY DEF Deliver
  <1>2. disp < d /\ d <= attempts /\ sent[d] = 1
        BY <1>1 DEF DispatchPlaces, QueuedAhead
  <1>3. \A v \in Workers : pc[v] = "acquiring" => msg[v] # d
        BY <1>1 DEF DispatchPlaces, AcquiringAhead
  <1>4. AcquiringAhead'
    <2> SUFFICES ASSUME NEW v \in Workers, pc'[v] = "acquiring"
                 PROVE  /\ disp < msg'[v] /\ msg'[v] <= attempts
                        /\ msg'[v] \notin queue' /\ sent[msg'[v]] = 1
                        /\ \A u \in Workers : pc'[u] = "acquiring" /\ msg'[u] = msg'[v] => u = v
        BY DEF AcquiringAhead, Deliver
    <2>1. CASE v = w
          BY <1>1, <1>2, <1>3, <2>1 DEF Deliver, TInv, SlotInv, SlotTypes
    <2>2. CASE v # w
          BY <1>1, <1>3, <2>2 DEF Deliver, DispatchPlaces, AcquiringAhead, TInv, SlotInv, SlotTypes
    <2>q. QED BY <2>1, <2>2
  <1>5. SentOnce' /\ QueuedAhead' /\ PreparedUnsent' /\ BegunUnsent'
        BY <1>1 DEF Deliver, DispatchPlaces, SentOnce, QueuedAhead, PreparedUnsent, BegunUnsent
  <1>q. QED BY <1>4, <1>5 DEF DispatchPlaces

LEMMA GrantAhead ==
  ASSUME TInv, DispatchPlaces, NEW w \in Workers, AcquireTaskLease(w)
  PROVE  attempts # disp
  <1>1. disp < msg[w] /\ msg[w] <= attempts
        BY DEF AcquireTaskLease, DispatchPlaces, AcquiringAhead
  <1>2. disp \in Nat /\ msg[w] \in Nat /\ attempts \in Nat
        BY DEF TInv, LeaseTypes, LedgerTypes, SlotInv, SlotTypes
  <1>q. QED BY <1>1, <1>2

LEMMA PlacesNext ==
  ASSUME ~Redelivery, TInv, LedgerFollowsLease, DispatchPlaces, [Next]_vars
  PROVE  DispatchPlaces'
  <1> USE DEF leaseVars, ledgerVars, brokerVars, workerVars, reconVars, UnchangedByWork
  <1>1. CASE UNCHANGED vars
        BY <1>1, PlacesFrame DEF vars
  <1>2. CASE DispatcherStep
        BY <1>2, PlacesDispatcher
  <1>3. ASSUME NEW r \in Reconcilers, ReconcilerStep(r) PROVE DispatchPlaces'
        BY <1>3, PlacesReconciler
  <1>4. ASSUME NEW w \in Workers, Redeliver(w) \/ RenewTaskLease(w) PROVE DispatchPlaces'
        BY <1>4, PlacesFrame DEF Redeliver, RenewTaskLease
  <1>5. ASSUME NEW w \in Workers, Deliver(w) PROVE DispatchPlaces'
        BY <1>5, PlacesDeliver
  <1>6. ASSUME NEW w \in Workers, AcquireTaskLease(w) PROVE DispatchPlaces'
    <2>1. /\ queue = {} /\ dpc # "begun"
          /\ \A v \in Workers : pc[v] = "acquiring" => v = w
          BY <1>6, GrantToLastAttempt
    <2>2. \A v \in Workers : pc'[v] # "acquiring"
          BY <1>6, <2>1 DEF AcquireTaskLease, TInv, SlotInv, SlotTypes
    <2>q. QED
          BY <1>6, <2>1, <2>2 DEF AcquireTaskLease, DispatchPlaces, SentOnce, QueuedAhead,
             AcquiringAhead, PreparedUnsent, BegunUnsent
  <1>7. ASSUME NEW w \in Workers,
               RejectDelivery(w) \/ ReleaseTaskLease(w) \/ HeartbeatFails(w) \/ Crash(w)
        PROVE  DispatchPlaces'
        BY <1>7, PlacesSlot DEF RejectDelivery, ReleaseTaskLease, HeartbeatFails, Crash, SlotEnds,
           Executing
  <1>8. ASSUME NEW w \in Workers, Advancing(w) \/ CancelInGuard(w) PROVE DispatchPlaces'
        BY <1>8, PlacesSlot, AdvancingAdvances, CancelAdvancesOrEnds
  <1>9. CASE DetachedCommit \/ ControllerFinalizes \/ Tick
        BY <1>9, PlacesFrame DEF DetachedCommit, ControllerFinalizes, Tick
  <1>q. QED BY NextCases, <1>1, <1>2, <1>3, <1>4, <1>5, <1>6, <1>7, <1>8, <1>9

(***************************************************************************)
(* The ledger follows the lease.                                           *)
(***************************************************************************)
LEMMA LedgerFrame ==
  ASSUME LedgerFollowsLease, UNCHANGED <<attempts, execStatus>>, UNCHANGED leaseVars
  PROVE  LedgerFollowsLease'
  <1>1. LeaseState' = LeaseState BY LeaseStateFrame
  <1>q. QED BY <1>1 DEF LedgerFollowsLease, Evidenced, leaseVars

(* While the ledger is ahead the lease stays EXPIRED: neither the clock,   *)
(* a heartbeat, a release nor a fenced write applies to it.                *)
LEMMA LedgerNext ==
  ASSUME TInv, TokensMatchGrants, LedgerFollowsLease, DispatchPlaces, EvidenceOfOwner, [Next]_vars
  PROVE  LedgerFollowsLease'
  <1> USE DEF ledgerVars, factVars, UnchangedByWork
  <1>1. CASE UNCHANGED vars
        BY <1>1, LedgerFrame DEF vars
  <1>2. CASE DispatcherStep
    <2>1. CASE BeginInitialAttempt
          BY <2>1 DEF BeginInitialAttempt, InsertAttempt, LedgerFollowsLease, leaseVars, LeaseTypes,
             TInv
    <2>2. CASE DispatcherSend \/ DispatcherMark \/ DispatcherCrash
          BY <2>2, LedgerFrame DEF DispatcherSend, DispatcherMark, DispatcherCrash
    <2>q. QED BY <1>2, <2>1, <2>2 DEF DispatcherStep
  <1>3. ASSUME NEW r \in Reconcilers, ReconcilerStep(r) PROVE LedgerFollowsLease'
    <2>1. CASE PrepareTask(r)
      <3>1. LeaseState' = LeaseState /\ attempts' = attempts + 1
            BY <2>1, LeaseStateFrame DEF PrepareTask, InsertAttempt
      <3>q. QED
            BY <2>1, <3>1 DEF PrepareTask, PrepareInitial, PrepareRecovery, LedgerFollowsLease,
               leaseVars, TInv, LedgerTypes, LeaseTypes, Evidenced, LeaseState
    <2>2. CASE Publish(r) \/ PublishAbandoned(r)
          BY <2>2, LedgerFrame DEF Publish, PublishAbandoned
    <2>q. QED BY <1>3, <2>1, <2>2 DEF ReconcilerStep
  <1>4. ASSUME NEW w \in Workers,
               Deliver(w) \/ Redeliver(w) \/ RejectDelivery(w) \/ HeartbeatFails(w) \/ Crash(w)
        PROVE  LedgerFollowsLease'
        BY <1>4, LedgerFrame DEF Deliver, Redeliver, RejectDelivery, HeartbeatFails, Crash
  <1>5. ASSUME NEW w \in Workers, AcquireTaskLease(w) PROVE LedgerFollowsLease'
    <2>1. msg[w] = attempts /\ msg[w] \in Dispatches
          BY <1>5, GrantToLastAttempt DEF AcquireTaskLease, TInv, SlotInv, SlotsHold
    <2>2. gen' = gen + 1 /\ disp' = attempts /\ attempts' = attempts
          BY <1>5, <2>1 DEF AcquireTaskLease
    <2>q. QED
          BY <2>1, <2>2 DEF LedgerFollowsLease, TInv, LedgerTypes, LeaseTypes, Dispatches
  <1>6. ASSUME NEW w \in Workers, RenewTaskLease(w) PROVE LedgerFollowsLease'
        BY <1>6 DEF RenewTaskLease, LiveCurrentToken, LedgerFollowsLease
  <1>7. ASSUME NEW w \in Workers, ReleaseTaskLease(w) PROVE LedgerFollowsLease'
    <2>1. CASE LiveCurrentToken(w)
          BY <1>7, <2>1 DEF ReleaseTaskLease, LiveCurrentToken, LedgerFollowsLease
    <2>2. CASE ~LiveCurrentToken(w)
          BY <1>7, <2>2, LedgerFrame DEF ReleaseTaskLease, leaseVars
    <2>q. QED BY <2>1, <2>2
  <1>8. ASSUME NEW w \in Workers, Advancing(w) \/ CancelInGuard(w) PROVE LedgerFollowsLease'
    <2>1. CASE PersistExecution(w) /\ FenceAccepts(w)
      <3>1. LeaseState = "ACTIVE" /\ LeaseState' = LeaseState
            BY <2>1, LeaseStateFrame DEF FenceAccepts, LiveCurrentToken, PersistExecution
      <3>q. QED BY <2>1, <3>1 DEF LedgerFollowsLease, PersistExecution, leaseVars
    <2>2. CASE CancelInGuard(w) \/ (Advancing(w) /\ ~PersistExecution(w))
          BY <2>2, LedgerFrame DEF Advancing, LoadRun, RecordReceived, CommitTask, AgentFails,
             WorkerException, RecordCompleted, FinalizeSingleTask, FenceFails, Abandon,
             CancelInGuard
    <2>q. QED BY <1>8, <2>1, <2>2 DEF PersistExecution
  <1>9. CASE Tick
        BY <1>9 DEF Tick, LedgerFollowsLease, LeaseState, Evidenced, TInv, LeaseTypes
  <1>10. CASE DetachedCommit \/ ControllerFinalizes
        BY <1>10, LedgerFrame DEF DetachedCommit, ControllerFinalizes
  <1>q. QED BY NextCases, <1>1, <1>2, <1>3, <1>4, <1>5, <1>6, <1>7, <1>8, <1>9, <1>10

(***************************************************************************)
(* Evidence is the owner's.                                                *)
(***************************************************************************)
LEMMA EvidenceFrame ==
  ASSUME EvidenceOfOwner, UNCHANGED <<gen, disp, received, completed, execStatus, pc, msg>>
  PROVE  EvidenceOfOwner'
  BY DEF EvidenceOfOwner, Evidenced

(* A slot that moves to anything but "completing" claims no evidence.      *)
LEMMA EvidenceSlot ==
  ASSUME TInv, EvidenceOfOwner, NEW w \in Workers,
         UNCHANGED <<gen, disp, received, completed, execStatus>>,
         \E p \in PCs \ {"completing"} : pc' = [pc EXCEPT ![w] = p],
         \A v \in Workers : v # w => msg'[v] = msg[v]
  PROVE  EvidenceOfOwner'
  BY DEF EvidenceOfOwner, Evidenced, TInv, SlotInv, SlotTypes

(* The fence lets through only the slot that owns the lease.               *)
LEMMA FenceIsOwner ==
  ASSUME TInv, TokensMatchGrants, NEW w \in Workers, pc[w] \in Executing, FenceAccepts(w)
  PROVE  gen # 0 /\ msg[w] = disp /\ msg[w] \in Dispatches
  BY DEF TokensMatchGrants, FenceAccepts, LiveCurrentToken, TInv, SlotInv, SlotsHold, Executing,
     LeaseState

LEMMA EvidenceAdvancing ==
  ASSUME TInv, TokensMatchGrants, EvidenceOfOwner, NEW w \in Workers, Advancing(w)
  PROVE  EvidenceOfOwner'
  <1> USE DEF UnchangedByWork, leaseVars, Go, Leave, Executing
  <1>1. CASE RecordReceived(w)
    <2>1. gen # 0 BY <1>1, FenceIsOwner DEF RecordReceived
    <2>q. QED BY <1>1, <2>1 DEF RecordReceived, EvidenceOfOwner, Evidenced, TInv, SlotInv, SlotTypes
  <1>2. CASE PersistExecution(w)
    <2>1. gen # 0 /\ msg[w] = disp /\ msg[w] \in Dispatches
          BY <1>2, FenceIsOwner DEF PersistExecution
    <2>2. EvidenceStatus(outcome[w]) # "NONE"
          BY <1>2 DEF PersistExecution, EvidenceStatus, TInv, SlotInv, SlotsHold
    <2>3. CASE execStatus[msg[w]] = "NONE"
      <3>1. /\ execStatus' = [execStatus EXCEPT ![msg[w]] = EvidenceStatus(outcome[w])]
            /\ pc' = [pc EXCEPT ![w] = "completing"]
            /\ UNCHANGED <<msg, gen, disp, received, completed>>
            BY <1>2, <2>3 DEF PersistExecution
      <3>q. QED
            BY <2>1, <2>2, <3>1 DEF EvidenceOfOwner, Evidenced, TInv, SlotInv, SlotTypes, FactTypes
    <2>4. CASE execStatus[msg[w]] # "NONE"
      <3>1. /\ \E p \in {"completing", "releasing"} : pc' = [pc EXCEPT ![w] = p]
            /\ UNCHANGED <<msg, gen, disp, received, completed, execStatus>>
            BY <1>2, <2>4 DEF PersistExecution
      <3>q. QED
            BY <2>1, <2>4, <3>1 DEF EvidenceOfOwner, Evidenced, TInv, SlotInv, SlotTypes
    <2>q. QED BY <2>3, <2>4
  <1>3. CASE RecordCompleted(w)
    <2>1. gen # 0 BY <1>3, FenceIsOwner DEF RecordCompleted
    <2>2. Evidenced(msg[w]) BY <1>3 DEF RecordCompleted, EvidenceOfOwner
    <2>q. QED BY <1>3, <2>1, <2>2 DEF RecordCompleted, EvidenceOfOwner, Evidenced, TInv, SlotInv,
             SlotTypes
  <1>4. CASE ~RecordReceived(w) /\ ~PersistExecution(w) /\ ~RecordCompleted(w)
        BY <1>4, EvidenceSlot DEF Advancing, LoadRun, CommitTask, AgentFails, WorkerException,
           FinalizeSingleTask, FenceFails, Abandon, factVars, PCs
  <1>q. QED BY <1>1, <1>2, <1>3, <1>4

LEMMA EvidenceNext ==
  ASSUME TInv, TokensMatchGrants, LedgerFollowsLease, DispatchPlaces, EvidenceOfOwner, [Next]_vars
  PROVE  EvidenceOfOwner'
  <1> USE DEF leaseVars, workerVars, factVars, UnchangedByWork
  <1>1. CASE UNCHANGED vars
        BY <1>1, EvidenceFrame DEF vars
  <1>2. CASE DispatcherStep
        BY <1>2, EvidenceFrame DEF DispatcherStep, BeginInitialAttempt, DispatcherSend,
           DispatcherMark, DispatcherCrash
  <1>3. ASSUME NEW r \in Reconcilers, ReconcilerStep(r) PROVE EvidenceOfOwner'
        BY <1>3, EvidenceFrame DEF ReconcilerStep, PrepareTask, Publish, PublishAbandoned
  <1>4. ASSUME NEW w \in Workers, Redeliver(w) \/ RenewTaskLease(w) PROVE EvidenceOfOwner'
        BY <1>4, EvidenceFrame DEF Redeliver, RenewTaskLease
  <1>5. ASSUME NEW w \in Workers, Deliver(w) PROVE EvidenceOfOwner'
        BY <1>5, EvidenceSlot DEF Deliver, PCs, TInv, SlotInv, SlotTypes
  <1>6. ASSUME NEW w \in Workers, AcquireTaskLease(w) PROVE EvidenceOfOwner'
    <2>1. \A d \in Dispatches : ~Evidenced(d)
      <3>1. attempts # disp
            BY <1>6, GrantAhead
      <3>q. QED BY <3>1 DEF EvidenceOfOwner, LedgerFollowsLease
    <2>2. completed = {}
          BY <2>1 DEF EvidenceOfOwner, TInv, FactTypes
    <2>q. QED
          BY <1>6, <2>1, <2>2 DEF AcquireTaskLease, EvidenceOfOwner, Evidenced, TInv, LeaseTypes,
             SlotInv, SlotTypes
  <1>7. ASSUME NEW w \in Workers,
               RejectDelivery(w) \/ ReleaseTaskLease(w) \/ HeartbeatFails(w) \/ Crash(w)
        PROVE  EvidenceOfOwner'
        BY <1>7, EvidenceSlot DEF RejectDelivery, ReleaseTaskLease, HeartbeatFails, Crash, Idle, PCs,
           TInv, SlotInv, SlotTypes
  <1>8. ASSUME NEW w \in Workers, Advancing(w) PROVE EvidenceOfOwner'
        BY <1>8, EvidenceAdvancing
  <1>9. ASSUME NEW w \in Workers, CancelInGuard(w) PROVE EvidenceOfOwner'
        BY <1>9, EvidenceSlot DEF CancelInGuard, Leave, Go, Idle, PCs, TInv, SlotInv, SlotTypes
  <1>10. CASE DetachedCommit \/ ControllerFinalizes \/ Tick
        BY <1>10, EvidenceFrame DEF DetachedCommit, ControllerFinalizes, Tick
  <1>q. QED
        BY NextCases, <1>1, <1>2, <1>3, <1>4, <1>5, <1>6, <1>7, <1>8, <1>9, <1>10

(***************************************************************************)
(* The theorems that follow from OnceOnly.                                 *)
(***************************************************************************)
LEMMA InitOnceOnly == Init => OnceOnly
  BY DEF Init, OnceOnly, TokensMatchGrants, DispatchPlaces, SentOnce, QueuedAhead, AcquiringAhead,
     PreparedUnsent, BegunUnsent, LedgerFollowsLease, EvidenceOfOwner, Evidenced, Dispatches

LEMMA NextOnceOnly ==
  ASSUME ~Redelivery PROVE TInv /\ OnceOnly /\ [Next]_vars => OnceOnly'
  BY TokensNext, PlacesNext, LedgerNext, EvidenceNext DEF OnceOnly

LEMMA SpecOnceOnly == ASSUME ~Redelivery PROVE Spec => []OnceOnly
  BY InitOnceOnly, NextOnceOnly, SpecTInv, PTL DEF Spec

(* Without redelivery a task has at most one WORKER_EXECUTION row, owned   *)
(* by the current dispatch.                                                *)
THEOREM ExecutedOnce == ASSUME ~Redelivery PROVE Spec => []AtMostOneTerminalExecution
  <1>1. OnceOnly => AtMostOneTerminalExecution
        BY DEF OnceOnly, EvidenceOfOwner, AtMostOneTerminalExecution
  <1>q. QED BY SpecOnceOnly, <1>1, PTL

(* Without redelivery the reconciler never meets a state that it would     *)
(* report as corruption.                                                   *)
THEOREM NeverCorrupt == ASSUME ~Redelivery PROVE Spec => []NoSpuriousCorruption
  <1>1. TInv /\ OnceOnly => NoSpuriousCorruption
        BY DEF OnceOnly, EvidenceOfOwner, LedgerFollowsLease, NoSpuriousCorruption, LeaseState,
           TInv, LeaseTypes, LedgerTypes
  <1>q. QED BY SpecOnceOnly, SpecTInv, <1>1, PTL

(* Without redelivery actor.send is called at most once for a dispatch.    *)
THEOREM SentAtMostOnce == ASSUME ~Redelivery PROVE Spec => []PublishedOnce
  <1>1. OnceOnly => PublishedOnce
        BY DEF OnceOnly, DispatchPlaces, SentOnce, PublishedOnce
  <1>q. QED BY SpecOnceOnly, <1>1, PTL

LEMMA NoRerunStep ==
  ASSUME TInv, OnceOnly, [Next]_vars, NEW d \in Dispatches, Evidenced(d)
  PROVE  attempts' = attempts /\ gen' = gen
  <1>1. gen # 0 /\ Evidenced(disp) /\ attempts = disp /\ disp # 0
        BY DEF OnceOnly, EvidenceOfOwner, LedgerFollowsLease, TInv, LeaseTypes, LedgerTypes
  <1> USE DEF leaseVars, ledgerVars, UnchangedByWork
  <1>2. CASE UNCHANGED vars
        BY <1>2 DEF vars
  <1>3. CASE DispatcherStep
        BY <1>1, <1>3 DEF DispatcherStep, BeginInitialAttempt, DispatcherSend, DispatcherMark,
           DispatcherCrash
  <1>4. ASSUME NEW r \in Reconcilers, ReconcilerStep(r) PROVE attempts' = attempts /\ gen' = gen
        BY <1>1, <1>4 DEF ReconcilerStep, PrepareTask, PrepareInitial, PrepareRecovery, Evidenced,
           Publish, PublishAbandoned
  <1>5. ASSUME NEW w \in Workers, AcquireTaskLease(w) PROVE attempts' = attempts /\ gen' = gen
        BY <1>1, <1>5, GrantAhead DEF OnceOnly
  <1>6. ASSUME NEW w \in Workers,
               \/ Deliver(w) \/ Redeliver(w) \/ RejectDelivery(w) \/ RenewTaskLease(w)
               \/ ReleaseTaskLease(w) \/ HeartbeatFails(w) \/ Crash(w)
        PROVE  attempts' = attempts /\ gen' = gen
        BY <1>6 DEF Deliver, Redeliver, RejectDelivery, RenewTaskLease, ReleaseTaskLease,
           HeartbeatFails, Crash
  <1>7. ASSUME NEW w \in Workers, Advancing(w) \/ CancelInGuard(w)
        PROVE  attempts' = attempts /\ gen' = gen
        BY <1>7, AdvancingAdvances, CancelAdvancesOrEnds
  <1>8. CASE DetachedCommit \/ ControllerFinalizes \/ Tick
        BY <1>8 DEF DetachedCommit, ControllerFinalizes, Tick
  <1>q. QED BY NextCases, <1>2, <1>3, <1>4, <1>5, <1>6, <1>7, <1>8

(* Without redelivery a task with terminal evidence is never dispatched or *)
(* granted again.                                                          *)
THEOREM NeverRerun == ASSUME ~Redelivery PROVE Spec => TerminalEvidenceNotRerun
  <1>1. TInv /\ OnceOnly /\ [Next]_vars =>
          [(\E d \in Dispatches : Evidenced(d)) => attempts' = attempts /\ gen' = gen]_vars
        BY NoRerunStep
  <1>q. QED BY SpecTInv, SpecOnceOnly, <1>1, PTL DEF Spec, TerminalEvidenceNotRerun
=============================================================================
