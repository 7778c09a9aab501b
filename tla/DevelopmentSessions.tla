------------------------ MODULE DevelopmentSessions ------------------------
(***************************************************************************)
(* Development sessions and the Runs they are linked to.  A session keeps  *)
(* an accepted plan and the state of its work packages; Runs are launched, *)
(* continued, resumed from a checkpoint, retried, or recovered as new, by  *)
(* API calls that are several transactions each and may run side by side   *)
(* or die in between.                                                      *)
(*                                                                         *)
(* A commit is the Run and task that made it together with the work        *)
(* packages whose results it contains.  How a task is executed is the      *)
(* subject of TaskExecution and RunIntegration: here it ends in one step.  *)
(***************************************************************************)
EXTENDS Integers, Sequences, FiniteSets

CONSTANTS Clients,       \* API calls that can be in flight at once
          Tasks,         \* work packages of the plan
          Deps,          \* [Tasks -> SUBSET Tasks]: the accepted TaskDAG
          MaxRuns,       \* bound: Runs ever created
          MaxSessions,   \* bound: development sessions ever created
          MaxHead,       \* bound: new baselines of the managed repository
          MaxLaunches,   \* bound: requirements submitted (or planned anew)
          MaxUpsets      \* bound: dead calls, silent Runs, new baselines

\* A plan has finitely many work packages, and at least one.
ASSUME TasksAssumption == Tasks # {} /\ IsFiniteSet(Tasks)
ASSUME DepsAssumption == Deps \in [Tasks -> SUBSET Tasks]
ASSUME BoundsAssumption == MaxRuns \in Nat /\ MaxSessions \in Nat /\ MaxHead \in Nat
                           /\ MaxLaunches \in Nat /\ MaxUpsets \in Nat

VARIABLES head,      \* baseline of the managed repository
          sess,      \* rows of development_sessions with their work packages
          runs,      \* rows of runs with their terminal worker evidence
          calls,     \* [Clients -> the API call the client has in flight]
          launches,  \* requirements submitted so far
          upsets     \* how many of the bounded disturbances have happened

vars == <<head, sess, runs, calls, launches, upsets>>

SessionIds == DOMAIN sess
RunIds == DOMAIN runs

-----------------------------------------------------------------------------
(* Data. *)

Baseline(h) == [run |-> 0, task |-> h, work |-> {}]
NoCommit == Baseline(-1)

NoEvidence == [status |-> "NONE", onBase |-> TRUE, commit |-> NoCommit]

PackageStates == {"PENDING", "SUCCEEDED", "CHECKPOINTED", "FAILED"}

SessionStates == {"PLANNING", "PAUSED_PLANNING", "PLANNING_FAILED", "READY_TO_RUN",
                  "RUNNING", "COMPLETED"}

NewSession(base) ==
  [state |-> "PLANNING", planned |-> FALSE, dag |-> {}, latest |-> 0, base |-> base,
   package |-> [t \in Tasks |-> [state |-> "PENDING", run |-> 0, commit |-> NoCommit]]]

NewRun(how, dag, base) ==
  [how |-> how, session |-> 0, from |-> 0, recovery |-> 0, dag |-> dag, base |-> base,
   status |-> "RUNNING", sent |-> FALSE, stale |-> FALSE, evidence |-> [t \in Tasks |-> NoEvidence]]

Idle == [op |-> "none", at |-> "idle", session |-> 0, source |-> 0, new |-> 0,
         dag |-> {}, base |-> NoCommit]

Succeeded(r) == {t \in Tasks : runs[r].evidence[t].status = "SUCCEEDED"}
Checkpointed(r) == {t \in Tasks : runs[r].evidence[t].status = "CHECKPOINTED"}

\* completed: the packages a continuation may leave out
Completed(s) == {t \in sess[s].dag : sess[s].package[t].state = "SUCCEEDED"}
CompletedCommits(s) == {sess[s].package[t].commit : t \in Completed(s)}

\* _remaining_session_dag; dependencies on what is left out are dropped with it.
Remaining(dag, completed) == dag \ completed

\* capture_run_progress projects a Run's worker evidence into the packages
\* the session has; whatever they said before is overwritten.
\* Fault: a checkpoint is taken for a finished package.
CaptureOptimistic(s, r) ==
  [t \in Tasks |->
     LET e == runs[r].evidence[t] IN
     IF t \in sess[s].dag /\ e.status # "NONE"
     THEN [state |-> IF e.status = "FAILED" THEN "FAILED" ELSE "SUCCEEDED", run |-> r,
           commit |-> e.commit]
     ELSE sess[s].package[t]]

CaptureRunProgress(s, r) ==
  [t \in Tasks |->
     LET e == runs[r].evidence[t] IN
     IF t \in sess[s].dag /\ e.status # "NONE"
     THEN [state |-> e.status, run |-> r, commit |-> e.commit]
     ELSE sess[s].package[t]]

Upset == upsets < MaxUpsets /\ upsets' = upsets + 1

\* Room for one more Run next to those that calls in flight are about to create.
Room == Len(runs) + Cardinality({c \in Clients : calls[c].at # "idle" /\ calls[c].new = 0})
          < MaxRuns

Return(c) == calls' = [calls EXCEPT ![c] = Idle]
GoTo(c, at) == calls' = [calls EXCEPT ![c].at = at]

-----------------------------------------------------------------------------
Init ==
  /\ head = 0
  /\ sess = <<>>
  /\ runs = <<>>
  /\ calls = [c \in Clients |-> Idle]
  /\ launches = 0
  /\ upsets = 0

-----------------------------------------------------------------------------
(* create_requirement_run; replan_development_session is the same request  *)
(* made again from the stored requirement.                                 *)

\* Admission.  A requirement that a repository workflow matches has its DAG
\* at once and gets no session; any other one is given to the planner.
LaunchBegin(c) ==
  /\ calls[c].at = "idle"
  /\ launches < MaxLaunches /\ Room
  /\ launches' = launches + 1
  /\ \/ /\ calls' = [calls EXCEPT ![c] = [Idle EXCEPT !.op = "launch", !.at = "check",
                                           !.dag = Tasks, !.base = Baseline(head)]]
        /\ UNCHANGED sess
     \/ /\ Len(sess) < MaxSessions
        /\ sess' = Append(sess, NewSession(Baseline(head)))
        /\ calls' = [calls EXCEPT ![c] = [Idle EXCEPT !.op = "launch", !.at = "plan",
                                           !.session = Len(sess) + 1, !.dag = Tasks,
                                           !.base = Baseline(head)]]
  /\ UNCHANGED <<head, runs, upsets>>

MarkPlanningProblem(s, reusable) ==
  sess' = [sess EXCEPT ![s].state = IF reusable THEN "PAUSED_PLANNING" ELSE "PLANNING_FAILED"]

Plan(c) ==
  /\ calls[c].at = "plan"
  /\ \/ GoTo(c, "check") /\ UNCHANGED sess
     \/ MarkPlanningProblem(calls[c].session, FALSE) /\ Return(c)
  /\ UNCHANGED <<head, runs, launches, upsets>>

\* Capability preflight, then the budget validation.  A preflight that fails
\* raises without touching the session; a plan that the budget cannot fund
\* is planned once more, which needs a planner and so a session.
CheckPlan(c) ==
  /\ calls[c].at = "check"
  /\ \/ GoTo(c, "record") /\ UNCHANGED sess
     \/ Return(c) /\ UNCHANGED sess
     \/ /\ calls[c].session # 0
        /\ MarkPlanningProblem(calls[c].session, TRUE)
        /\ GoTo(c, "replan")
  /\ UNCHANGED <<head, runs, launches, upsets>>

\* The compact second plan; its own preflight and validation may raise too.
ReplanForBudget(c) ==
  /\ calls[c].at = "replan"
  /\ \/ GoTo(c, "record") /\ UNCHANGED sess
     \/ MarkPlanningProblem(calls[c].session, TRUE) /\ Return(c)
     \/ Return(c) /\ UNCHANGED sess
  /\ UNCHANGED <<head, runs, launches, upsets>>

\* Fault: the plan is accepted without its packages.
StorePlanOnly(s, dag) == [sess EXCEPT ![s].state = "READY_TO_RUN", ![s].planned = TRUE]

StorePlan(s, dag) == [sess EXCEPT ![s].state = "READY_TO_RUN", ![s].planned = TRUE,
                                  ![s].dag = dag]

RecordPlan(c) ==
  LET s == calls[c].session IN
  /\ calls[c].at = "record"
  /\ \/ /\ s # 0
        /\ sess' = StorePlan(s, calls[c].dag)
        /\ GoTo(c, "start")
     \/ /\ s = 0
        /\ GoTo(c, "start") /\ UNCHANGED sess
     \/ /\ s # 0 /\ calls[c].op = "launch"
        /\ MarkPlanningProblem(s, FALSE) /\ Return(c)
  /\ UNCHANGED <<head, runs, launches, upsets>>

-----------------------------------------------------------------------------
(* The steps that every way of creating a Run shares. *)

StartRun(c) ==
  LET call == calls[c] IN
  /\ call.at = "start"
  /\ Len(runs) < MaxRuns
  /\ runs' = Append(runs, NewRun(call.op, call.dag, call.base))
  /\ calls' = [calls EXCEPT ![c].new = Len(runs) + 1,
                            ![c].at = CASE call.op = "resume" -> "capture"
                                        [] call.op = "retry" -> "dispatch"
                                        [] OTHER -> "attach"]
  /\ UNCHANGED <<head, sess, launches, upsets>>

Capture(c) ==
  LET call == calls[c] IN
  /\ call.at = "capture"
  /\ sess' = IF call.session = 0 THEN sess
             ELSE [sess EXCEPT ![call.session].package =
                                 CaptureRunProgress(call.session, call.source)]
  /\ GoTo(c, CASE call.op = "continue" -> "choose"
               [] call.op = "resume" -> "attach"
               [] call.op = "recover" -> "start")
  /\ UNCHANGED <<head, runs, launches, upsets>>

\* Without a session only the source of a resumed Run is recorded.
AttachRun(c) ==
  LET call == calls[c] IN
  /\ call.at = "attach"
  /\ sess' = IF call.session = 0 THEN sess
             ELSE [sess EXCEPT ![call.session].state = "RUNNING",
                               ![call.session].latest = call.new]
  /\ runs' = [runs EXCEPT ![call.new].session = call.session, ![call.new].from = call.source]
  /\ GoTo(c, IF call.op = "recover" THEN "link" ELSE "dispatch")
  /\ UNCHANGED <<head, launches, upsets>>

\* link_recovery refuses a source that already has another recovery Run.
LinkRecovery(c) ==
  LET call == calls[c] IN
  /\ call.at = "link"
  /\ \/ /\ runs[call.source].recovery = 0
        /\ runs' = [runs EXCEPT ![call.source].recovery = call.new]
        /\ GoTo(c, "dispatch")
     \/ /\ runs[call.source].recovery # 0
        /\ Return(c) /\ UNCHANGED runs
  /\ UNCHANGED <<head, sess, launches, upsets>>

\* The initial READY tasks are queued, or the broker is unavailable.
DispatchInitial(c) ==
  /\ calls[c].at = "dispatch"
  /\ \/ runs' = [runs EXCEPT ![calls[c].new].sent = TRUE]
     \/ UNCHANGED runs
  /\ Return(c)
  /\ UNCHANGED <<head, sess, launches, upsets>>

\* The process of the call dies.
CallEnds(c) ==
  /\ calls[c].at # "idle"
  /\ Return(c)
  /\ Upset
  /\ UNCHANGED <<head, sess, runs, launches>>

-----------------------------------------------------------------------------
(* continue_development_session, under the advisory lock of the session *)

ContinuationLocked(s) == \E c \in Clients : calls[c].op = "continue" /\ calls[c].session = s

\* Fault: the advisory lock is not taken.
ContinueUnlocked(c, s) ==
  /\ calls[c].at = "idle"
  /\ sess[s].planned
  /\ sess[s].state \in {"PAUSED_PLANNING", "READY_TO_RUN", "RUNNING"}
  /\ sess[s].latest # 0 => runs[sess[s].latest].status # "RUNNING"
  /\ calls' = [calls EXCEPT ![c] = [Idle EXCEPT !.op = "continue", !.session = s,
                                     !.source = sess[s].latest,
                                     !.at = IF sess[s].latest = 0 THEN "choose" ELSE "capture"]]
  /\ UNCHANGED <<head, sess, runs, launches, upsets>>

\* While the latest Run is RUNNING the call returns that Run and changes nothing.
ContinueBegin(c, s) ==
  /\ calls[c].at = "idle"
  /\ ~ContinuationLocked(s)
  /\ sess[s].planned
  /\ sess[s].state \in {"PAUSED_PLANNING", "READY_TO_RUN", "RUNNING"}
  /\ sess[s].latest # 0 => runs[sess[s].latest].status # "RUNNING"
  /\ calls' = [calls EXCEPT ![c] = [Idle EXCEPT !.op = "continue", !.session = s,
                                     !.source = sess[s].latest,
                                     !.at = IF sess[s].latest = 0 THEN "choose" ELSE "capture"]]
  /\ UNCHANGED <<head, sess, runs, launches, upsets>>

\* Fault: finished packages of several commits are skipped all the same.
CommitsCompatibleAlways(s) == TRUE

CommitsCompatible(s) == Cardinality(CompletedCommits(s)) <= 1

ContinuationBase(s) == IF CompletedCommits(s) = {} THEN sess[s].base
                       ELSE CHOOSE k \in CompletedCommits(s) : TRUE

\* The session is read again after the capture.  oldBase: the user accepted
\* to go on from the old baseline.  A refusal leaves everything as it is.
ContinueChoose(c, oldBase) ==
  LET s == calls[c].session
      remaining == Remaining(sess[s].dag, Completed(s)) IN
  /\ calls[c].at = "choose"
  /\ \/ /\ remaining = {}
        /\ sess' = [sess EXCEPT ![s].state = "COMPLETED"]
        /\ Return(c)
     \/ /\ remaining # {} /\ CommitsCompatible(s) /\ Len(runs) < MaxRuns
        /\ oldBase \/ sess[s].base = Baseline(head)
        /\ calls' = [calls EXCEPT ![c].at = "start", ![c].source = sess[s].latest,
                                  ![c].dag = remaining, ![c].base = ContinuationBase(s)]
        /\ UNCHANGED sess
  /\ UNCHANGED <<head, runs, launches, upsets>>

-----------------------------------------------------------------------------
(* resume_run and retry_run: no lock is taken. *)

\* The sole checkpoint of a FAILED Run becomes the base of a Run of what is
\* left; a checkpoint that was not made on the Run's base raises instead.
ResumeBegin(c, r) ==
  /\ calls[c].at = "idle" /\ Room
  /\ runs[r].status = "FAILED"
  /\ \E t \in Checkpointed(r) :
       /\ Checkpointed(r) = {t}
       /\ runs[r].evidence[t].onBase
       /\ calls' = [calls EXCEPT ![c] = [Idle EXCEPT !.op = "resume", !.at = "start",
                      !.session = runs[r].session, !.source = r,
                      !.dag = Remaining(runs[r].dag, Succeeded(r)), !.base = runs[r].evidence[t].commit]]
  /\ UNCHANGED <<head, sess, runs, launches, upsets>>

\* The whole DAG of a FAILED Run on the current baseline, linked to nothing.
RetryBegin(c, r) ==
  /\ calls[c].at = "idle" /\ Room
  /\ runs[r].status = "FAILED"
  /\ calls' = [calls EXCEPT ![c] = [Idle EXCEPT !.op = "retry", !.at = "start", !.source = r,
                                     !.dag = runs[r].dag, !.base = Baseline(head)]]
  /\ UNCHANGED <<head, sess, runs, launches, upsets>>

-----------------------------------------------------------------------------
(* recover_interrupted_run, under the advisory lock of the Run *)

RecoveryLocked(r) == \E c \in Clients : calls[c].op = "recover" /\ calls[c].source = r

\* A Run that has its recovery is returned as it is.  The base is the current
\* baseline; a Run without a session gets one that holds the remaining plan.
RecoverBegin(c, r) ==
  /\ calls[c].at = "idle" /\ Room
  /\ ~RecoveryLocked(r)
  /\ runs[r].recovery = 0
  /\ runs[r].status = "RUNNING" /\ runs[r].stale
  /\ Remaining(runs[r].dag, Succeeded(r)) # {}
  /\ LET call == [Idle EXCEPT !.op = "recover", !.source = r, !.base = Baseline(head),
                              !.dag = Remaining(runs[r].dag, Succeeded(r))] IN
     IF runs[r].session # 0
     THEN /\ calls' = [calls EXCEPT ![c] = [call EXCEPT !.at = "capture",
                                                         !.session = runs[r].session]]
          /\ UNCHANGED sess
     ELSE /\ Len(sess) < MaxSessions
          /\ sess' = Append(sess, NewSession(runs[r].base))
          /\ calls' = [calls EXCEPT ![c] = [call EXCEPT !.at = "record",
                                                         !.session = Len(sess) + 1]]
  /\ UNCHANGED <<head, runs, launches, upsets>>

-----------------------------------------------------------------------------
(* What workers, controllers and time do to a Run. *)

\* A Run ends once each of its tasks is terminal or behind a failed one.
StatusAfter(dag, evidence) ==
  LET succeeded == {t \in dag : evidence[t].status = "SUCCEEDED"}
      waiting == {t \in dag : evidence[t].status = "NONE" /\ Deps[t] \cap dag \subseteq succeeded}
  IN IF waiting # {} THEN "RUNNING" ELSE IF succeeded = dag THEN "SUCCEEDED" ELSE "FAILED"

\* A dispatched task ends, and the controller finalizes the Run when it can.
\* The task's base is the Run's, or the integration head once it depends on
\* a task of the same Run.
EndTask(r, t, status) ==
  LET deps == Deps[t] \cap runs[r].dag IN
  /\ runs[r].status = "RUNNING" /\ runs[r].sent
  /\ t \in runs[r].dag /\ runs[r].evidence[t] = NoEvidence
  /\ deps \subseteq Succeeded(r)
  /\ \E merged \in SUBSET Succeeded(r) :
       /\ deps \subseteq merged /\ (deps = {} => merged = {})
       /\ LET work == runs[r].base.work \cup merged
                        \cup (IF status = "SUCCEEDED" THEN {t} ELSE {})
              commit == IF status = "FAILED" THEN NoCommit
                        ELSE [run |-> r, task |-> t, work |-> work]
              evidence == [runs[r].evidence EXCEPT
                             ![t] = [status |-> status, onBase |-> deps = {}, commit |-> commit]]
          IN runs' = [runs EXCEPT ![r].stale = FALSE, ![r].evidence = evidence,
                                  ![r].status = StatusAfter(runs[r].dag, evidence)]
  /\ UNCHANGED <<head, sess, calls, launches, upsets>>

\* The thresholds of inspect pass without progress and without a lease: the
\* Run is RECOVERY_REQUIRED, although its workers may still come back.
GrowStale(r) ==
  /\ runs[r].status = "RUNNING" /\ ~runs[r].stale
  /\ runs' = [runs EXCEPT ![r].stale = TRUE]
  /\ Upset
  /\ UNCHANGED <<head, sess, calls, launches>>

HeadMoves ==
  /\ head < MaxHead
  /\ head' = head + 1
  /\ Upset
  /\ UNCHANGED <<sess, runs, calls, launches>>

-----------------------------------------------------------------------------
CallStep(c) ==
  \/ Plan(c) \/ CheckPlan(c) \/ ReplanForBudget(c) \/ RecordPlan(c) \/ StartRun(c)
  \/ Capture(c) \/ AttachRun(c) \/ LinkRecovery(c) \/ DispatchInitial(c)
  \/ \E oldBase \in BOOLEAN : ContinueChoose(c, oldBase)
  \/ CallEnds(c)

Request(c) ==
  \/ LaunchBegin(c)
  \/ \E s \in SessionIds : ContinueBegin(c, s)
  \/ \E r \in RunIds : ResumeBegin(c, r) \/ RetryBegin(c, r) \/ RecoverBegin(c, r)

RunStep(r) ==
  \/ \E t \in Tasks, status \in {"SUCCEEDED", "CHECKPOINTED", "FAILED"} : EndTask(r, t, status)
  \/ GrowStale(r)

Next ==
  \/ \E c \in Clients : Request(c) \/ CallStep(c)
  \/ \E r \in RunIds : RunStep(r)
  \/ HeadMoves

Spec == Init /\ [][Next]_vars

-----------------------------------------------------------------------------
(* Properties *)

Commits == [run : 0..MaxRuns, task : Tasks \cup -1..MaxHead, work : SUBSET Tasks]

\* Types; a session has a plan as soon as it has packages, and links between
\* sessions and Runs lead to rows that exist.
TypeOK ==
  /\ head \in 0..MaxHead
  /\ launches \in 0..MaxLaunches /\ upsets \in 0..MaxUpsets
  /\ Len(sess) <= MaxSessions /\ Len(runs) <= MaxRuns
  /\ \A s \in SessionIds :
       /\ sess[s].state \in SessionStates
       /\ sess[s].dag \subseteq Tasks /\ sess[s].planned = (sess[s].dag # {})
       /\ sess[s].latest \in 0..Len(runs)
       /\ \A t \in Tasks : sess[s].package[t].state \in PackageStates
  /\ \A r \in RunIds :
       /\ runs[r].dag \in (SUBSET Tasks) \ {{}}
       /\ runs[r].session \in 0..Len(sess) /\ runs[r].from \in 0..Len(runs)
       /\ runs[r].status \in {"RUNNING", "SUCCEEDED", "FAILED"}
       /\ \A t \in Tasks \ runs[r].dag : runs[r].evidence[t] = NoEvidence

\* Two requests to continue a session, or to recover a Run, never put two
\* Runs to work from the same source: the advisory locks, the check of the
\* latest Run and link_recovery see to it, whichever process dies in between.
OneSuccessor ==
  \A r, q \in RunIds :
    /\ runs[r].how \in {"continue", "recover"} /\ runs[q].how = runs[r].how
    /\ runs[r].sent /\ runs[q].sent
    /\ runs[r].session = runs[q].session /\ runs[r].from = runs[q].from
    => r = q

\* The work packages that a Run leaves out of its session's plan.
Dropped(r) == IF runs[r].session = 0 THEN {} ELSE sess[runs[r].session].dag \ runs[r].dag

\* A continued Run contains the results of every package it leaves out.
ContinuedBaseHolds ==
  \A r \in RunIds : runs[r].how = "continue" => Dropped(r) \subseteq runs[r].base.work

\* A session says COMPLETED, and a package SUCCEEDED, only with accepted
\* worker evidence behind it.
CompletedIsEvidenced ==
  \A s \in SessionIds :
    /\ \A t \in Tasks : sess[s].package[t].state = "SUCCEEDED" =>
         LET p == sess[s].package[t] IN
         /\ runs[p.run].evidence[t].status = "SUCCEEDED"
         /\ t \in p.commit.work
    /\ sess[s].state = "COMPLETED" =>
         \A t \in sess[s].dag :
           \E r \in RunIds : runs[r].session = s /\ t \in Succeeded(r)

\* A session claims no progress that its Runs' evidence does not carry, in
\* whatever order captures, continuations and recoveries store it.
SessionsSound == TypeOK /\ CompletedIsEvidenced

=============================================================================
