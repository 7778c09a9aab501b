---------------------------- MODULE Publication ----------------------------
(***************************************************************************)
(* Publication of one SUCCEEDED Run as a GitHub branch and Draft pull      *)
(* request.  The source commit is resolved from the Run's evidence, which  *)
(* no longer changes; an audit row in PostgreSQL holds the claim of the    *)
(* attempt that is under way; the gateway talks to GitHub in several calls *)
(* that can fail, or time out after they took effect.  Requests run side   *)
(* by side, processes die, claims expire under a slow gateway, and people  *)
(* use the same repository.                                                *)
(***************************************************************************)
EXTENDS Integers, Sequences, FiniteSets, SequencesExt, FiniteSetsExt

CONSTANTS Callers,      \* requests to publish that can be in flight at once
          Tasks,        \* the Run has one of these tasks, or several
          MaxAttempts,  \* bound: attempts of the audit row
          MaxFaults,    \* bound: failing calls, deaths, claims that expire early
          MaxHuman      \* bound: what people do in the GitHub repository

ASSUME TasksAssumption == IsFiniteSet(Tasks) /\ Tasks # {}
ASSUME BoundsAssumption == MaxAttempts \in Nat /\ MaxFaults \in Nat /\ MaxHuman \in Nat

VARIABLES evidence,    \* what the SUCCEEDED Run left behind
          credential,  \* a token is saved for the project, or there is a global one
          row,         \* row of github_publications
          remote,      \* heads of the base branch and of the Run's branch
          prs,         \* pull requests from the Run's branch to the base branch
          pc,          \* [Callers -> where publish_github_draft is]
          claim,       \* [Callers -> attempt_token held]
          found,       \* [Callers -> pull request the gateway returned, or 0]
          faults, human,
          overtaken    \* history: a claim was taken over from a living gateway

callVars == <<pc, claim, found>>
vars == <<evidence, credential, row, remote, prs, callVars, faults, human, overtaken>>

-----------------------------------------------------------------------------
(* Evidence.  A commit is the sequence of tasks merged on the Run's base;  *)
(* the empty one is the base itself, and also the root of the history.     *)

RootCommit == <<>>
ForeignCommit == <<"foreign">>
NoCommit == <<"none">>

Orders == UNION {SetToSeqs(T) : T \in (SUBSET Tasks) \ {{}}}

\* A snapshot of the merge queue: what is integrated, in order; the task
\* whose conflict stopped it or was repaired under it; and whether it is stopped.
Snapshot(order, n, conflict, stopped) ==
  [integrated |-> SubSeq(order, 1, n), conflict |-> conflict, stopped |-> stopped]

\* Snapshots accumulate; a conflict stops the queue until it is repaired
\* under the authority of one human decision.
Integrated(order) ==
  {[tasks |-> ToSet(order),
    snapshots |-> <<Snapshot(order, 1, {}, FALSE), Snapshot(order, Len(order), {}, FALSE)>>,
    repairs |-> {}, decisions |-> {}, executions |-> <<>>],
   [tasks |-> ToSet(order),
    snapshots |-> <<Snapshot(order, 1, {order[2]}, TRUE),
                    Snapshot(order, Len(order), {order[2]}, FALSE)>>,
    repairs |-> {order[2]}, decisions |-> {order[2]}, executions |-> <<>>]}

\* The evidence of a single worker; a slice that continued a checkpoint was
\* executed on the checkpoint's commit.
Executed(order) ==
  {[tasks |-> ToSet(order), snapshots |-> <<>>, repairs |-> {}, decisions |-> {},
    executions |-> <<[status |-> "FAILED", onBase |-> TRUE],
                     [status |-> "SUCCEEDED", onBase |-> b]>>] : b \in BOOLEAN}

AcceptedEvidence ==
  UNION {IF Len(order) > 1 THEN Integrated(order) ELSE Executed(order) : order \in Orders}

\* Fault: the first snapshot counts, complete or not.
CompleteSnapshotsFirst(ev) == {i \in DOMAIN ev.snapshots : i = 1}

CompleteSnapshots(ev) ==
  {i \in DOMAIN ev.snapshots : /\ ~ev.snapshots[i].stopped
                               /\ ToSet(ev.snapshots[i].integrated) = ev.tasks}

\* _require_repaired_publication_authority
RepairAuthorized(ev, snapshot) == snapshot.conflict \subseteq ev.repairs \cap ev.decisions

IntegrationSource(ev) ==
  LET complete == CompleteSnapshots(ev)
      last == ev.snapshots[Max(complete)] IN
  IF /\ \A i, j \in complete : ev.snapshots[i].integrated = ev.snapshots[j].integrated
     /\ RepairAuthorized(ev, last)
  THEN last.integrated ELSE NoCommit

\* _single_task_source
SingleTaskSource(ev) ==
  LET accepted == {i \in DOMAIN ev.executions : ev.executions[i].status = "SUCCEEDED"} IN
  IF accepted # {} /\ \A i \in accepted : ev.executions[i].onBase
  THEN SetToSeq(ev.tasks) ELSE NoCommit

\* resolve_github_publication_intent; NoCommit stands for every refusal.
SourceCommit ==
  IF CompleteSnapshots(evidence) # {} THEN IntegrationSource(evidence)
  ELSE IF Cardinality(evidence.tasks) = 1 THEN SingleTaskSource(evidence) ELSE NoCommit

Publishable == SourceCommit # NoCommit

-----------------------------------------------------------------------------
(* The audit row. *)

NoRow == [state |-> "READY", count |-> 0, token |-> 0, expired |-> FALSE, pr |-> 0]

\* Fault: whoever reports is believed while an attempt is under way.
ActiveAttemptAnyToken(c) == row.state = "PUBLISHING" /\ ~row.expired

ActiveAttempt(c) == row.state = "PUBLISHING" /\ row.token = claim[c] /\ ~row.expired

Go(c, at) == pc' = [pc EXCEPT ![c] = at]

\* The request ends, with an answer or with an error.
Return(c) ==
  /\ Go(c, "idle")
  /\ claim' = [claim EXCEPT ![c] = 0]
  /\ found' = [found EXCEPT ![c] = 0]

GatewayStates == {"base", "pushBase", "verifyBase", "branch", "pushBranch",
                  "verifyBranch", "find", "create", "findAgain", "published", "failed"}

Fault == faults < MaxFaults /\ faults' = faults + 1

-----------------------------------------------------------------------------
Init ==
  /\ evidence \in AcceptedEvidence
  /\ credential \in BOOLEAN
  /\ row = NoRow
  /\ remote \in [base : {RootCommit, NoCommit}, branch : {NoCommit}]
  /\ prs = <<>>
  /\ pc = [c \in Callers |-> "idle"]
  /\ claim = [c \in Callers |-> 0]
  /\ found = [c \in Callers |-> 0]
  /\ faults = 0 /\ human = 0 /\ overtaken = FALSE

\* remember: registering the project again saves a token.
Remember ==
  /\ ~credential
  /\ credential' = TRUE
  /\ UNCHANGED <<evidence, row, remote, prs, callVars, faults, human, overtaken>>

\* publish_github_draft up to the claim; a published or refused request is over.
Request(c) ==
  /\ pc[c] = "idle"
  /\ Publishable
  /\ row.state # "PUBLISHED"
  /\ credential
  /\ Go(c, "begin")
  /\ UNCHANGED <<evidence, credential, row, remote, prs, claim, found, faults, human, overtaken>>

\* begin_attempt.  An attempt that is under way and not expired refuses.
BeginAttempt(c) ==
  /\ pc[c] = "begin"
  /\ \/ /\ row.state = "PUBLISHED" \/ (row.state = "PUBLISHING" /\ ~row.expired)
        /\ Return(c)
        /\ UNCHANGED <<row, overtaken>>
     \/ /\ row.state # "PUBLISHED" /\ (row.state = "PUBLISHING" => row.expired)
        /\ row.count < MaxAttempts
        /\ row' = [state |-> "PUBLISHING", count |-> row.count + 1, token |-> row.count + 1,
                   expired |-> FALSE, pr |-> 0]
        /\ claim' = [claim EXCEPT ![c] = row.count + 1]
        /\ overtaken' = (overtaken \/ \E d \in Callers : pc[d] \in GatewayStates)
        /\ Go(c, "base") /\ UNCHANGED found
  /\ UNCHANGED <<evidence, credential, remote, prs, faults, human>>

-----------------------------------------------------------------------------
(* The gateway: git commands and API calls, each of which can fail. *)

\* The caller gets an error for a call that changed nothing on the remote.
CallFails(c) ==
  /\ pc[c] \in GatewayStates \ {"published", "failed"}
  /\ Fault
  /\ Go(c, "failed")
  /\ UNCHANGED <<evidence, credential, row, remote, prs, claim, found, human, overtaken>>

\* A branch is created, or left alone when it is there already.
\* Fault: the push is forced.
PushRefForce(head, commit) == commit

PushRef(head, commit) == IF head = NoCommit THEN commit ELSE head

GatewayStep(c) == UNCHANGED <<evidence, credential, row, claim, human, overtaken>>

\* _ensure_remote_base_branch seeds an empty repository with the root commit.
LookupBase(c) ==
  /\ pc[c] = "base"
  /\ Go(c, IF remote.base = NoCommit THEN "pushBase" ELSE "branch")
  /\ UNCHANGED <<remote, prs, found, faults>> /\ GatewayStep(c)

\* The push may be accepted although git is cut off by its time limit.
PushBase(c) ==
  /\ pc[c] = "pushBase"
  /\ remote' = [remote EXCEPT !.base = PushRef(@, RootCommit)]
  /\ \/ Go(c, "verifyBase") /\ UNCHANGED faults
     \/ Fault /\ Go(c, "failed")
  /\ UNCHANGED <<prs, found>> /\ GatewayStep(c)

\* Looked up after a push that was accepted and after one that was rejected.
VerifyBase(c) ==
  /\ pc[c] = "verifyBase"
  /\ Go(c, IF remote.base = RootCommit THEN "branch" ELSE "failed")
  /\ UNCHANGED <<remote, prs, found, faults>> /\ GatewayStep(c)

\* Fault: any branch that is there is a conflict, our own included.
LookupBranchStrict(c) ==
  /\ pc[c] = "branch"
  /\ Go(c, IF remote.branch = NoCommit THEN "pushBranch" ELSE "failed")
  /\ UNCHANGED <<remote, prs, found, faults>> /\ GatewayStep(c)

\* _publish_branch
LookupBranch(c) ==
  /\ pc[c] = "branch"
  /\ Go(c, CASE remote.branch = NoCommit -> "pushBranch"
             [] remote.branch = SourceCommit -> "find"
             [] OTHER -> "failed")
  /\ UNCHANGED <<remote, prs, found, faults>> /\ GatewayStep(c)

PushBranch(c) ==
  /\ pc[c] = "pushBranch"
  /\ remote' = [remote EXCEPT !.branch = PushRef(@, SourceCommit)]
  /\ \/ Go(c, "verifyBranch") /\ UNCHANGED faults
     \/ Fault /\ Go(c, "failed")
  /\ UNCHANGED <<prs, found>> /\ GatewayStep(c)

VerifyBranch(c) ==
  /\ pc[c] = "verifyBranch"
  /\ Go(c, IF remote.branch = SourceCommit THEN "find" ELSE "failed")
  /\ UNCHANGED <<remote, prs, found, faults>> /\ GatewayStep(c)

\* The pull requests that the lookup returns.
\* Fault: only those that are still open.
ListedOpen == {i \in DOMAIN prs : prs[i].state = "open"}

Listed == DOMAIN prs

\* _decode_pull_request and the checks of the one that is found
OpenDraft(i) == prs[i].state = "open" /\ prs[i].draft /\ prs[i].head = SourceCommit

\* _find_pull_request, before and after the attempt to create one
FindPullRequest(c) ==
  /\ pc[c] \in {"find", "findAgain"}
  /\ \/ /\ Listed = {}
        /\ Go(c, IF pc[c] = "find" THEN "create" ELSE "failed")
        /\ UNCHANGED found
     \/ \E i \in Listed :
          /\ Listed = {i} /\ OpenDraft(i)
          /\ found' = [found EXCEPT ![c] = i]
          /\ Go(c, "published")
     \/ /\ Listed # {} /\ ~(\E i \in Listed : Listed = {i} /\ OpenDraft(i))
        /\ Go(c, "failed") /\ UNCHANGED found
  /\ UNCHANGED <<remote, prs, faults>> /\ GatewayStep(c)

\* GitHub has one open pull request for a pair of branches, and answers 422
\* to another.  The answer to a request that was accepted may be lost.
CreatePullRequest(c) ==
  /\ pc[c] = "create"
  /\ \/ /\ \E i \in DOMAIN prs : prs[i].state = "open"
        /\ Go(c, "findAgain")
        /\ UNCHANGED <<prs, found, faults>>
     \/ /\ \A i \in DOMAIN prs : prs[i].state # "open"
        /\ prs' = Append(prs, [state |-> "open", draft |-> TRUE, head |-> remote.branch])
        /\ \/ /\ remote.branch = SourceCommit
              /\ found' = [found EXCEPT ![c] = Len(prs) + 1]
              /\ Go(c, "published") /\ UNCHANGED faults
           \/ /\ remote.branch # SourceCommit
              /\ Go(c, "failed") /\ UNCHANGED <<found, faults>>
           \/ Fault /\ Go(c, "failed") /\ UNCHANGED found
  /\ UNCHANGED remote /\ GatewayStep(c)

-----------------------------------------------------------------------------
(* The result is recorded, or the claim is no longer the caller's and the  *)
(* request ends with a conflict.                                           *)

MarkPublished(c) ==
  /\ pc[c] = "published"
  /\ row' = IF ActiveAttempt(c)
            THEN [row EXCEPT !.state = "PUBLISHED", !.token = 0, !.expired = FALSE, !.pr = found[c]]
            ELSE row
  /\ Return(c)
  /\ UNCHANGED <<evidence, credential, remote, prs, faults, human, overtaken>>

\* Fault: the failed attempt keeps its claim.
MarkFailedKeepingClaim(c) ==
  /\ pc[c] = "failed"
  /\ row' = IF ActiveAttempt(c) THEN [row EXCEPT !.state = "FAILED"] ELSE row
  /\ Return(c)
  /\ UNCHANGED <<evidence, credential, remote, prs, faults, human, overtaken>>

MarkFailed(c) ==
  /\ pc[c] = "failed"
  /\ row' = IF ActiveAttempt(c)
            THEN [row EXCEPT !.state = "FAILED", !.token = 0, !.expired = FALSE, !.pr = 0]
            ELSE row
  /\ Return(c)
  /\ UNCHANGED <<evidence, credential, remote, prs, faults, human, overtaken>>

\* The process dies, or an exception that is no gateway error escapes.
Die(c) ==
  /\ pc[c] # "idle"
  /\ Fault
  /\ Return(c)
  /\ UNCHANGED <<evidence, credential, row, remote, prs, human, overtaken>>

\* The claim's time is over.  It is a fault while its holder is still at work.
ClaimExpires ==
  /\ row.state = "PUBLISHING" /\ ~row.expired
  /\ row' = [row EXCEPT !.expired = TRUE]
  /\ \/ (\E c \in Callers : claim[c] = row.token) /\ Fault
     \/ (\A c \in Callers : claim[c] # row.token) /\ UNCHANGED faults
  /\ UNCHANGED <<evidence, credential, remote, prs, callVars, human, overtaken>>

\* Somebody creates one of the branches, or closes or undrafts the pull request.
HumanActs ==
  /\ human < MaxHuman
  /\ human' = human + 1
  /\ \/ /\ remote.base = NoCommit
        /\ remote' = [remote EXCEPT !.base = ForeignCommit] /\ UNCHANGED prs
     \/ /\ remote.branch = NoCommit
        /\ remote' = [remote EXCEPT !.branch = ForeignCommit] /\ UNCHANGED prs
     \/ \E i \in DOMAIN prs :
          /\ prs[i].state = "open"
          /\ \/ prs' = [prs EXCEPT ![i].state = "closed"]
             \/ prs[i].draft /\ prs' = [prs EXCEPT ![i].draft = FALSE]
          /\ UNCHANGED remote
  /\ UNCHANGED <<evidence, credential, row, callVars, faults, overtaken>>

-----------------------------------------------------------------------------
CallStep(c) ==
  \/ Request(c) \/ BeginAttempt(c) \/ LookupBase(c) \/ PushBase(c) \/ VerifyBase(c)
  \/ LookupBranch(c) \/ PushBranch(c) \/ VerifyBranch(c)
  \/ FindPullRequest(c) \/ CreatePullRequest(c) \/ MarkPublished(c) \/ MarkFailed(c)

Next ==
  \/ \E c \in Callers : CallStep(c) \/ CallFails(c) \/ Die(c)
  \/ ClaimExpires \/ Remember \/ HumanActs

Spec == Init /\ [][Next]_vars

\* Requests proceed and are made again, a token is saved in the end, time passes.
Fairness ==
  /\ \A c \in Callers : WF_vars(CallStep(c))
  /\ WF_vars(ClaimExpires) /\ WF_vars(Remember)

FairSpec == Spec /\ Fairness

-----------------------------------------------------------------------------
(* Properties *)

\* The shapes of the row that _decode accepts.
TypeOK ==
  /\ evidence \in AcceptedEvidence
  /\ row.state \in {"READY", "PUBLISHING", "FAILED", "PUBLISHED"} /\ row.count \in 0..MaxAttempts
  /\ (row.state = "PUBLISHING") = (row.token # 0)
  /\ row.expired => row.state = "PUBLISHING"
  /\ (row.state = "PUBLISHED") = (row.pr # 0)
  /\ pc \in [Callers -> {"idle", "begin"} \cup GatewayStates]
  /\ claim \in [Callers -> 0..MaxAttempts] /\ found \in [Callers -> 0..Len(prs)]
  /\ faults \in 0..MaxFaults /\ human \in 0..MaxHuman

\* A published Run has a pull request from a commit that contains every task,
\* whoever else pushed, and whatever was lost on the way.
PublishedIsAccepted ==
  row.state = "PUBLISHED" => /\ row.pr \in DOMAIN prs
                             /\ ToSet(prs[row.pr].head) = evidence.tasks

\* As long as no claim was taken over from a gateway that was still at work,
\* the Run gets one pull request, even when people close it.
OnePullRequest == overtaken \/ Len(prs) <= 1

\* Who holds the unexpired claim: only its holder, or time, changes the row;
\* and a PUBLISHED row never changes again.
ClaimExclusive ==
  [][/\ row.state = "PUBLISHED" => row' = row
     /\ row.state = "PUBLISHING" /\ ~row.expired /\ row' # row =>
          \/ row' = [row EXCEPT !.expired = TRUE]
          \/ \E c \in Callers : claim[c] = row.token /\ claim'[c] = 0]_vars

\* "Existing repositories are never changed": a branch that is there stays.
RemotePreserved ==
  [][\A b \in {"base", "branch"} : remote[b] # NoCommit => remote'[b] = remote[b]]_vars

\* A publishable Run is published in the end unless somebody else changed
\* the repository under it: what an interrupted attempt left there is found
\* again by the next one.
EventuallyPublished == <>(row.state = "PUBLISHED" \/ human > 0 \/ ~Publishable)

\* What the row says was published is the accepted work, in one pull request.
PublicationSound == TypeOK /\ PublishedIsAccepted /\ OnePullRequest

\* Only the holder of the claim writes the row, and nobody's branch is moved.
WritesOwned == ClaimExclusive /\ RemotePreserved

=============================================================================
