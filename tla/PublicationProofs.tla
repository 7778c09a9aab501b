-------------------------- MODULE PublicationProofs --------------------------
(***************************************************************************)
(* Proofs about Publication, for any number of requests, attempts, faults  *)
(* and human acts, and any finite set of tasks.                            *)
(***************************************************************************)
EXTENDS Publication, FiniteSetTheorems, TLAPS

-----------------------------------------------------------------------------
(* The inductive invariant.                                                *)

Heads == {NoCommit, ForeignCommit, RootCommit, SourceCommit}
Requests == [state : {"open", "closed"}, draft : BOOLEAN, head : Heads]
Rows == [state : {"READY", "PUBLISHING", "FAILED", "PUBLISHED"}, count : 0..MaxAttempts,
         token : 0..MaxAttempts, expired : BOOLEAN, pr : Nat]

\* The row, what GitHub holds, and where the requests are.
RowTypes ==
  /\ row \in Rows
  /\ row.state = "PUBLISHING" <=> row.token # 0
  /\ row.expired => row.state = "PUBLISHING"
  /\ row.state = "PUBLISHED" <=> row.pr # 0
RemoteTypes == remote \in [base : Heads, branch : Heads] /\ prs \in Seq(Requests)
CallTypes ==
  /\ pc \in [Callers -> {"idle", "begin"} \cup GatewayStates]
  /\ claim \in [Callers -> 0..MaxAttempts]
CountTypes == faults \in 0..MaxFaults /\ human \in 0..MaxHuman

\* Whatever a request holds or the row records is a pull request from the
\* source commit; a request is made only if there is one.
Found(k) == k \in 1..Len(prs) /\ prs[k].head = SourceCommit
FoundHolds ==
  /\ found \in [Callers -> 0..Len(prs)]
  /\ \A c \in Callers : /\ pc[c] # "idle" => Publishable
                        /\ pc[c] = "published" => found[c] # 0
                        /\ found[c] # 0 => Found(found[c])
  /\ row.pr # 0 => Publishable /\ Found(row.pr)

\* Unless a claim was taken over from a living gateway there is one gateway
\* at a time, and it creates a pull request only where there is none.
OneGateway ==
  ~overtaken =>
    /\ \A c, d \in Callers : pc[c] \in GatewayStates /\ pc[d] \in GatewayStates => c = d
    /\ \A c \in Callers : pc[c] = "create" => prs = <<>>
    /\ Len(prs) <= 1

Inv ==
  /\ evidence \in AcceptedEvidence /\ RowTypes /\ RemoteTypes /\ CallTypes /\ CountTypes
  /\ FoundHolds /\ OneGateway

USE TasksAssumption, BoundsAssumption

-----------------------------------------------------------------------------
(* The source commit.                                                      *)

\* The source of an accepted Run is a commit of all its tasks.
LEMMA SourceIsComplete ==
  ASSUME evidence \in AcceptedEvidence, Publishable
  PROVE  ToSet(SourceCommit) = evidence.tasks
<1>0. PICK order \in Orders : evidence \in Integrated(order) \/ evidence \in Executed(order)
  <2>1. PICK order \in Orders : evidence \in IF Len(order) > 1 THEN Integrated(order) ELSE Executed(order)
    BY DEF AcceptedEvidence
  <2> QED
    BY <2>1
<1>s. evidence.tasks = ToSet(order) /\ DOMAIN evidence.snapshots \subseteq {1, 2}
  <2>1. ASSUME NEW a, NEW b, NEW r, NEW d,
               evidence = [tasks |-> ToSet(order), snapshots |-> <<a, b>>, repairs |-> r, decisions |-> d, executions |-> <<>>]
        PROVE  evidence.tasks = ToSet(order) /\ DOMAIN evidence.snapshots \subseteq {1, 2}
    <3>1. evidence.tasks = ToSet(order) /\ evidence.snapshots = <<a, b>>
      BY <2>1
    <3> QED
      BY <3>1
  <2>2. CASE evidence \in Integrated(order)
    <3>1. \E a, b, r, d :
            evidence = [tasks |-> ToSet(order), snapshots |-> <<a, b>>, repairs |-> r, decisions |-> d, executions |-> <<>>]
      BY <2>2, Zenon DEF Integrated
    <3> QED
      BY <2>1, <3>1
  <2>3. CASE evidence \in Executed(order)
    <3>1. PICK x : evidence = [tasks |-> ToSet(order), snapshots |-> <<>>, repairs |-> {}, decisions |-> {}, executions |-> x]
      BY <2>3, Zenon DEF Executed
    <3>2. evidence.tasks = ToSet(order) /\ evidence.snapshots = <<>>
      BY <3>1
    <3> QED
      BY <3>2
  <2> QED
    BY <1>0, <2>2, <2>3
<1>1. CASE CompleteSnapshots(evidence) # {}
  <2> DEFINE C == CompleteSnapshots(evidence)
  <2>1. C \subseteq DOMAIN evidence.snapshots /\ \A i \in C : ToSet(evidence.snapshots[i].integrated) = evidence.tasks
    BY DEF CompleteSnapshots
  <2>3. Max(C) \in C
    BY <1>1, <1>s, <2>1 DEF Max
  <2>4. SourceCommit = evidence.snapshots[Max(C)].integrated
    BY <1>1 DEF Publishable, SourceCommit, IntegrationSource
  <2> QED
    BY <2>1, <2>3, <2>4
<1>2. CASE CompleteSnapshots(evidence) = {}
  <2>1. Cardinality(evidence.tasks) = 1 /\ SourceCommit = SetToSeq(evidence.tasks)
    BY <1>2 DEF Publishable, SourceCommit, SingleTaskSource
  <2>o. PICK T \in SUBSET Tasks : order \in SetToSeqs(T)
    BY DEF Orders
  <2>3. evidence.tasks \subseteq Tasks
    BY <1>s, <2>o DEF SetToSeqs, ToSet
  <2>4. IsFiniteSet(evidence.tasks)
    BY <2>3, FS_Subset
  <2>5. PICK x : evidence.tasks = {x}
    BY <2>1, <2>4, FS_Singleton
  <2>6. SetToSeq({x}) \in [1..1 -> {x}]
    <3>1. Cardinality({x}) = 1
      BY <2>1, <2>5
    <3>2. [i \in 1..1 |-> x] \in [1..1 -> {x}] /\ IsInjective([i \in 1..1 |-> x])
      BY DEF IsInjective
    <3> QED
      BY <3>1, <3>2 DEF SetToSeq
  <2> QED
    BY <2>1, <2>5, <2>6 DEF ToSet
<1> QED
  BY <1>1, <1>2

-----------------------------------------------------------------------------
(* Steps.                                                                  *)

\* The evidence of a terminal Run does not change, hence neither does the
\* commit that is published.
LEMMA EvidenceStays ==
  ASSUME [Next]_vars
  PROVE  evidence' = evidence /\ SourceCommit' = SourceCommit /\ Heads' = Heads /\ Requests' = Requests
         /\ Publishable' = Publishable
<1>1. evidence' = evidence
  BY DEF Next, vars, CallStep, Request, BeginAttempt, LookupBase, PushBase, VerifyBase, LookupBranch, PushBranch,
         VerifyBranch, FindPullRequest, CreatePullRequest, MarkPublished, MarkFailed, CallFails, Die, ClaimExpires,
         Remember, HumanActs, GatewayStep
<1>2. SourceCommit' = SourceCommit
  BY <1>1 DEF SourceCommit
<1> QED
  BY <1>1, <1>2 DEF Heads, Requests, Publishable

LEMMA InitInv == Init => Inv
<1> SUFFICES ASSUME Init PROVE Inv
  OBVIOUS
<1>1. RowTypes
  BY DEF Init, RowTypes, Rows, NoRow
<1>2. RemoteTypes /\ CallTypes /\ CountTypes
  BY DEF Init, RemoteTypes, CallTypes, CountTypes, Heads
<1>3. FoundHolds /\ OneGateway
  BY DEF Init, FoundHolds, OneGateway, NoRow, GatewayStates
<1> QED
  BY <1>1, <1>2, <1>3 DEF Init, Inv

\* The row is written by the claim, by its holder's report, and by time.
LEMMA RowStep ==
  ASSUME Inv, [Next]_vars
  PROVE  /\ RowTypes'
         /\ \/ UNCHANGED row
            \/ row'.pr = 0
            \/ \E c \in Callers : pc[c] = "published" /\ row'.pr = found[c]
<1> USE DEF Inv, RowTypes, Rows
<1>1. CASE UNCHANGED row
  BY <1>1
<1>2. ASSUME NEW c \in Callers, BeginAttempt(c), row' # row
      PROVE  RowTypes' /\ row'.pr = 0
  <2>1. row.count + 1 \in 0..MaxAttempts
    BY <1>2 DEF BeginAttempt
  <2>2. row' = [state |-> "PUBLISHING", count |-> row.count + 1, token |-> row.count + 1, expired |-> FALSE, pr |-> 0]
    BY <1>2 DEF BeginAttempt
  <2> QED
    BY <2>1, <2>2
<1>3. ASSUME NEW c \in Callers, MarkPublished(c), row' # row
      PROVE  RowTypes' /\ pc[c] = "published" /\ row'.pr = found[c]
  <2>1. pc[c] = "published" /\ row' = [row EXCEPT !.state = "PUBLISHED", !.token = 0, !.expired = FALSE, !.pr = found[c]]
    BY <1>3 DEF MarkPublished
  <2>2. found[c] \in Nat /\ found[c] # 0
    BY <2>1 DEF FoundHolds, RemoteTypes
  <2>3. row' = [state |-> "PUBLISHED", count |-> row.count, token |-> 0, expired |-> FALSE, pr |-> found[c]]
    BY <2>1
  <2>4. row'.pr = found[c] /\ row' \in Rows
    BY <2>2, <2>3
  <2>5. row'.state = "PUBLISHED" /\ row'.token = 0 /\ ~row'.expired
    BY <2>3
  <2> QED
    BY <2>1, <2>2, <2>4, <2>5
<1>4. ASSUME NEW c \in Callers, MarkFailed(c), row' # row
      PROVE  RowTypes' /\ row'.pr = 0
  <2>1. row' = [row EXCEPT !.state = "FAILED", !.token = 0, !.expired = FALSE, !.pr = 0]
    BY <1>4 DEF MarkFailed
  <2>2. row' = [state |-> "FAILED", count |-> row.count, token |-> 0, expired |-> FALSE, pr |-> 0]
    BY <2>1
  <2> QED
    BY <2>2
<1>5. ASSUME ClaimExpires PROVE RowTypes' /\ row'.pr = 0
  BY <1>5 DEF ClaimExpires
<1>6. \/ UNCHANGED row
      \/ ClaimExpires
      \/ \E c \in Callers : BeginAttempt(c) \/ MarkPublished(c) \/ MarkFailed(c)
  BY DEF Next, vars, CallStep, Request, LookupBase, PushBase, VerifyBase, LookupBranch, PushBranch,
         VerifyBranch, FindPullRequest, CreatePullRequest, CallFails, Die, Remember, HumanActs, GatewayStep
<1> QED
  BY <1>1, <1>2, <1>3, <1>4, <1>5, <1>6

\* Branches are only ever created; pull requests keep their head.
LEMMA RemoteStep ==
  ASSUME Inv, [Next]_vars
  PROVE  /\ RemoteTypes'
         /\ \A b \in {"base", "branch"} : remote[b] # NoCommit => remote'[b] = remote[b]
         /\ Len(prs) <= Len(prs')
         /\ \A i \in 1..Len(prs) : prs'[i].head = prs[i].head
         /\ Len(prs') # Len(prs) => \E c \in Callers : CreatePullRequest(c) /\ Len(prs') = Len(prs) + 1
<1> DEFINE Goal == /\ RemoteTypes'
                   /\ \A b \in {"base", "branch"} : remote[b] # NoCommit => remote'[b] = remote[b]
                   /\ Len(prs) <= Len(prs')
                   /\ \A i \in 1..Len(prs) : prs'[i].head = prs[i].head
                   /\ Len(prs') # Len(prs) => \E c \in Callers : CreatePullRequest(c) /\ Len(prs') = Len(prs) + 1
<1>h. Heads' = Heads /\ Requests' = Requests
  BY EvidenceStays
<1>t. remote \in [base : Heads, branch : Heads] /\ prs \in Seq(Requests) /\ Len(prs) \in Nat
  BY DEF Inv, RemoteTypes
<1>r. NoCommit \in Heads /\ ForeignCommit \in Heads /\ RootCommit \in Heads /\ SourceCommit \in Heads
  BY DEF Heads
<1>1. CASE UNCHANGED <<remote, prs>>
  BY <1>1, <1>h, <1>t DEF RemoteTypes
<1>2. ASSUME NEW c \in Callers, PushBase(c) \/ PushBranch(c) PROVE Goal
  BY <1>2, <1>h, <1>t, <1>r DEF PushBase, PushBranch, PushRef, RemoteTypes
<1>3. ASSUME NEW c \in Callers, CreatePullRequest(c) PROVE Goal
  <2>1. CASE UNCHANGED prs
    BY <1>1, <1>3, <2>1 DEF CreatePullRequest
  <2>2. CASE prs' = Append(prs, [state |-> "open", draft |-> TRUE, head |-> remote.branch])
    <3>1. [state |-> "open", draft |-> TRUE, head |-> remote.branch] \in Requests
      BY <1>t DEF Requests
    <3>2. prs' \in Seq(Requests) /\ Len(prs') = Len(prs) + 1 /\ \A i \in 1..Len(prs) : prs'[i] = prs[i]
      BY <1>t, <2>2, <3>1
    <3>3. UNCHANGED remote
      BY <1>3 DEF CreatePullRequest
    <3> QED
      BY <1>3, <1>h, <1>t, <3>2, <3>3 DEF RemoteTypes
  <2> QED
    BY <1>3, <2>1, <2>2 DEF CreatePullRequest
<1>4. ASSUME HumanActs PROVE Goal
  <2>1. CASE UNCHANGED prs
    BY <1>4, <1>h, <1>t, <1>r, <2>1 DEF HumanActs, RemoteTypes
  <2>2. CASE UNCHANGED remote /\ \E i \in DOMAIN prs : prs' = [prs EXCEPT ![i].state = "closed"] \/ prs' = [prs EXCEPT ![i].draft = FALSE]
    <3>1. PICK i \in 1..Len(prs) : prs' = [prs EXCEPT ![i].state = "closed"] \/ prs' = [prs EXCEPT ![i].draft = FALSE]
      BY <1>t, <2>2
    <3>2. \A r \in Requests : /\ [r EXCEPT !.state = "closed"] \in Requests /\ [r EXCEPT !.state = "closed"].head = r.head
                              /\ [r EXCEPT !.draft = FALSE] \in Requests /\ [r EXCEPT !.draft = FALSE].head = r.head
      BY DEF Requests
    <3>3. prs' \in Seq(Requests) /\ Len(prs') = Len(prs) /\ \A j \in 1..Len(prs) : prs'[j].head = prs[j].head
      <4>1. prs[i] \in Requests
        BY <1>t
      <4>2. PICK r \in Requests : prs' = [prs EXCEPT ![i] = r] /\ r.head = prs[i].head
        BY <3>1, <3>2, <4>1
      <4> QED
        BY <1>t, <4>2
    <3> QED
      BY <1>h, <1>t, <2>2, <3>3 DEF RemoteTypes
  <2> QED
    BY <1>4, <2>1, <2>2 DEF HumanActs
<1>5. \/ UNCHANGED <<remote, prs>>
      \/ HumanActs
      \/ \E c \in Callers : PushBase(c) \/ PushBranch(c) \/ CreatePullRequest(c)
  BY DEF Next, vars, CallStep, Request, BeginAttempt, LookupBase, VerifyBase, LookupBranch,
         VerifyBranch, FindPullRequest, MarkPublished, MarkFailed, CallFails, Die, ClaimExpires, Remember, GatewayStep
<1> QED
  BY <1>1, <1>2, <1>3, <1>4, <1>5

\* How a request moves.
Moves(d) ==
  /\ pc'[d] # "idle" => pc[d] # "idle" \/ Publishable
  /\ pc'[d] = "published" => (pc[d] = "published" /\ found'[d] = found[d]) \/ FindPullRequest(d) \/ CreatePullRequest(d)
  /\ found'[d] \in {0, found[d]} \/ FindPullRequest(d) \/ CreatePullRequest(d)
  /\ pc'[d] \in GatewayStates => pc[d] \in GatewayStates \/ BeginAttempt(d)
  /\ pc'[d] = "create" => pc[d] = "create" \/ FindPullRequest(d)

Located ==
  /\ CallTypes'
  /\ found' = [d \in Callers |-> found'[d]]
  /\ \A d \in Callers : Moves(d)

LEMMA ReturnMoves ==
  ASSUME Inv, NEW c \in Callers, Return(c)
  PROVE  Located
<1>1. CallTypes'
  <2>1. 0 \in 0..MaxAttempts
    OBVIOUS
  <2> QED
    BY <2>1 DEF Inv, CallTypes, Return, Go
<1>2. found' = [d \in Callers |-> found'[d]] /\ \A d \in Callers : found'[d] = IF d = c THEN 0 ELSE found[d]
  BY DEF Return, Inv, FoundHolds
<1>3. \A d \in Callers : pc'[d] = IF d = c THEN "idle" ELSE pc[d]
  BY DEF Return, Go, Inv, CallTypes
<1>4. ASSUME NEW d \in Callers PROVE Moves(d)
  BY <1>2, <1>3 DEF Moves, GatewayStates
<1> QED
  BY <1>1, <1>2, <1>4 DEF Located

LEMMA MovesStep ==
  ASSUME Inv, [Next]_vars
  PROVE  Located
<1>t. /\ pc \in [Callers -> {"idle", "begin"} \cup GatewayStates]
      /\ claim \in [Callers -> 0..MaxAttempts] /\ found \in [Callers -> 0..Len(prs)]
      /\ row.count \in 0..MaxAttempts
  BY DEF Inv, CallTypes, FoundHolds, RowTypes, Rows
<1> USE DEF Located, Moves, CallTypes, Go
<1>1. ASSUME NEW c \in Callers, Request(c) PROVE Located
  BY <1>1, <1>t DEF Request, GatewayStates
<1>2. ASSUME NEW c \in Callers, BeginAttempt(c) PROVE Located
  <2>1. CASE Return(c)
    BY <2>1, ReturnMoves
  <2>2. CASE ~Return(c)
    <3>1. /\ row.count + 1 \in 0..MaxAttempts /\ claim' = [claim EXCEPT ![c] = row.count + 1]
          /\ Go(c, "base") /\ UNCHANGED found
      BY <1>2, <1>t, <2>2 DEF BeginAttempt
    <3>2. CallTypes'
      BY <1>t, <3>1 DEF GatewayStates
    <3>3. \A d \in Callers : pc'[d] = IF d = c THEN "base" ELSE pc[d]
      BY <1>t, <3>1
    <3>4. pc[c] = "begin"
      BY <1>2 DEF BeginAttempt
    <3>5. \A d \in Callers : Moves(d)
      BY <1>2, <3>1, <3>3, <3>4 DEF GatewayStates
    <3> QED
      BY <1>t, <3>1, <3>2, <3>5
  <2> QED
    BY <2>1, <2>2
<1>3. ASSUME NEW c \in Callers, LookupBase(c) PROVE Located
  BY <1>3, <1>t DEF LookupBase, GatewayStep, GatewayStates
<1>4. ASSUME NEW c \in Callers, PushBase(c) PROVE Located
  BY <1>4, <1>t DEF PushBase, GatewayStep, GatewayStates
<1>5. ASSUME NEW c \in Callers, VerifyBase(c) PROVE Located
  BY <1>5, <1>t DEF VerifyBase, GatewayStep, GatewayStates
<1>6. ASSUME NEW c \in Callers, LookupBranch(c) PROVE Located
  BY <1>6, <1>t DEF LookupBranch, GatewayStep, GatewayStates
<1>7. ASSUME NEW c \in Callers, PushBranch(c) PROVE Located
  BY <1>7, <1>t DEF PushBranch, GatewayStep, GatewayStates
<1>8. ASSUME NEW c \in Callers, VerifyBranch(c) PROVE Located
  BY <1>8, <1>t DEF VerifyBranch, GatewayStep, GatewayStates
<1>9. ASSUME NEW c \in Callers, FindPullRequest(c) PROVE Located
  BY <1>9, <1>t DEF FindPullRequest, GatewayStep, GatewayStates
<1>10. ASSUME NEW c \in Callers, CreatePullRequest(c) PROVE Located
  BY <1>10, <1>t DEF CreatePullRequest, GatewayStep, GatewayStates
<1>11. ASSUME NEW c \in Callers, MarkPublished(c) PROVE Located
  BY <1>11, ReturnMoves DEF MarkPublished
<1>12. ASSUME NEW c \in Callers, MarkFailed(c) PROVE Located
  BY <1>12, ReturnMoves DEF MarkFailed
<1>13. ASSUME NEW c \in Callers, CallFails(c) PROVE Located
  BY <1>13, <1>t DEF CallFails, GatewayStates
<1>14. ASSUME NEW c \in Callers, Die(c) PROVE Located
  BY <1>14, ReturnMoves DEF Die
<1>15. CASE ClaimExpires \/ Remember \/ HumanActs \/ UNCHANGED vars
  BY <1>15, <1>t DEF ClaimExpires, Remember, HumanActs, vars, callVars, CreatePullRequest
<1> QED
  BY <1>1, <1>2, <1>3, <1>4, <1>5, <1>6, <1>7, <1>8, <1>9, <1>10, <1>11, <1>12, <1>13, <1>14, <1>15 DEF Next, CallStep

LEMMA CountStep ==
  ASSUME Inv, [Next]_vars
  PROVE  CountTypes'
<1>1. faults' \in 0..MaxFaults
  <2>1. UNCHANGED faults \/ Fault
    BY DEF Next, vars, CallStep, Request, BeginAttempt, LookupBase, PushBase, VerifyBase, LookupBranch, PushBranch,
           VerifyBranch, FindPullRequest, CreatePullRequest, MarkPublished, MarkFailed, CallFails, Die, ClaimExpires,
           Remember, HumanActs
  <2> QED
    BY <2>1 DEF Fault, Inv, CountTypes
<1>2. human' \in 0..MaxHuman
  <2>1. UNCHANGED human \/ HumanActs
    BY DEF Next, vars, CallStep, Request, BeginAttempt, LookupBase, PushBase, VerifyBase, LookupBranch, PushBranch,
           VerifyBranch, FindPullRequest, CreatePullRequest, MarkPublished, MarkFailed, CallFails, Die, ClaimExpires,
           Remember, GatewayStep
  <2> QED
    BY <2>1 DEF HumanActs, Inv, CountTypes
<1> QED
  BY <1>1, <1>2 DEF CountTypes

\* What was found stays: pull requests are closed, never deleted.
LEMMA FoundStays ==
  ASSUME Inv, [Next]_vars, NEW k, Found(k)
  PROVE  Found(k)'
<1>1. Len(prs) \in Nat /\ Len(prs') \in Nat
  BY RemoteStep DEF Inv, RemoteTypes
<1> QED
  BY <1>1, RemoteStep, EvidenceStays DEF Found

\* The gateway answers with a pull request from the source commit.
LEMMA GatewayFinds ==
  ASSUME Inv, [Next]_vars, NEW c \in Callers, FindPullRequest(c) \/ CreatePullRequest(c)
  PROVE  /\ found'[c] # 0 /\ found'[c] # found[c] => Found(found[c])'
         /\ pc'[c] = "published" => found'[c] # 0 /\ Found(found[c])'
<1>t. /\ pc \in [Callers -> {"idle", "begin"} \cup GatewayStates]
      /\ found \in [Callers -> 0..Len(prs)] /\ prs \in Seq(Requests) /\ Len(prs) \in Nat
  BY DEF Inv, CallTypes, FoundHolds, RemoteTypes
<1>1. CASE FindPullRequest(c)
  <2>1. CASE UNCHANGED found /\ pc'[c] # "published"
    BY <2>1
  <2>2. CASE \E i \in Listed : OpenDraft(i) /\ found' = [found EXCEPT ![c] = i]
    <3>1. PICK i \in 1..Len(prs) : prs[i].head = SourceCommit /\ found'[c] = i
      BY <1>t, <2>2 DEF Listed, OpenDraft
    <3>2. Found(i)'
      BY <3>1, FoundStays DEF Found
    <3> QED
      BY <3>1, <3>2
  <2> QED
    BY <1>t, <1>1, <2>1, <2>2 DEF FindPullRequest, Go
<1>2. CASE CreatePullRequest(c)
  <2>1. CASE UNCHANGED found /\ pc'[c] # "published"
    BY <2>1
  <2>2. CASE /\ prs' = Append(prs, [state |-> "open", draft |-> TRUE, head |-> remote.branch])
             /\ remote.branch = SourceCommit /\ found' = [found EXCEPT ![c] = Len(prs) + 1]
    <3>1. PICK k : k = Len(prs) + 1 /\ found'[c] = k
      BY <1>t, <2>2
    <3>2. k \in 1..Len(prs') /\ prs'[k].head = SourceCommit /\ k # 0
      BY <1>t, <2>2, <3>1
    <3>3. Found(k)'
      BY <3>2, EvidenceStays DEF Found
    <3> QED
      BY <3>1, <3>2, <3>3
  <2> QED
    BY <1>t, <1>2, <2>1, <2>2 DEF CreatePullRequest, Go
<1> QED
  BY <1>1, <1>2

LEMMA FoundStep ==
  ASSUME Inv, [Next]_vars
  PROVE  FoundHolds'
<1>t. Len(prs) \in Nat /\ Len(prs') \in Nat /\ Len(prs) <= Len(prs')
  BY RemoteStep DEF Inv, RemoteTypes
<1>1. ASSUME NEW c \in Callers
      PROVE  /\ pc'[c] # "idle" => Publishable'
             /\ pc'[c] = "published" => found'[c] # 0
             /\ found'[c] # 0 => Found(found[c])'
  <2>1. pc'[c] # "idle" => Publishable'
    BY MovesStep, EvidenceStays DEF Located, Moves, Inv, FoundHolds
  <2>2. pc'[c] = "published" => found'[c] # 0
    BY MovesStep, GatewayFinds DEF Located, Moves, Inv, FoundHolds
  <2>3. ASSUME found'[c] = found[c], found[c] # 0 PROVE Found(found[c])'
    <3>1. PICK k : k = found[c] /\ Found(k)
      BY <2>3 DEF Inv, FoundHolds
    <3> QED
      BY <2>3, <3>1, FoundStays
  <2>4. found'[c] # 0 => Found(found[c])'
    BY <2>3, MovesStep, GatewayFinds DEF Located, Moves
  <2> QED
    BY <2>1, <2>2, <2>4
<1>2. found' \in [Callers -> 0..Len(prs')]
  <2>1. \A c \in Callers : found'[c] \in 0..Len(prs')
    BY <1>1, <1>t DEF Found
  <2> QED
    BY <2>1, MovesStep DEF Located
<1>3. ASSUME row'.pr # 0 PROVE Publishable' /\ Found(row.pr)'
  <2>1. PICK k : k = row'.pr /\ Found(k) /\ Publishable
    BY <1>3, RowStep DEF Inv, FoundHolds
  <2> QED
    BY <2>1, FoundStays, EvidenceStays
<1> QED
  BY <1>1, <1>2, <1>3 DEF FoundHolds

LEMMA GatewayStepInv ==
  ASSUME Inv, [Next]_vars
  PROVE  OneGateway'
<1> SUFFICES ASSUME ~overtaken' PROVE OneGateway'
  BY DEF OneGateway
<1>t. prs \in Seq(Requests) /\ Len(prs) \in Nat /\ prs' \in Seq(Requests)
  BY RemoteStep, EvidenceStays DEF Inv, RemoteTypes
<1>1. \A c \in Callers : BeginAttempt(c) => UNCHANGED overtaken \/ \A d \in Callers : pc[d] \notin GatewayStates
  BY DEF BeginAttempt
<1>o. ~overtaken
  BY DEF Next, vars, CallStep, Request, BeginAttempt, LookupBase, PushBase, VerifyBase, LookupBranch, PushBranch,
         VerifyBranch, FindPullRequest, CreatePullRequest, MarkPublished, MarkFailed, CallFails, Die, ClaimExpires,
         Remember, HumanActs, GatewayStep
<1>2. /\ \A c, d \in Callers : pc[c] \in GatewayStates /\ pc[d] \in GatewayStates => c = d
      /\ \A c \in Callers : pc[c] = "create" => prs = <<>>
      /\ Len(prs) <= 1
  BY <1>o DEF Inv, OneGateway
<1>p. pc \in [Callers -> {"idle", "begin"} \cup GatewayStates]
  BY DEF Inv, CallTypes
<1>3. ASSUME NEW c \in Callers, NEW d \in Callers, pc'[c] \in GatewayStates, pc'[d] \in GatewayStates PROVE c = d
  <2>1. ASSUME NEW e \in Callers, BeginAttempt(e), pc'[e] \in GatewayStates
        PROVE  \A x \in Callers : pc'[x] \in GatewayStates => x = e
    <3>1. \A x \in Callers : pc[x] \notin GatewayStates
      BY <1>o, <2>1, <1>p DEF BeginAttempt, Return, Go, GatewayStates
    <3>2. \A x \in Callers : x # e => pc'[x] = pc[x]
      BY <2>1, <1>p DEF BeginAttempt, Return, Go
    <3> QED
      BY <3>1, <3>2
  <2> QED
    BY <1>2, <1>3, <2>1, MovesStep DEF Located, Moves
<1>4. ASSUME NEW e \in Callers, CreatePullRequest(e) PROVE prs = <<>> /\ \A x \in Callers : pc'[x] # "create"
  <2>1. pc[e] = "create" /\ prs = <<>>
    BY <1>2, <1>4 DEF CreatePullRequest
  <2>2. pc'[e] # "create" /\ \A x \in Callers : x # e => pc'[x] = pc[x]
    BY <1>4, <1>p DEF CreatePullRequest, Go
  <2> QED
    BY <1>2, <2>1, <2>2 DEF GatewayStates
<1>5. Len(prs') <= 1
  <2>1. CASE Len(prs') = Len(prs)
    BY <1>2, <2>1
  <2>2. CASE Len(prs') # Len(prs)
    BY <1>4, <1>t, <2>2, RemoteStep
  <2> QED
    BY <2>1, <2>2
<1>6. ASSUME NEW c \in Callers, pc'[c] = "create" PROVE prs' = <<>>
  <2>1. Len(prs') = Len(prs)
    BY <1>4, <1>6, RemoteStep
  <2>2. CASE pc[c] = "create"
    BY <1>2, <1>t, <2>1, <2>2
  <2>3. CASE FindPullRequest(c)
    <3>1. Listed = {}
      BY <1>6, <1>p, <2>3 DEF FindPullRequest, Go
    <3>2. Len(prs) = 0
      BY <1>t, <3>1 DEF Listed
    <3>3. prs = <<>>
      BY <1>t, <3>2
    <3> QED
      BY <1>t, <2>1, <3>2
  <2> QED
    BY <1>6, <2>2, <2>3, MovesStep DEF Located, Moves
<1> QED
  BY <1>3, <1>5, <1>6 DEF OneGateway

LEMMA InvStep == Inv /\ [Next]_vars => Inv'
<1> SUFFICES ASSUME Inv, [Next]_vars PROVE Inv'
  OBVIOUS
<1>1. evidence' = evidence
  BY EvidenceStays
<1>2. evidence' \in AcceptedEvidence
  BY <1>1 DEF Inv
<1> QED
  BY <1>2, RowStep, RemoteStep, MovesStep, CountStep, FoundStep, GatewayStepInv DEF Inv, Located

LEMMA InvHolds == Spec => []Inv
  BY InitInv, InvStep, PTL DEF Spec

-----------------------------------------------------------------------------
(* Theorems.                                                               *)

\* What the row says was published is a pull request from the accepted
\* commit of all tasks, and the only one unless a claim was taken over from
\* a gateway that was still at work.
THEOREM PublishedTheorem == Spec => []PublicationSound
<1>1. Inv => PublicationSound
  <2> SUFFICES ASSUME Inv PROVE PublicationSound
    OBVIOUS
  <2>1. TypeOK
    BY DEF Inv, TypeOK, RowTypes, Rows, CallTypes, CountTypes, FoundHolds
  <2>2. PublishedIsAccepted
    <3> SUFFICES ASSUME row.state = "PUBLISHED" PROVE row.pr \in DOMAIN prs /\ ToSet(prs[row.pr].head) = evidence.tasks
      BY DEF PublishedIsAccepted
    <3>1. row.pr # 0 /\ Publishable /\ Found(row.pr)
      BY DEF Inv, RowTypes, FoundHolds
    <3> QED
      BY <3>1, SourceIsComplete DEF Found, Inv, RemoteTypes
  <2>3. OnePullRequest
    BY DEF Inv, OneGateway, OnePullRequest
  <2> QED
    BY <2>1, <2>2, <2>3 DEF PublicationSound
<1> QED
  BY <1>1, InvHolds, PTL

\* Only the holder of the unexpired claim, or time, writes the row; a
\* PUBLISHED row is never written; a branch that is there is never moved.
THEOREM OwnershipTheorem == Spec => WritesOwned
<1>1. Inv /\ [Next]_vars =>
        /\ row.state = "PUBLISHED" => row' = row
        /\ row.state = "PUBLISHING" /\ ~row.expired /\ row' # row =>
             \/ row' = [row EXCEPT !.expired = TRUE]
             \/ \E c \in Callers : claim[c] = row.token /\ claim'[c] = 0
  <2> SUFFICES ASSUME Inv, [Next]_vars
               PROVE  /\ row.state = "PUBLISHED" => row' = row
                      /\ row.state = "PUBLISHING" /\ ~row.expired /\ row' # row =>
                           \/ row' = [row EXCEPT !.expired = TRUE]
                           \/ \E c \in Callers : claim[c] = row.token /\ claim'[c] = 0
    OBVIOUS
  <2>1. \/ UNCHANGED row
        \/ ClaimExpires
        \/ \E c \in Callers : BeginAttempt(c) \/ MarkPublished(c) \/ MarkFailed(c)
    BY DEF Next, vars, CallStep, Request, LookupBase, PushBase, VerifyBase, LookupBranch, PushBranch,
           VerifyBranch, FindPullRequest, CreatePullRequest, CallFails, Die, Remember, HumanActs, GatewayStep
  <2>2. ASSUME NEW c \in Callers, MarkPublished(c) \/ MarkFailed(c), row' # row
        PROVE  row.state = "PUBLISHING" /\ claim[c] = row.token /\ claim'[c] = 0
    BY <2>2 DEF MarkPublished, MarkFailed, ActiveAttempt, Return, Inv, CallTypes
  <2>3. ASSUME NEW c \in Callers, BeginAttempt(c), row' # row
        PROVE  row.state # "PUBLISHED" /\ (row.state = "PUBLISHING" => row.expired)
    BY <2>3 DEF BeginAttempt
  <2>4. ASSUME ClaimExpires PROVE row.state = "PUBLISHING" /\ row' = [row EXCEPT !.expired = TRUE]
    BY <2>4 DEF ClaimExpires
  <2> QED
    BY <2>1, <2>2, <2>3, <2>4
<1>2. Inv /\ [Next]_vars => \A b \in {"base", "branch"} : remote[b] # NoCommit => remote'[b] = remote[b]
  BY RemoteStep
<1>3. Spec => ClaimExclusive
  BY <1>1, InvHolds, PTL DEF Spec, ClaimExclusive
<1>4. Spec => RemotePreserved
  BY <1>2, InvHolds, PTL DEF Spec, RemotePreserved
<1> QED
  BY <1>3, <1>4 DEF WritesOwned

=============================================================================
