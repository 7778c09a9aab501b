---------------------- MODULE DevelopmentSessionsProofs ----------------------
(***************************************************************************)
(* The proofs of OneSuccessor, SessionsSound and ContinuedBaseHolds, for   *)
(* any plan and any number of calls, sessions and Runs.                    *)
(*                                                                         *)
(* The argument: every call in flight keeps a promise about the rows it    *)
(* read (CallOK), although sessions and Runs move on under it.  That works *)
(* because a session gets its plan once, from the call that created it     *)
(* (Exclusive), because a Run is linked once, by the call that created it, *)
(* and because terminal evidence is written once.  A session never comes   *)
(* back to a Run that was its latest before, so no second continuation     *)
(* starts from there (RunOK).                                              *)
(*                                                                         *)
(* The second part is about the cache of installed packages,               *)
(* DependencyCache, which launches and verifications share.                *)
(***************************************************************************)
EXTENDS DevelopmentSessions, DependencyCache, FiniteSetTheorems, SequenceTheorems, TLAPS

CommitRecs == [run : Nat, task : Tasks \cup Int, work : SUBSET Tasks]
EvidenceRecs == [status : {"NONE", "SUCCEEDED", "CHECKPOINTED", "FAILED"}, onBase : BOOLEAN,
                 commit : CommitRecs]
PackageRecs == [state : PackageStates, run : Nat, commit : CommitRecs]
SessRecs == [state : SessionStates, planned : BOOLEAN, dag : SUBSET Tasks, latest : Nat,
             base : CommitRecs, package : [Tasks -> PackageRecs]]
Ops == {"none", "launch", "continue", "resume", "retry", "recover"}
RunRecs == [how : Ops, session : Nat, from : Nat, recovery : Nat, dag : SUBSET Tasks,
            base : CommitRecs, status : {"RUNNING", "SUCCEEDED", "FAILED"}, sent : BOOLEAN,
            stale : BOOLEAN, evidence : [Tasks -> EvidenceRecs]]
Planning == {"plan", "check", "replan", "record"}
CallRecs == [op : Ops, at : Planning \cup {"idle", "start", "capture", "choose", "attach", "link", "dispatch"},
             session : Nat, source : Nat, new : Nat, dag : SUBSET Tasks, base : CommitRecs]

RowTypes == sess \in Seq(SessRecs) /\ runs \in Seq(RunRecs) /\ calls \in [Clients -> CallRecs]

Counts ==
  /\ head \in 0..MaxHead /\ launches \in 0..MaxLaunches /\ upsets \in 0..MaxUpsets
  /\ Len(sess) <= MaxSessions /\ Len(runs) <= MaxRuns

\* A session: its links, and the evidence behind what it claims.
Backed(s, t) ==
  /\ sess[s].package[t].run \in 1..Len(runs)
  /\ runs[sess[s].package[t].run].session = s
  /\ runs[sess[s].package[t].run].evidence[t].status = "SUCCEEDED"
  /\ t \in sess[s].package[t].commit.work

SessOK(s) ==
  /\ sess[s].planned <=> sess[s].dag # {}
  /\ sess[s].latest <= Len(runs)
  /\ sess[s].latest # 0 => runs[sess[s].latest].session = s
  /\ \A t \in Tasks : sess[s].package[t].state = "SUCCEEDED" => Backed(s, t)
  /\ sess[s].state = "COMPLETED" =>
       \A t \in sess[s].dag : \E r \in 1..Len(runs) :
         runs[r].session = s /\ runs[r].evidence[t].status = "SUCCEEDED"

\* A Run: its evidence, its links, and that its session has moved on from the
\* Run it was continued from.
EvidenceOK(r) ==
  /\ \A t \in Tasks \ runs[r].dag : runs[r].evidence[t] = NoEvidence
  /\ \A t \in Tasks : runs[r].evidence[t].status = "SUCCEEDED" => t \in runs[r].evidence[t].commit.work

RunOK(r) ==
  /\ runs[r].dag # {} /\ runs[r].session <= Len(sess) /\ runs[r].from <= Len(runs)
  /\ EvidenceOK(r)
  /\ runs[r].session # 0 => sess[runs[r].session].planned
  /\ runs[r].how = "continue" /\ runs[r].sent => runs[r].session # 0
  /\ runs[r].how = "recover" /\ runs[r].sent => runs[r].from # 0 /\ runs[runs[r].from].recovery = r
  /\ runs[r].how = "continue" /\ runs[r].session # 0 =>
       /\ runs[r].from # sess[runs[r].session].latest
       /\ runs[r].from # 0 => runs[runs[r].from].session = runs[r].session
       /\ sess[runs[r].session].dag \ runs[r].dag \subseteq runs[r].base.work

\* No continued Run of session s was started from Run f.
Unused(s, f) ==
  \A r \in 1..Len(runs) : runs[r].how = "continue" /\ runs[r].session = s => runs[r].from # f

\* The Run of the call exists, and is not linked yet.
Fresh(k) ==
  /\ runs[k.new].session = 0 /\ ~runs[k.new].sent
  /\ runs[k.new].dag = k.dag /\ runs[k.new].base = k.base

\* What a call in flight relies on.
CallOK(k) ==
  /\ k.session <= Len(sess) /\ k.source <= Len(runs) /\ k.new <= Len(runs)
  /\ k.session # 0 => (sess[k.session].planned <=> k.at \notin Planning)
  /\ k.at = "idle" => k.op = "none" /\ k.session = 0 /\ k.new = 0
  /\ k.at # "idle" => k.op # "none"
  /\ k.at \in Planning => k.op \in {"launch", "recover"}
  /\ k.at \in {"plan", "replan"} => k.session # 0
  /\ k.op = "continue" => k.session # 0
  /\ k.at = "choose" => k.op = "continue"
  /\ k.op = "recover" => k.source # 0
  /\ k.op = "recover" => k.session # 0
  /\ k.at = "link" => k.op = "recover"
  /\ k.at \in Planning \cup {"start"} \/ (k.at = "capture" /\ k.op = "recover") => k.dag # {}
  /\ k.at = "capture" => k.op \in {"continue", "resume", "recover"}
  /\ k.at = "capture" \/ k.op = "resume" =>
       k.source # 0 /\ (k.session # 0 => runs[k.source].session = k.session)
  /\ k.at \in {"attach", "link", "dispatch"} \/ (k.at = "capture" /\ k.op = "resume") =>
       k.new # 0 /\ runs[k.new].how = k.op
  /\ k.at = "attach" \/ (k.at = "capture" /\ k.op = "resume") => Fresh(k)
  /\ k.at \in {"link", "dispatch"} /\ k.op \in {"continue", "recover"} =>
       runs[k.new].session = k.session /\ runs[k.new].from = k.source
  /\ k.at = "dispatch" /\ k.op = "recover" => runs[k.source].recovery = k.new
  /\ k.at \in {"start", "attach"} /\ k.op = "continue" =>
       /\ k.source # 0 => runs[k.source].session = k.session
       /\ Unused(k.session, k.source)
       /\ sess[k.session].dag \ k.dag \subseteq k.base.work

\* Two calls never have the same new Run or continue the same session, and
\* nobody else knows a session before it has its plan.
Exclusive ==
  \A c, d \in Clients : c # d =>
    /\ calls[c].new # 0 => calls[c].new # calls[d].new
    /\ calls[c].op = "continue" /\ calls[d].op = "continue" => calls[c].session # calls[d].session
    /\ calls[c].at \in Planning /\ calls[c].session # 0 => calls[c].session # calls[d].session

\* Two continued Runs of a session start from different Runs.
Distinct ==
  \A r, q \in 1..Len(runs) :
    /\ runs[r].how = "continue" /\ runs[q].how = "continue" /\ runs[r].session # 0
    /\ runs[r].session = runs[q].session /\ runs[r].from = runs[q].from
    => r = q

SessHold == \A s \in 1..Len(sess) : SessOK(s)
RunHold == \A r \in 1..Len(runs) : RunOK(r)
CallHold == \A c \in Clients : CallOK(calls[c])

Inv == RowTypes /\ Counts /\ SessHold /\ RunHold /\ CallHold /\ Exclusive /\ Distinct

-----------------------------------------------------------------------------
(* Rows                                                                    *)

Ats == Planning \cup {"idle", "start", "capture", "choose", "attach", "link", "dispatch"}

LEMMA SessFields ==
  ASSUME RowTypes, NEW s \in 1..Len(sess)
  PROVE  /\ sess[s] \in SessRecs /\ sess[s].planned \in BOOLEAN /\ sess[s].dag \subseteq Tasks
         /\ sess[s].latest \in Nat /\ sess[s].base \in CommitRecs /\ sess[s].state \in SessionStates
         /\ sess[s].package \in [Tasks -> PackageRecs]
<1>1. sess[s] \in SessRecs
  BY DEF RowTypes
<1> QED
  BY <1>1 DEF SessRecs

LEMMA RunFields ==
  ASSUME RowTypes, NEW r \in 1..Len(runs)
  PROVE  /\ runs[r] \in RunRecs /\ runs[r].how \in Ops /\ runs[r].session \in Nat /\ runs[r].from \in Nat
         /\ runs[r].recovery \in Nat /\ runs[r].dag \subseteq Tasks /\ runs[r].base \in CommitRecs
         /\ runs[r].sent \in BOOLEAN /\ runs[r].stale \in BOOLEAN
         /\ runs[r].status \in {"RUNNING", "SUCCEEDED", "FAILED"}
         /\ runs[r].evidence \in [Tasks -> EvidenceRecs]
<1>1. runs[r] \in RunRecs
  BY DEF RowTypes
<1> QED
  BY <1>1 DEF RunRecs

LEMMA CallFields ==
  ASSUME NEW k \in CallRecs
  PROVE  /\ k.op \in Ops /\ k.at \in Ats /\ k.session \in Nat /\ k.source \in Nat /\ k.new \in Nat
         /\ k.dag \subseteq Tasks /\ k.base \in CommitRecs
BY DEF CallRecs, Ats

LEMMA Lens ==
  ASSUME RowTypes
  PROVE  /\ Len(sess) \in Nat /\ Len(runs) \in Nat /\ DOMAIN sess = 1..Len(sess) /\ DOMAIN runs = 1..Len(runs)
         /\ \A c \in Clients : calls[c] \in CallRecs
BY DEF RowTypes

LEMMA Bases ==
  /\ NoCommit \in CommitRecs /\ NoEvidence \in EvidenceRecs /\ NoEvidence.status = "NONE"
  /\ \A h \in Int : Baseline(h) \in CommitRecs
<1>1. \A h \in Int : Baseline(h) \in CommitRecs
  BY DEF Baseline, CommitRecs
<1>2. NoCommit \in CommitRecs
  BY <1>1 DEF NoCommit
<1> QED
  BY <1>1, <1>2 DEF NoEvidence, EvidenceRecs

LEMMA IdleCall ==
  /\ Idle \in CallRecs /\ Idle.op = "none" /\ Idle.at = "idle" /\ Idle.session = 0 /\ Idle.source = 0
  /\ Idle.new = 0 /\ Idle.dag = {} /\ Idle.base = NoCommit
BY Bases DEF Idle, CallRecs, Ops

\* Only row n of a table changes, and is x then.
Sets(q, p, n, x) ==
  /\ Len(p) = Len(q) /\ p[n] = x /\ \A i \in 1..Len(q) : i # n => p[i] = q[i]

LEMMA SetRow ==
  ASSUME NEW S, NEW q \in Seq(S), NEW n \in 1..Len(q), NEW x \in S, NEW p, p = [q EXCEPT ![n] = x]
  PROVE  p \in Seq(S) /\ Sets(q, p, n, x)
BY DEF Sets

\* A row is added at the end.
Adds(q, p, x) ==
  /\ Len(p) = Len(q) + 1 /\ p[Len(q) + 1] = x /\ \A i \in 1..Len(q) : p[i] = q[i]

LEMMA AddRow ==
  ASSUME NEW S, NEW q \in Seq(S), NEW x \in S, NEW p, p = Append(q, x)
  PROVE  p \in Seq(S) /\ Adds(q, p, x)
BY DEF Adds

\* Only the call of client c changes, and is k then.
Moves(c, k) ==
  /\ k \in CallRecs /\ calls' \in [Clients -> CallRecs]
  /\ calls'[c] = k /\ \A d \in Clients : d # c => calls'[d] = calls[d]

LEMMA MoveCall ==
  ASSUME RowTypes, NEW c \in Clients, NEW k \in CallRecs, calls' = [calls EXCEPT ![c] = k]
  PROVE  Moves(c, k)
BY DEF Moves, RowTypes

LEMMA ReturnLemma ==
  ASSUME RowTypes, NEW c \in Clients, Return(c)
  PROVE  Moves(c, Idle)
BY MoveCall, IdleCall DEF Return

LEMMA GoToLemma ==
  ASSUME RowTypes, NEW c \in Clients, NEW at \in Ats, GoTo(c, at)
  PROVE  \E k : /\ Moves(c, k) /\ k.at = at /\ k.op = calls[c].op /\ k.session = calls[c].session
                /\ k.source = calls[c].source /\ k.new = calls[c].new /\ k.dag = calls[c].dag
                /\ k.base = calls[c].base
<1>1. calls[c] \in CallRecs
  BY Lens
<1>k. PICK k : k = [calls[c] EXCEPT !.at = at]
  OBVIOUS
<1>2. /\ k \in CallRecs /\ k.at = at /\ k.op = calls[c].op /\ k.session = calls[c].session
      /\ k.source = calls[c].source /\ k.new = calls[c].new /\ k.dag = calls[c].dag /\ k.base = calls[c].base
  BY <1>1, <1>k DEF CallRecs, Ats
<1>3. calls' = [calls EXCEPT ![c] = k]
  BY <1>k DEF GoTo
<1> QED
  BY <1>2, <1>3, MoveCall

-----------------------------------------------------------------------------
(* What every step leaves alone                                            *)

\* A planned session keeps its plan; its latest Run changes only to one that
\* had no session before.
SessGrow ==
  /\ Len(sess) <= Len(sess')
  /\ \A s \in 1..Len(sess) :
       /\ sess[s].planned => sess'[s].planned /\ sess'[s].dag = sess[s].dag
       /\ \/ sess'[s].latest = sess[s].latest
          \/ sess'[s].latest \in 1..Len(runs) /\ runs[sess'[s].latest].session = 0

\* A Run keeps its plan and base, its terminal evidence and its links.
RunsGrow ==
  /\ Len(runs) <= Len(runs')
  /\ \A r \in 1..Len(runs) :
       /\ runs'[r].how = runs[r].how /\ runs'[r].dag = runs[r].dag /\ runs'[r].base = runs[r].base
       /\ \A t \in Tasks : runs[r].evidence[t].status # "NONE" => runs'[r].evidence[t] = runs[r].evidence[t]
       /\ runs[r].session # 0 => runs'[r].session = runs[r].session /\ runs'[r].from = runs[r].from
       /\ runs[r].recovery # 0 => runs'[r].recovery = runs[r].recovery

LEMMA SessSame ==
  ASSUME RowTypes, UNCHANGED sess
  PROVE  SessGrow
BY Lens DEF SessGrow

LEMMA RunsSame ==
  ASSUME RowTypes, UNCHANGED runs
  PROVE  RunsGrow
BY Lens DEF RunsGrow

LEMMA SessKeep ==
  ASSUME RowTypes, RunsGrow, NEW s \in 1..Len(sess), SessOK(s), Len(runs') \in Nat,
         sess'[s].planned = sess[s].planned, sess'[s].dag = sess[s].dag,
         \/ sess'[s].latest = sess[s].latest
         \/ sess'[s].latest \in 1..Len(runs') /\ runs'[sess'[s].latest].session = s,
         sess'[s].package = sess[s].package, sess'[s].state = "COMPLETED" => sess[s].state = "COMPLETED"
  PROVE  SessOK(s)'
<1>0. sess[s].latest \in Nat /\ Len(runs) \in Nat /\ Len(runs) <= Len(runs') /\ s # 0
  BY SessFields, Lens DEF RunsGrow
<1>1. sess'[s].latest <= Len(runs') /\ (sess'[s].latest # 0 => runs'[sess'[s].latest].session = s)
  <2>1. sess[s].latest # 0 => sess[s].latest \in 1..Len(runs) /\ runs[sess[s].latest].session = s
    BY <1>0 DEF SessOK
  <2> QED
    BY <1>0, <2>1 DEF SessOK, RunsGrow
<1>2. ASSUME NEW t \in Tasks, sess[s].package[t].state = "SUCCEEDED"
      PROVE  Backed(s, t)'
  <2>r. PICK r : r = sess[s].package[t].run
    OBVIOUS
  <2>1. /\ r \in 1..Len(runs) /\ runs[r].session = s /\ runs[r].evidence[t].status = "SUCCEEDED"
        /\ t \in sess[s].package[t].commit.work
    BY <1>2, <2>r DEF SessOK, Backed
  <2>2. r \in 1..Len(runs') /\ runs'[r].session = s /\ runs'[r].evidence[t].status = "SUCCEEDED"
    BY <1>0, <2>1 DEF RunsGrow
  <2> QED
    BY <2>1, <2>2, <2>r DEF Backed
<1>3. ASSUME sess[s].state = "COMPLETED", NEW t \in sess[s].dag
      PROVE  \E r \in 1..Len(runs') : runs'[r].session = s /\ runs'[r].evidence[t].status = "SUCCEEDED"
  <2>1. PICK r \in 1..Len(runs) : runs[r].session = s /\ runs[r].evidence[t].status = "SUCCEEDED"
    BY <1>3 DEF SessOK
  <2>2. t \in Tasks
    BY <1>3, SessFields
  <2>3. r \in 1..Len(runs') /\ runs'[r].session = s /\ runs'[r].evidence[t].status = "SUCCEEDED"
    BY <1>0, <2>1, <2>2 DEF RunsGrow
  <2> QED
    BY <2>3
<1> QED
  BY <1>1, <1>2, <1>3 DEF SessOK

LEMMA RunKeep ==
  ASSUME RowTypes, SessGrow, RunsGrow, NEW r \in 1..Len(runs), RunOK(r), Len(runs') \in Nat, Len(sess') \in Nat,
         runs'[r].session = runs[r].session, runs'[r].from = runs[r].from,
         runs'[r].evidence = runs[r].evidence \/ EvidenceOK(r)',
         runs'[r].sent => \/ runs[r].sent
                          \/ /\ runs[r].how = "continue" => runs[r].session # 0
                             /\ runs[r].how = "recover" => runs[r].from # 0 /\ runs[runs[r].from].recovery = r
  PROVE  RunOK(r)'
<1>0. /\ Len(runs) \in Nat /\ Len(sess) \in Nat /\ Len(runs) <= Len(runs') /\ Len(sess) <= Len(sess')
      /\ runs[r].session \in Nat /\ runs[r].from \in Nat
  BY RunFields, Lens DEF RunsGrow, SessGrow
<1>1. runs[r].session <= Len(sess') /\ runs[r].from <= Len(runs')
  BY <1>0 DEF RunOK
<1>2. runs[r].session # 0 => runs[r].session \in 1..Len(sess)
  BY <1>0 DEF RunOK
<1>3. runs[r].from # 0 => runs[r].from \in 1..Len(runs)
  BY <1>0 DEF RunOK
<1>4. runs[r].session # 0 => /\ sess'[runs[r].session].planned
                             /\ sess'[runs[r].session].dag = sess[runs[r].session].dag
  BY <1>2 DEF RunOK, SessGrow
<1>5. runs[r].how = "recover" /\ runs'[r].sent => runs[r].from # 0 /\ runs'[runs[r].from].recovery = r
  <2>1. ASSUME runs[r].how = "recover", runs'[r].sent
        PROVE  runs[r].from # 0 /\ runs'[runs[r].from].recovery = r
    <3>1. runs[r].from # 0 /\ runs[runs[r].from].recovery = r /\ r # 0
      BY <2>1 DEF RunOK
    <3> QED
      BY <1>3, <3>1 DEF RunsGrow
  <2> QED
    BY <2>1
<1>6. ASSUME runs[r].how = "continue", runs[r].session # 0
      PROVE  /\ runs[r].from # sess'[runs[r].session].latest
             /\ runs[r].from # 0 => runs'[runs[r].from].session = runs[r].session
             /\ sess'[runs[r].session].dag \ runs[r].dag \subseteq runs[r].base.work
  <2>1. /\ runs[r].from # sess[runs[r].session].latest
        /\ runs[r].from # 0 => runs[runs[r].from].session = runs[r].session
        /\ sess[runs[r].session].dag \ runs[r].dag \subseteq runs[r].base.work
    BY <1>6 DEF RunOK
  <2>2. runs[r].from # 0 => runs'[runs[r].from].session = runs[r].session
    BY <1>3, <1>6, <2>1 DEF RunsGrow
  <2>3. runs[r].from # sess'[runs[r].session].latest
    <3>1. \/ sess'[runs[r].session].latest = sess[runs[r].session].latest
          \/ /\ sess'[runs[r].session].latest \in 1..Len(runs)
             /\ runs[sess'[runs[r].session].latest].session = 0
      BY <1>2, <1>6 DEF SessGrow
    <3> QED
      BY <1>0, <1>6, <2>1, <3>1
  <2> QED
    BY <1>4, <1>6, <2>1, <2>2, <2>3
<1>7. runs'[r].how = runs[r].how /\ runs'[r].dag = runs[r].dag /\ runs'[r].base = runs[r].base
  BY DEF RunsGrow
<1>8. EvidenceOK(r)'
  BY <1>7 DEF RunOK, EvidenceOK, NoEvidence, NoCommit, Baseline
<1>9. runs'[r].how = "continue" /\ runs'[r].sent => runs[r].session # 0
  BY <1>7 DEF RunOK
<1> QED
  BY <1>1, <1>4, <1>5, <1>6, <1>7, <1>8, <1>9 DEF RunOK

(* A call that does not move keeps what it relies on, unless its session    *)
(* got its plan, its own Run was linked or sent, or another Run of its      *)
(* session was continued from its source.                                   *)
LEMMA CallKeep ==
  ASSUME RowTypes, SessGrow, RunsGrow, Len(runs') \in Nat, Len(sess') \in Nat, NEW k \in CallRecs, CallOK(k),
         k.session # 0 => (sess'[k.session].planned <=> sess[k.session].planned),
         k.new # 0 => runs'[k.new].session = runs[k.new].session /\ runs'[k.new].sent = runs[k.new].sent,
         k.op = "continue" /\ Unused(k.session, k.source) => Unused(k.session, k.source)'
  PROVE  CallOK(k)'
<1>0. /\ Len(runs) \in Nat /\ Len(sess) \in Nat /\ Len(runs) <= Len(runs') /\ Len(sess) <= Len(sess')
      /\ k.session \in Nat /\ k.source \in Nat /\ k.new \in Nat
  BY CallFields, Lens DEF RunsGrow, SessGrow
<1>1. k.session <= Len(sess') /\ k.source <= Len(runs') /\ k.new <= Len(runs')
  BY <1>0 DEF CallOK
<1>2. /\ k.session # 0 => k.session \in 1..Len(sess)
      /\ k.source # 0 => k.source \in 1..Len(runs)
      /\ k.new # 0 => k.new \in 1..Len(runs)
  BY <1>0 DEF CallOK
<1>3. k.session # 0 => (sess'[k.session].planned <=> k.at \notin Planning)
  BY DEF CallOK
<1>4. k.source # 0 /\ k.session # 0 /\ runs[k.source].session = k.session => runs'[k.source].session = k.session
  BY <1>2 DEF RunsGrow
<1>5. k.new # 0 => /\ runs'[k.new].how = runs[k.new].how /\ runs'[k.new].dag = runs[k.new].dag
                   /\ runs'[k.new].base = runs[k.new].base
                   /\ runs[k.new].session # 0 => runs'[k.new].from = runs[k.new].from
  BY <1>2 DEF RunsGrow
<1>6. k.new # 0 /\ Fresh(k) => Fresh(k)'
  BY <1>5 DEF Fresh
<1>7. k.source # 0 /\ k.new # 0 /\ runs[k.source].recovery = k.new => runs'[k.source].recovery = k.new
  BY <1>2 DEF RunsGrow
<1>8. k.session # 0 /\ k.at \notin Planning => sess'[k.session].dag = sess[k.session].dag
  BY <1>2 DEF CallOK, SessGrow
<1>9. k.at \in {"start", "attach"} => k.at \notin Planning
  BY DEF Planning
<1>10. k.at \in {"start", "attach"} /\ k.op = "continue" =>
         /\ k.source # 0 => runs'[k.source].session = k.session
         /\ Unused(k.session, k.source)'
         /\ sess'[k.session].dag \ k.dag \subseteq k.base.work
  BY <1>4, <1>8, <1>9 DEF CallOK
<1>11. k.at \in {"link", "dispatch"} /\ k.op \in {"continue", "recover"} =>
         runs'[k.new].session = k.session /\ runs'[k.new].from = k.source
  BY <1>5 DEF CallOK
<1>12. k.at = "dispatch" /\ k.op = "recover" => runs'[k.source].recovery = k.new
  BY <1>7 DEF CallOK
<1>13. /\ k.at \in {"attach", "link", "dispatch"} \/ (k.at = "capture" /\ k.op = "resume") =>
            k.new # 0 /\ runs'[k.new].how = k.op
       /\ k.at = "attach" \/ (k.at = "capture" /\ k.op = "resume") => Fresh(k)'
  BY <1>5, <1>6 DEF CallOK
<1>14. k.at = "capture" \/ k.op = "resume" =>
         k.source # 0 /\ (k.session # 0 => runs'[k.source].session = k.session)
  BY <1>4 DEF CallOK
<1> QED
  BY <1>1, <1>3, <1>10, <1>11, <1>12, <1>13, <1>14 DEF CallOK

\* No Run is linked: those that are new have no session.
NoLinks ==
  \A r \in 1..Len(runs') :
    IF r <= Len(runs)
    THEN runs'[r].how = runs[r].how /\ runs'[r].session = runs[r].session /\ runs'[r].from = runs[r].from
    ELSE runs'[r].session = 0

LEMMA UnusedKeep ==
  ASSUME RowTypes, RowTypes', NoLinks, NEW s \in Nat, s # 0, NEW f, Unused(s, f)
  PROVE  Unused(s, f)'
<1> SUFFICES ASSUME NEW r \in 1..Len(runs'), runs'[r].how = "continue", runs'[r].session = s
             PROVE  runs'[r].from # f
  BY DEF Unused
<1>0. Len(runs) \in Nat /\ Len(runs') \in Nat
  BY Lens DEF RowTypes
<1>1. r \in 1..Len(runs)
  BY <1>0 DEF NoLinks
<1> QED
  BY <1>0, <1>1 DEF NoLinks, Unused

\* Sessions change in their state only, and none is completed.
SessQuiet ==
  /\ Len(sess') = Len(sess)
  /\ \A s \in 1..Len(sess) :
       /\ sess'[s].planned = sess[s].planned /\ sess'[s].dag = sess[s].dag /\ sess'[s].latest = sess[s].latest
       /\ sess'[s].package = sess[s].package
       /\ sess'[s].state = "COMPLETED" => sess[s].state = "COMPLETED"

LEMMA QuietStep ==
  ASSUME RowTypes, SessHold, RunsGrow, RowTypes', SessQuiet
  PROVE  SessGrow /\ SessHold'
<1>1. Len(runs') \in Nat /\ Len(sess') = Len(sess) /\ Len(sess) \in Nat
  BY Lens DEF SessQuiet, RowTypes
<1>2. SessGrow
  BY <1>1 DEF SessGrow, SessQuiet
<1>3. ASSUME NEW s \in 1..Len(sess') PROVE SessOK(s)'
  <2>1. s \in 1..Len(sess) /\ SessOK(s)
    BY <1>1 DEF SessHold
  <2> QED
    BY <1>1, <2>1, SessKeep DEF SessQuiet
<1> QED
  BY <1>2, <1>3 DEF SessHold

LEMMA QuietSame ==
  ASSUME UNCHANGED sess
  PROVE  SessQuiet
BY DEF SessQuiet

\* Runs keep their rows.
LEMMA RunsQuiet ==
  ASSUME RowTypes, RowTypes', RunHold, Distinct, SessGrow, UNCHANGED runs
  PROVE  RunsGrow /\ NoLinks /\ RunHold' /\ Distinct'
<1>1. RunsGrow
  BY RunsSame
<1>2. Len(runs') \in Nat /\ Len(sess') \in Nat
  BY DEF RowTypes
<1>3. RunHold'
  BY <1>1, <1>2, RunKeep DEF RunHold
<1>4. NoLinks
  BY Lens DEF NoLinks
<1> QED
  BY <1>1, <1>3, <1>4 DEF Distinct

(* The calls, after client c moved to k.                                    *)
LEMMA CallStep1 ==
  ASSUME RowTypes, RowTypes', CallHold, SessGrow, RunsGrow, NEW c \in Clients, NEW k, Moves(c, k), CallOK(k)',
         \A d \in Clients \ {c} :
           /\ calls[d].session # 0 => (sess'[calls[d].session].planned <=> sess[calls[d].session].planned)
           /\ calls[d].new # 0 => /\ runs'[calls[d].new].session = runs[calls[d].new].session
                                  /\ runs'[calls[d].new].sent = runs[calls[d].new].sent
           /\ calls[d].op = "continue" /\ Unused(calls[d].session, calls[d].source)
                => Unused(calls[d].session, calls[d].source)'
  PROVE  CallHold'
<1>1. Len(runs') \in Nat /\ Len(sess') \in Nat
  BY DEF RowTypes
<1>2. ASSUME NEW d \in Clients \ {c} PROVE CallOK(calls[d])'
  <2>x. PICK x : x = calls[d]
    OBVIOUS
  <2>1. x \in CallRecs /\ CallOK(x) /\ calls'[d] = x
    BY <1>2, <2>x, Lens DEF CallHold, Moves
  <2>2. CallOK(x)'
    BY <1>1, <1>2, <2>1, <2>x, CallKeep
  <2> QED
    BY <2>1, <2>2 DEF CallOK, Fresh, Unused
<1>3. CallOK(calls[c])'
  BY DEF Moves, CallOK, Fresh, Unused
<1> QED
  BY <1>2, <1>3 DEF CallHold

(* The same where neither plans nor links are made.                         *)
LEMMA CallStep2 ==
  ASSUME RowTypes, RowTypes', CallHold, SessQuiet, SessGrow, RunsGrow, NoLinks, NEW c \in Clients, NEW k,
         Moves(c, k), CallOK(k)',
         \A d \in Clients \ {c} : calls[d].new # 0 => runs'[calls[d].new].sent = runs[calls[d].new].sent
  PROVE  CallHold'
<1>1. ASSUME NEW d \in Clients \ {c}
      PROVE  /\ calls[d].session # 0 => (sess'[calls[d].session].planned <=> sess[calls[d].session].planned)
             /\ calls[d].new # 0 => /\ runs'[calls[d].new].session = runs[calls[d].new].session
                                    /\ runs'[calls[d].new].sent = runs[calls[d].new].sent
             /\ calls[d].op = "continue" /\ Unused(calls[d].session, calls[d].source)
                  => Unused(calls[d].session, calls[d].source)'
  <2>1. /\ calls[d].session \in Nat /\ calls[d].new \in Nat /\ CallOK(calls[d])
        /\ Len(runs) \in Nat /\ Len(sess) \in Nat /\ Len(runs) <= Len(runs') /\ Len(runs') \in Nat
    BY <1>1, Lens, CallFields DEF CallHold, RunsGrow, RowTypes
  <2>2. /\ calls[d].session # 0 => calls[d].session \in 1..Len(sess)
        /\ calls[d].new # 0 => calls[d].new \in 1..Len(runs) /\ calls[d].new \in 1..Len(runs') /\ calls[d].new <= Len(runs)
    BY <2>1 DEF CallOK
  <2>3. calls[d].op = "continue" => calls[d].session # 0
    BY <2>1 DEF CallOK
  <2>4. calls[d].op = "continue" /\ Unused(calls[d].session, calls[d].source)
                  => Unused(calls[d].session, calls[d].source)'
    <3>1. ASSUME calls[d].op = "continue", Unused(calls[d].session, calls[d].source)
          PROVE  \A r \in 1..Len(runs') : runs'[r].how = "continue" /\ runs'[r].session = calls[d].session
                                            => runs'[r].from # calls[d].source
      <4>1. PICK s, f : s = calls[d].session /\ f = calls[d].source
        OBVIOUS
      <4>2. Unused(s, f)'
        BY <2>1, <2>3, <3>1, <4>1, UnusedKeep
      <4> QED
        BY <4>1, <4>2 DEF Unused
    <3>2. PICK s, f : s = calls[d].session /\ f = calls[d].source /\ calls'[d] = calls[d]
      BY <1>1 DEF Moves
    <3> QED
      BY <3>1, <3>2 DEF Unused
  <2> QED
    BY <1>1, <2>2, <2>4 DEF SessQuiet, NoLinks
<1> QED
  BY <1>1, CallStep1

LEMMA ExclusiveStep ==
  ASSUME Exclusive, NEW c \in Clients, NEW k, Moves(c, k),
         \A d \in Clients \ {c} :
           /\ k.new # 0 => k.new # calls[d].new
           /\ k.op = "continue" /\ calls[d].op = "continue" => k.session # calls[d].session
           /\ k.at \in Planning /\ k.session # 0 => k.session # calls[d].session
           /\ calls[d].at \in Planning /\ calls[d].session # 0 => k.session # calls[d].session
  PROVE  Exclusive'
<1> SUFFICES ASSUME NEW e \in Clients, NEW d \in Clients, e # d
             PROVE  /\ calls'[e].new # 0 => calls'[e].new # calls'[d].new
                    /\ calls'[e].op = "continue" /\ calls'[d].op = "continue"
                         => calls'[e].session # calls'[d].session
                    /\ calls'[e].at \in Planning /\ calls'[e].session # 0
                         => calls'[e].session # calls'[d].session
  BY DEF Exclusive, Planning
<1>1. CASE e = c
  BY <1>1 DEF Moves
<1>2. CASE d = c
  BY <1>2 DEF Moves
<1>3. CASE e # c /\ d # c
  BY <1>3 DEF Moves, Exclusive
<1> QED
  BY <1>1, <1>2, <1>3

LEMMA ExclusiveGoTo ==
  ASSUME Exclusive, NEW c \in Clients, NEW k, Moves(c, k), k.op = calls[c].op, k.session = calls[c].session,
         k.new = calls[c].new, k.at \in Planning => calls[c].at \in Planning
  PROVE  Exclusive'
BY ExclusiveStep DEF Exclusive

LEMMA ExclusiveIdle ==
  ASSUME Exclusive, NEW c \in Clients, Moves(c, Idle)
  PROVE  Exclusive'
BY ExclusiveStep, IdleCall DEF Planning

LEMMA IdleOK ==
  ASSUME RowTypes'
  PROVE  CallOK(Idle)'
<1>1. Len(sess') \in Nat /\ Len(runs') \in Nat
  BY DEF RowTypes
<1> QED
  BY <1>1, IdleCall DEF CallOK, Planning

-----------------------------------------------------------------------------
(* Steps that change no Run                                                *)

LEMMA QuietCall ==
  ASSUME Inv, NEW c \in Clients, NEW k, Moves(c, k), CallOK(k)', Exclusive', Counts',
         sess' \in Seq(SessRecs), SessQuiet, UNCHANGED runs
  PROVE  Inv'
<1>0. RowTypes /\ SessHold /\ RunHold /\ CallHold /\ Distinct
  BY DEF Inv
<1>1. RowTypes'
  BY <1>0 DEF RowTypes, Moves
<1>2. RunsGrow
  BY <1>0, RunsSame
<1>3. SessGrow /\ SessHold'
  BY <1>0, <1>1, <1>2, QuietStep
<1>4. NoLinks /\ RunHold' /\ Distinct'
  BY <1>0, <1>1, <1>3, RunsQuiet
<1>5. CallHold'
  BY <1>0, <1>1, <1>2, <1>3, <1>4, CallStep2
<1> QED
  BY <1>1, <1>3, <1>4, <1>5 DEF Inv

LEMMA CountsSame ==
  ASSUME Inv, UNCHANGED <<head, launches, upsets>>, Len(sess') = Len(sess), Len(runs') = Len(runs)
  PROVE  Counts'
BY DEF Inv, Counts

LEMMA ReturnCall ==
  ASSUME Inv, NEW c \in Clients, Return(c), Counts', sess' \in Seq(SessRecs), SessQuiet, UNCHANGED runs
  PROVE  Inv'
<1>1. RowTypes /\ Exclusive
  BY DEF Inv
<1>2. Moves(c, Idle)
  BY <1>1, ReturnLemma
<1>3. RowTypes'
  BY <1>1, <1>2 DEF RowTypes, Moves
<1> QED
  BY <1>1, <1>2, <1>3, ExclusiveIdle, IdleOK, QuietCall

LEMMA MarkLemma ==
  ASSUME RowTypes, NEW s \in 1..Len(sess), NEW b \in BOOLEAN, MarkPlanningProblem(s, b)
  PROVE  sess' \in Seq(SessRecs) /\ SessQuiet /\ Len(sess') = Len(sess)
<1>v. PICK v \in {"PAUSED_PLANNING", "PLANNING_FAILED"} : sess' = [sess EXCEPT ![s].state = v]
  BY DEF MarkPlanningProblem
<1>x. PICK x : x = [sess[s] EXCEPT !.state = v]
  OBVIOUS
<1>1. /\ x \in SessRecs /\ x.state # "COMPLETED" /\ x.planned = sess[s].planned /\ x.dag = sess[s].dag
      /\ x.latest = sess[s].latest /\ x.package = sess[s].package
  BY <1>v, <1>x, SessFields DEF SessRecs, SessionStates
<1>2. sess' = [sess EXCEPT ![s] = x] /\ sess \in Seq(SessRecs)
  BY <1>v, <1>x DEF RowTypes
<1>3. sess' \in Seq(SessRecs) /\ Sets(sess, sess', s, x)
  BY <1>1, <1>2, SetRow
<1> QED
  BY <1>1, <1>3 DEF Sets, SessQuiet

(* A call goes on between two steps of the planning.                        *)
LEMMA GoPlanning ==
  ASSUME Inv, NEW c \in Clients, NEW at, GoTo(c, at), calls[c].at \in Planning,
         at \in Planning \/ (at = "start" /\ calls[c].session = 0),
         at \in {"plan", "replan"} => calls[c].session # 0,
         Counts', sess' \in Seq(SessRecs), SessQuiet, UNCHANGED runs
  PROVE  Inv'
<1>0. RowTypes /\ Exclusive /\ CallOK(calls[c]) /\ at \in Ats /\ at # "idle"
  BY DEF Inv, CallHold, Ats, Planning
<1>1. PICK k : /\ Moves(c, k) /\ k.at = at /\ k.op = calls[c].op /\ k.session = calls[c].session
               /\ k.source = calls[c].source /\ k.new = calls[c].new /\ k.dag = calls[c].dag
               /\ k.base = calls[c].base
  BY <1>0, GoToLemma
<1>2. Exclusive'
  BY <1>0, <1>1, ExclusiveGoTo
<1>3. k.session # 0 => k.session \in 1..Len(sess) /\ (sess'[k.session].planned <=> sess[k.session].planned)
  <2>1. k.session \in Nat /\ Len(sess) \in Nat /\ calls[c].session <= Len(sess)
    BY <1>0, <1>1, Lens, CallFields DEF Moves, CallOK
  <2> QED
    BY <1>1, <2>1 DEF SessQuiet
<1>4. Len(sess') = Len(sess)
  BY DEF SessQuiet
<1>5. at \notin {"idle", "capture", "choose", "attach", "link", "dispatch"} /\ (at \in Planning => at # "start")
  BY DEF Planning
<1>6. calls[c].at # "idle" /\ calls[c].at # "capture"
  BY DEF Planning
<1>7. k.op = "continue" => k.at # "start"
  BY <1>0, <1>1, <1>5 DEF CallOK
<1>8. CallOK(k)'
  BY <1>0, <1>1, <1>3, <1>4, <1>5, <1>6, <1>7 DEF CallOK
<1> QED
  BY <1>1, <1>2, <1>8, QuietCall

LEMMA PlanningSession ==
  ASSUME Inv, NEW c \in Clients, calls[c].session # 0
  PROVE  calls[c].session \in 1..Len(sess)
<1>1. calls[c].session \in Nat /\ Len(sess) \in Nat /\ calls[c].session <= Len(sess)
  BY Lens, CallFields DEF Inv, CallHold, CallOK
<1> QED
  BY <1>1

LEMMA SessTyped ==
  ASSUME Inv, UNCHANGED sess
  PROVE  sess' \in Seq(SessRecs) /\ SessQuiet /\ Len(sess') = Len(sess)
BY QuietSame DEF Inv, RowTypes

(* A call in the planning has a session of its own unless it came from a    *)
(* repository workflow; the code never marks the session of such a call.    *)
LEMMA PlanStep ==
  ASSUME Inv, NEW c \in Clients, Plan(c) \/ CheckPlan(c) \/ ReplanForBudget(c)
  PROVE  Inv'
<1>0. UNCHANGED <<head, runs, launches, upsets>> /\ RowTypes /\ calls[c].at \in {"plan", "check", "replan"}
  BY DEF Plan, CheckPlan, ReplanForBudget, Inv
<1>1. \/ UNCHANGED sess
      \/ calls[c].session # 0 /\ \E b \in BOOLEAN : MarkPlanningProblem(calls[c].session, b)
  BY DEF Plan, CheckPlan, ReplanForBudget, Inv, CallHold, CallOK
<1>2. sess' \in Seq(SessRecs) /\ SessQuiet /\ Len(sess') = Len(sess)
  BY <1>0, <1>1, MarkLemma, PlanningSession, SessTyped
<1>3. Counts'
  BY <1>0, <1>2, CountsSame
<1>4. Return(c) \/ \E at \in Planning : GoTo(c, at) /\ (at \in {"plan", "replan"} => calls[c].session # 0)
  BY DEF Plan, CheckPlan, ReplanForBudget, Planning
<1>5. calls[c].at \in Planning
  BY <1>0 DEF Planning
<1> QED
  BY <1>0, <1>2, <1>3, <1>4, <1>5, ReturnCall, GoPlanning

-----------------------------------------------------------------------------
(* Steps that change a session                                             *)

LEMMA SessChange ==
  ASSUME Inv, NEW c \in Clients, NEW k, Moves(c, k), CallOK(k)', Exclusive', Counts',
         sess' \in Seq(SessRecs), SessGrow, SessHold', UNCHANGED runs,
         \A d \in Clients \ {c} : calls[d].session # 0 =>
           (sess'[calls[d].session].planned <=> sess[calls[d].session].planned)
  PROVE  Inv'
<1>0. RowTypes /\ RunHold /\ CallHold /\ Distinct
  BY DEF Inv
<1>1. RowTypes'
  BY <1>0 DEF RowTypes, Moves
<1>2. RunsGrow /\ RunHold' /\ Distinct'
  BY <1>0, <1>1, RunsQuiet
<1>3. ASSUME NEW d \in Clients \ {c}
      PROVE  /\ calls[d].session # 0 => (sess'[calls[d].session].planned <=> sess[calls[d].session].planned)
             /\ calls[d].new # 0 => /\ runs'[calls[d].new].session = runs[calls[d].new].session
                                    /\ runs'[calls[d].new].sent = runs[calls[d].new].sent
             /\ calls[d].op = "continue" /\ Unused(calls[d].session, calls[d].source)
                  => Unused(calls[d].session, calls[d].source)'
  <2>1. calls'[d] = calls[d]
    BY <1>3 DEF Moves
  <2> QED
    BY <1>3, <2>1 DEF Unused
<1>4. CallHold'
  BY <1>0, <1>1, <1>2, <1>3, CallStep1
<1> QED
  BY <1>1, <1>2, <1>4 DEF Inv

(* One row of the sessions changes; its plan stays, or is made by the only  *)
(* call that knows it.                                                      *)
LEMMA RowChange ==
  ASSUME Inv, NEW c \in Clients, NEW k, Moves(c, k), CallOK(k)', Exclusive', Counts', UNCHANGED runs,
         NEW s \in 1..Len(sess), NEW x \in SessRecs, sess' = [sess EXCEPT ![s] = x], SessOK(s)',
         x.latest = sess[s].latest, sess[s].planned => x.planned /\ x.dag = sess[s].dag,
         (x.planned <=> sess[s].planned) \/ \A d \in Clients \ {c} : calls[d].session # s
  PROVE  Inv'
<1>0. RowTypes /\ SessHold /\ sess \in Seq(SessRecs) /\ RunsGrow
  BY RunsSame DEF Inv, RowTypes
<1>1. sess' \in Seq(SessRecs) /\ Sets(sess, sess', s, x)
  BY <1>0, SetRow
<1>2. SessGrow
  BY <1>1, Lens, <1>0 DEF Sets, SessGrow
<1>3. Len(runs') \in Nat /\ Len(sess') = Len(sess)
  BY <1>0, <1>1, Lens DEF Sets
<1>4. ASSUME NEW i \in 1..Len(sess') PROVE SessOK(i)'
  <2>1. CASE i = s
    BY <2>1 DEF SessOK, Backed
  <2>2. CASE i # s
    <3>1. i \in 1..Len(sess) /\ SessOK(i) /\ sess'[i] = sess[i]
      BY <1>0, <1>1, <1>3, <2>2 DEF SessHold, Sets
    <3> QED
      BY <1>0, <1>3, <3>1, SessKeep
  <2> QED
    BY <2>1, <2>2
<1>5. ASSUME NEW d \in Clients \ {c}, calls[d].session # 0
      PROVE  sess'[calls[d].session].planned <=> sess[calls[d].session].planned
  <2>1. calls[d].session \in 1..Len(sess)
    BY <1>5, PlanningSession
  <2> QED
    BY <1>1, <1>5, <2>1 DEF Sets
<1> QED
  BY <1>1, <1>2, <1>4, <1>5, SessChange DEF SessHold

(* A session is added, known to call c alone.                               *)
LEMMA AddSession ==
  ASSUME Inv, NEW c \in Clients, NEW k, Moves(c, k), NEW b \in CommitRecs,
         sess' = Append(sess, NewSession(b)), Len(sess) < MaxSessions,
         head' = head, upsets' = upsets, launches' \in 0..MaxLaunches, UNCHANGED runs,
         k.at \in {"plan", "record"}, k.op \in {"launch", "recover"}, k.session = Len(sess) + 1,
         k.new = 0, k.dag # {}, k.source <= Len(runs), k.op = "recover" => k.source # 0
  PROVE  Inv'
<1>0. RowTypes /\ SessHold /\ CallHold /\ Exclusive /\ sess \in Seq(SessRecs) /\ RunsGrow /\ Counts
  BY RunsSame DEF Inv, RowTypes
<1>1. Len(sess) \in Nat /\ Len(runs) \in Nat /\ Len(runs') = Len(runs)
  BY <1>0, Lens
<1>x. PICK x : x = NewSession(b)
  OBVIOUS
<1>2. /\ x \in SessRecs /\ x.planned = FALSE /\ x.dag = {} /\ x.latest = 0 /\ x.state = "PLANNING"
      /\ \A t \in Tasks : x.package[t].state = "PENDING"
  <2>1. [t \in Tasks |-> [state |-> "PENDING", run |-> 0, commit |-> NoCommit]] \in [Tasks -> PackageRecs]
    BY Bases DEF PackageRecs, PackageStates
  <2> QED
    BY <1>x, <2>1 DEF NewSession, SessRecs, SessionStates
<1>3. sess' \in Seq(SessRecs) /\ Adds(sess, sess', x)
  BY <1>0, <1>2, <1>x, AddRow
<1>4. SessGrow
  BY <1>1, <1>3 DEF SessGrow, Adds
<1>5. ASSUME NEW i \in 1..Len(sess') PROVE SessOK(i)'
  <2>1. CASE i = Len(sess) + 1
    <3>1. sess'[i] = x
      BY <1>3, <2>1 DEF Adds
    <3> QED
      BY <1>1, <1>2, <3>1 DEF SessOK
  <2>2. CASE i # Len(sess) + 1
    <3>1. i \in 1..Len(sess) /\ SessOK(i) /\ sess'[i] = sess[i]
      BY <1>0, <1>1, <1>3, <2>2 DEF SessHold, Adds
    <3> QED
      BY <1>0, <1>1, <3>1, SessKeep
  <2> QED
    BY <2>1, <2>2
<1>6. ASSUME NEW d \in Clients \ {c}
      PROVE  /\ calls[d].session # Len(sess) + 1
             /\ calls[d].session # 0 => (sess'[calls[d].session].planned <=> sess[calls[d].session].planned)
  <2>1. calls[d].session # 0 => calls[d].session \in 1..Len(sess)
    BY <1>6, PlanningSession
  <2> QED
    BY <1>1, <1>3, <1>6, <2>1 DEF Adds
<1>7. Exclusive'
  BY <1>0, <1>6, ExclusiveStep
<1>8. CallOK(k)'
  <2>1. k.session <= Len(sess') /\ ~sess'[k.session].planned /\ k.source <= Len(runs') /\ k.new <= Len(runs')
    BY <1>1, <1>2, <1>3 DEF Adds
  <2>2. k.at \in Planning /\ k.session # 0
    BY <1>1 DEF Planning
  <2> QED
    BY <2>1, <2>2 DEF CallOK
<1>9. Counts'
  BY <1>0, <1>1, <1>3, BoundsAssumption DEF Counts, Adds
<1> QED
  BY <1>3, <1>4, <1>5, <1>6, <1>7, <1>8, <1>9, SessChange DEF SessHold

LEMMA RecordStep ==
  ASSUME Inv, NEW c \in Clients, RecordPlan(c)
  PROVE  Inv'
<1>0. /\ UNCHANGED <<head, runs, launches, upsets>> /\ RowTypes /\ calls[c].at = "record"
      /\ Exclusive /\ CallOK(calls[c]) /\ calls[c].at \in Planning
  BY DEF RecordPlan, Inv, CallHold, Planning
<1>1. CASE calls[c].session = 0 /\ GoTo(c, "start") /\ UNCHANGED sess
  BY <1>0, <1>1, GoPlanning, SessTyped, CountsSame
<1>2. CASE calls[c].session # 0 /\ MarkPlanningProblem(calls[c].session, FALSE) /\ Return(c)
  BY <1>0, <1>2, MarkLemma, PlanningSession, CountsSame, ReturnCall
<1>3. CASE calls[c].session # 0 /\ sess' = StorePlan(calls[c].session, calls[c].dag) /\ GoTo(c, "start")
  <2>s. PICK s \in 1..Len(sess) : s = calls[c].session
    BY <1>3, PlanningSession
  <2>x. PICK x : x = [sess[s] EXCEPT !.state = "READY_TO_RUN", !.planned = TRUE, !.dag = calls[c].dag]
    OBVIOUS
  <2>0. calls[c].dag # {} /\ calls[c].dag \subseteq Tasks /\ calls[c].op \in {"launch", "recover"} /\ ~sess[s].planned
    BY <1>0, <1>3, <2>s, Lens, CallFields DEF CallOK
  <2>1. /\ x \in SessRecs /\ x.state = "READY_TO_RUN" /\ x.planned = TRUE /\ x.dag = calls[c].dag
        /\ x.latest = sess[s].latest /\ x.package = sess[s].package
    BY <1>0, <2>x, <2>0, SessFields DEF SessRecs, SessionStates
  <2>2. sess' = [sess EXCEPT ![s] = x] /\ sess \in Seq(SessRecs)
    BY <1>0, <1>3, <2>x, <2>s DEF StorePlan, RowTypes
  <2>3. Sets(sess, sess', s, x)
    BY <2>1, <2>2, SetRow
  <2>4. SessOK(s) /\ Len(sess') = Len(sess)
    BY <2>3 DEF Inv, SessHold, Sets
  <2>5. SessOK(s)'
    <3>1. sess'[s] = x
      BY <2>3 DEF Sets
    <3>2. \A t \in Tasks : sess'[s].package[t].state = "SUCCEEDED" => Backed(s, t)'
      BY <1>0, <2>1, <2>4, <3>1 DEF SessOK, Backed
    <3> QED
      BY <1>0, <2>0, <2>1, <2>4, <3>1, <3>2 DEF SessOK
  <2>6. PICK k : /\ Moves(c, k) /\ k.at = "start" /\ k.op = calls[c].op /\ k.session = calls[c].session
                 /\ k.source = calls[c].source /\ k.new = calls[c].new /\ k.dag = calls[c].dag
                 /\ k.base = calls[c].base
    BY <1>0, <1>3, GoToLemma DEF Ats
  <2>7. Exclusive'
    BY <1>0, <2>6, ExclusiveGoTo
  <2>8. sess'[k.session].planned /\ k.at \notin Planning
    BY <2>1, <2>3, <2>6, <2>s DEF Sets, Planning
  <2>9. CallOK(k)'
    BY <1>0, <2>0, <2>4, <2>6, <2>8 DEF CallOK
  <2>10. \A d \in Clients \ {c} : calls[d].session # s
    BY <1>0, <1>3, <2>s DEF Exclusive
  <2>11. Counts'
    BY <1>0, <2>4, CountsSame
  <2> QED
    BY <1>0, <2>0, <2>1, <2>2, <2>5, <2>6, <2>7, <2>9, <2>10, <2>11, RowChange
<1> QED
  BY <1>1, <1>2, <1>3 DEF RecordPlan

-----------------------------------------------------------------------------
(* Requests                                                                *)

(* Nobody plans for a session that has its plan.                            *)
LEMMA PlannedFree ==
  ASSUME Inv, NEW d \in Clients, calls[d].at \in Planning, calls[d].session # 0
  PROVE  ~sess[calls[d].session].planned
BY DEF Inv, CallHold, CallOK

\* A call that begins.
Call(op, at, s, source, dag, base) ==
  [op |-> op, at |-> at, session |-> s, source |-> source, new |-> 0, dag |-> dag, base |-> base]

LEMMA NewCall ==
  ASSUME NEW op \in Ops, NEW at \in Ats, NEW s \in Nat, NEW source \in Nat, NEW dag \in SUBSET Tasks,
         NEW base \in CommitRecs, NEW k, k = Call(op, at, s, source, dag, base)
  PROVE  /\ k \in CallRecs /\ k.op = op /\ k.at = at /\ k.session = s /\ k.source = source /\ k.new = 0
         /\ k.dag = dag /\ k.base = base
BY DEF Call, CallRecs, Ats

LEMMA BeginCall ==
  ASSUME Inv, NEW c \in Clients, NEW k, Moves(c, k), CallOK(k), k.new = 0,
         k.at \in Planning => k.session = 0, k.session # 0 => sess[k.session].planned,
         k.op = "continue" => ~ContinuationLocked(k.session),
         head' = head, upsets' = upsets, launches' \in 0..MaxLaunches, UNCHANGED <<sess, runs>>
  PROVE  Inv'
<1>1. CallOK(k)'
  BY DEF CallOK, Fresh, Unused
<1>2. Exclusive'
  <2>1. ASSUME NEW d \in Clients \ {c}
        PROVE  /\ k.new # 0 => k.new # calls[d].new
               /\ k.op = "continue" /\ calls[d].op = "continue" => k.session # calls[d].session
               /\ k.at \in Planning /\ k.session # 0 => k.session # calls[d].session
               /\ calls[d].at \in Planning /\ calls[d].session # 0 => k.session # calls[d].session
    BY PlannedFree DEF ContinuationLocked
  <2> QED
    BY <2>1, ExclusiveStep DEF Inv
<1>3. Counts'
  BY DEF Inv, Counts
<1> QED
  BY <1>1, <1>2, <1>3, QuietCall, SessTyped

LEMMA LaunchStep ==
  ASSUME Inv, NEW c \in Clients, LaunchBegin(c)
  PROVE  Inv'
<1>0. /\ RowTypes /\ head \in Int /\ launches' \in 0..MaxLaunches /\ UNCHANGED <<head, runs, upsets>>
      /\ Len(sess) \in Nat /\ Len(runs) \in Nat
  BY BoundsAssumption, Lens DEF LaunchBegin, Inv, Counts
<1>b. Baseline(head) \in CommitRecs
  BY <1>0, Bases
<1>1. CASE /\ calls' = [calls EXCEPT ![c] = [Idle EXCEPT !.op = "launch", !.at = "check",
                                           !.dag = Tasks, !.base = Baseline(head)]]
           /\ UNCHANGED sess
  <2>k. PICK k : k = [Idle EXCEPT !.op = "launch", !.at = "check", !.dag = Tasks, !.base = Baseline(head)]
    OBVIOUS
  <2>1. /\ k \in CallRecs /\ k.op = "launch" /\ k.at = "check" /\ k.session = 0 /\ k.source = 0 /\ k.new = 0
        /\ k.dag = Tasks
    <3>1. k \in CallRecs
      BY <2>k, <1>b, IdleCall DEF CallRecs, Ops, Planning
    <3> QED
      BY <2>k, <3>1 DEF Idle
  <2>2. Moves(c, k)
    <3>1. calls' = [calls EXCEPT ![c] = k]
      BY <1>1, <2>k
    <3> QED
      BY <1>0, <2>1, <3>1, MoveCall
  <2>3. CallOK(k)
    BY <1>0, <2>1, TasksAssumption DEF CallOK, Planning
  <2> QED
    BY <1>0, <1>1, <2>1, <2>2, <2>3, BeginCall
<1>2. CASE /\ Len(sess) < MaxSessions
           /\ sess' = Append(sess, NewSession(Baseline(head)))
           /\ calls' = [calls EXCEPT ![c] = [Idle EXCEPT !.op = "launch", !.at = "plan",
                                           !.session = Len(sess) + 1, !.dag = Tasks,
                                           !.base = Baseline(head)]]
  <2>k. PICK k : k = [Idle EXCEPT !.op = "launch", !.at = "plan", !.session = Len(sess) + 1, !.dag = Tasks,
                                  !.base = Baseline(head)]
    OBVIOUS
  <2>1. /\ k \in CallRecs /\ k.op = "launch" /\ k.at = "plan" /\ k.session = Len(sess) + 1 /\ k.source = 0
        /\ k.new = 0 /\ k.dag = Tasks
    <3>n. PICK n \in Nat : n = Len(sess) + 1
      BY <1>0
    <3>0. k = [Idle EXCEPT !.op = "launch", !.at = "plan", !.session = n, !.dag = Tasks, !.base = Baseline(head)]
      BY <2>k, <3>n
    <3>1. k \in CallRecs
      BY <3>0, <1>b, IdleCall DEF CallRecs, Ops, Planning
    <3> QED
      BY <2>k, <3>1 DEF Idle
  <2>2. Moves(c, k)
    <3>1. calls' = [calls EXCEPT ![c] = k]
      BY <1>2, <2>k
    <3> QED
      BY <1>0, <2>1, <3>1, MoveCall
  <2> QED
    BY <1>0, <1>b, <1>2, <2>1, <2>2, AddSession, TasksAssumption
<1> QED
  BY <1>1, <1>2 DEF LaunchBegin

LEMMA ContinueStep ==
  ASSUME Inv, NEW c \in Clients, NEW s \in SessionIds, ContinueBegin(c, s)
  PROVE  Inv'
<1>0. /\ RowTypes /\ Len(sess) \in Nat /\ Len(runs) \in Nat /\ s \in 1..Len(sess) /\ SessOK(s)
      /\ launches \in 0..MaxLaunches
  BY Lens DEF Inv, SessHold, SessionIds, Counts
<1>1. sess[s].latest \in Nat /\ sess[s].latest <= Len(runs) /\ sess[s].planned
  BY <1>0, SessFields DEF SessOK, ContinueBegin
<1>a. PICK at \in {"choose", "capture"} : at = IF sess[s].latest = 0 THEN "choose" ELSE "capture"
  OBVIOUS
<1>k. PICK k : k = [Idle EXCEPT !.op = "continue", !.session = s, !.source = sess[s].latest,
                                !.at = IF sess[s].latest = 0 THEN "choose" ELSE "capture"]
  OBVIOUS
<1>2. /\ k \in CallRecs /\ k.op = "continue" /\ k.session = s /\ k.source = sess[s].latest /\ k.new = 0
      /\ k.at \in {"choose", "capture"} /\ (k.at = "capture" => sess[s].latest # 0)
  <2>1. s \in Nat /\ "continue" \in Ops /\ at \in Ats
    BY <1>0 DEF Ops, Ats
  <2> QED
    <3>1. k = [Idle EXCEPT !.op = "continue", !.session = s, !.source = sess[s].latest, !.at = at]
      BY <1>a, <1>k
    <3>2. k \in CallRecs
      BY <3>1, <1>1, <2>1, IdleCall DEF CallRecs, Ats
    <3> QED
      BY <1>a, <3>1, <3>2 DEF Idle
<1>3. Moves(c, k)
  <2>1. calls' = [calls EXCEPT ![c] = k]
    BY <1>k DEF ContinueBegin
  <2> QED
    BY <1>0, <1>2, <2>1, MoveCall
<1>4. k.at \notin Planning
  BY <1>2 DEF Planning
<1>5. CallOK(k)
  BY <1>0, <1>1, <1>2, <1>4 DEF CallOK, SessOK
<1> QED
  BY <1>0, <1>1, <1>2, <1>3, <1>4, <1>5, BeginCall DEF ContinueBegin

LEMMA RunRow ==
  ASSUME Inv, NEW r \in RunIds
  PROVE  /\ r \in 1..Len(runs) /\ RowTypes /\ RunOK(r) /\ Len(sess) \in Nat /\ Len(runs) \in Nat
         /\ runs[r].session \in Nat /\ runs[r].session <= Len(sess) /\ runs[r].dag \subseteq Tasks
         /\ runs[r].session # 0 => sess[runs[r].session].planned
         /\ launches \in 0..MaxLaunches /\ head \in Int /\ Baseline(head) \in CommitRecs
<1>1. r \in 1..Len(runs) /\ RowTypes /\ Len(sess) \in Nat /\ Len(runs) \in Nat
  BY Lens DEF Inv, RunIds
<1>2. RunOK(r) /\ runs[r].session \in Nat /\ runs[r].dag \subseteq Tasks
  BY <1>1, RunFields DEF Inv, RunHold
<1>3. launches \in 0..MaxLaunches /\ head \in Int
  BY BoundsAssumption DEF Inv, Counts
<1> QED
  BY <1>1, <1>2, <1>3, Bases DEF RunOK

LEMMA ResumeStep ==
  ASSUME Inv, NEW c \in Clients, NEW r \in RunIds, ResumeBegin(c, r)
  PROVE  Inv'
<1>1. PICK t \in Checkpointed(r) :
        calls' = [calls EXCEPT ![c] = [Idle EXCEPT !.op = "resume", !.at = "start",
                      !.session = runs[r].session, !.source = r,
                      !.dag = Remaining(runs[r].dag, Succeeded(r)), !.base = runs[r].evidence[t].commit]]
  BY DEF ResumeBegin
<1>2. t \in Tasks /\ runs[r].evidence[t].status = "CHECKPOINTED" /\ runs[r].evidence[t].commit \in CommitRecs
  BY RunRow, RunFields DEF Checkpointed, EvidenceRecs
<1>3. t \in Remaining(runs[r].dag, Succeeded(r)) /\ Remaining(runs[r].dag, Succeeded(r)) \subseteq Tasks
  <2>1. t \in runs[r].dag
    BY <1>2, RunRow, Bases DEF RunOK, EvidenceOK
  <2> QED
    BY <1>2, <2>1, RunRow DEF Remaining, Succeeded
<1>k. PICK k : k = [Idle EXCEPT !.op = "resume", !.at = "start", !.session = runs[r].session, !.source = r,
                      !.dag = Remaining(runs[r].dag, Succeeded(r)), !.base = runs[r].evidence[t].commit]
  OBVIOUS
<1>4. /\ k \in CallRecs /\ k.op = "resume" /\ k.at = "start" /\ k.session = runs[r].session /\ k.source = r
      /\ k.new = 0 /\ k.dag # {}
  <2>1. r \in Nat /\ runs[r].session \in Nat /\ "resume" \in Ops /\ "start" \in Ats
    BY RunRow DEF Ops, Ats
  <2> QED
    <3>1. k \in CallRecs
      BY <1>k, <1>2, <1>3, <2>1, IdleCall DEF CallRecs, Ats
    <3> QED
      BY <1>k, <1>3, <3>1 DEF Idle
<1>5. Moves(c, k)
  <2>1. calls' = [calls EXCEPT ![c] = k]
    BY <1>1, <1>k
  <2> QED
    BY <1>4, <2>1, MoveCall, RunRow
<1>6. k.at \notin Planning
  BY <1>4 DEF Planning
<1>7. CallOK(k)
  BY <1>4, <1>6, RunRow DEF CallOK
<1> QED
  BY <1>4, <1>5, <1>6, <1>7, RunRow, BeginCall DEF ResumeBegin

LEMMA RetryStep ==
  ASSUME Inv, NEW c \in Clients, NEW r \in RunIds, RetryBegin(c, r)
  PROVE  Inv'
<1>k. PICK k : k = [Idle EXCEPT !.op = "retry", !.at = "start", !.source = r, !.dag = runs[r].dag,
                                !.base = Baseline(head)]
  OBVIOUS
<1>4. /\ k \in CallRecs /\ k.op = "retry" /\ k.at = "start" /\ k.session = 0 /\ k.source = r
      /\ k.new = 0 /\ k.dag # {}
  <2>1. r \in Nat /\ "retry" \in Ops /\ "start" \in Ats /\ runs[r].dag # {}
    BY RunRow DEF Ops, Ats, RunOK
  <2> QED
    <3>1. k \in CallRecs
      BY <1>k, <2>1, RunRow, IdleCall DEF CallRecs, Ats
    <3> QED
      BY <1>k, <2>1, <3>1 DEF Idle
<1>5. Moves(c, k)
  <2>1. calls' = [calls EXCEPT ![c] = k]
    BY <1>k DEF RetryBegin
  <2> QED
    BY <1>4, <2>1, MoveCall, RunRow
<1>6. k.at \notin Planning
  BY <1>4 DEF Planning
<1>7. CallOK(k)
  BY <1>4, <1>6, RunRow DEF CallOK
<1> QED
  BY <1>4, <1>5, <1>6, <1>7, RunRow, BeginCall DEF RetryBegin

LEMMA RecoverStep ==
  ASSUME Inv, NEW c \in Clients, NEW r \in RunIds, RecoverBegin(c, r)
  PROVE  Inv'
<1>d. PICK dag : dag = Remaining(runs[r].dag, Succeeded(r))
  OBVIOUS
<1>0. /\ dag # {} /\ dag \subseteq Tasks /\ UNCHANGED <<head, runs, launches, upsets>>
      /\ runs[r].base \in CommitRecs
  BY <1>d, RunRow, RunFields DEF RecoverBegin, Remaining
<1>1. CASE runs[r].session # 0
  <2>k. PICK k : k = Call("recover", "capture", runs[r].session, r, dag, Baseline(head))
    OBVIOUS
  <2>1. /\ k \in CallRecs /\ k.op = "recover" /\ k.at = "capture" /\ k.session = runs[r].session /\ k.source = r
        /\ k.new = 0 /\ k.dag # {}
    <3>1. r \in Nat /\ "recover" \in Ops /\ "capture" \in Ats
      BY RunRow DEF Ops, Ats
    <3> QED
      BY <1>0, <2>k, <3>1, RunRow, NewCall
  <2>2. calls' = [calls EXCEPT ![c] = k] /\ UNCHANGED sess
    BY <1>1, <2>k, <1>d DEF RecoverBegin, Idle, Call
  <2>3. Moves(c, k)
    BY <2>1, <2>2, MoveCall, RunRow
  <2>4. k.at \notin Planning
    BY <2>1 DEF Planning
  <2>5. CallOK(k)
    BY <1>1, <2>1, <2>4, RunRow DEF CallOK
  <2> QED
    BY <1>0, <2>1, <2>2, <2>3, <2>4, <2>5, RunRow, BeginCall
<1>2. CASE runs[r].session = 0
  <2>k. PICK k : k = Call("recover", "record", Len(sess) + 1, r, dag, Baseline(head))
    OBVIOUS
  <2>1. /\ k \in CallRecs /\ k.op = "recover" /\ k.at = "record" /\ k.session = Len(sess) + 1 /\ k.source = r
        /\ k.new = 0 /\ k.dag # {}
    <3>1. r \in Nat /\ "recover" \in Ops /\ "record" \in Ats /\ Len(sess) + 1 \in Nat
      BY RunRow DEF Ops, Ats, Planning
    <3> QED
      BY <1>0, <2>k, <3>1, RunRow, NewCall
  <2>2. /\ calls' = [calls EXCEPT ![c] = k] /\ Len(sess) < MaxSessions
        /\ sess' = Append(sess, NewSession(runs[r].base))
    BY <1>2, <2>k, <1>d DEF RecoverBegin, Idle, Call
  <2>3. Moves(c, k)
    BY <2>1, <2>2, MoveCall, RunRow
  <2> QED
    BY <1>0, <2>1, <2>2, <2>3, RunRow, AddSession
<1> QED
  BY <1>1, <1>2

-----------------------------------------------------------------------------
(* The steps of a continuation                                             *)

LEMMA OneElement ==
  ASSUME NEW S, IsFiniteSet(S), Cardinality(S) <= 1, NEW a \in S, NEW b \in S
  PROVE  a = b
<1>1. Cardinality({a}) = 1 /\ {a} \in SUBSET S /\ Cardinality(S) \in Nat
  BY FS_Singleton, FS_CardinalityType
<1>2. Cardinality(S) = Cardinality({a})
  BY <1>1, FS_Subset
<1> QED
  BY <1>1, <1>2, FS_Subset

(* The commits of the finished packages are finitely many, so that at most  *)
(* one of them means that they are all the same.                            *)
LEMMA CommitsFinite ==
  ASSUME Inv, NEW s \in 1..Len(sess)
  PROVE  IsFiniteSet(CompletedCommits(s)) /\ Completed(s) \subseteq Tasks
<1>1. Completed(s) \in SUBSET Tasks
  BY SessFields DEF Completed, Inv
<1>2. IsFiniteSet(Completed(s))
  BY <1>1, TasksAssumption, FS_Subset
<1>f. PICK f : f = [t \in Completed(s) |-> sess[s].package[t].commit]
  OBVIOUS
<1>3. f \in Surjection(Completed(s), CompletedCommits(s))
  BY <1>f DEF Surjection, CompletedCommits
<1>4. IsFiniteSet(CompletedCommits(s))
  BY <1>2, <1>3, FS_Surjection
<1> QED
  BY <1>1, <1>4

(* What a continuation leaves out is in its base.                           *)
LEMMA BaseHolds ==
  ASSUME Inv, NEW s \in 1..Len(sess), CommitsCompatible(s)
  PROVE  ContinuationBase(s) \in CommitRecs /\ Completed(s) \subseteq ContinuationBase(s).work
<1>0. SessOK(s) /\ RowTypes /\ Completed(s) \subseteq Tasks
  BY CommitsFinite DEF Inv, SessHold
<1>1. CASE CompletedCommits(s) = {}
  <2>1. Completed(s) = {}
    BY <1>1 DEF CompletedCommits
  <2> QED
    BY <1>0, <1>1, <2>1, SessFields DEF ContinuationBase
<1>2. CASE CompletedCommits(s) # {}
  <2>b. PICK b : b = ContinuationBase(s)
    OBVIOUS
  <2>1. b \in CompletedCommits(s)
    BY <1>2, <2>b DEF ContinuationBase
  <2>2. PICK u \in Completed(s) : b = sess[s].package[u].commit
    BY <2>1 DEF CompletedCommits
  <2>3. b \in CommitRecs
    <3>1. u \in Tasks /\ sess[s].package[u] \in PackageRecs
      BY <1>0, SessFields
    <3> QED
      BY <2>2, <3>1 DEF PackageRecs
  <2>4. ASSUME NEW t \in Completed(s) PROVE t \in b.work
    <3>1. t \in Tasks /\ sess[s].package[t].state = "SUCCEEDED"
      BY <1>0 DEF Completed
    <3>2. t \in sess[s].package[t].commit.work
      BY <1>0, <3>1 DEF SessOK, Backed
    <3>3. sess[s].package[t].commit \in CompletedCommits(s)
      BY DEF CompletedCommits
    <3>4. sess[s].package[t].commit = b
      BY <2>1, <3>3, CommitsFinite, OneElement DEF CommitsCompatible
    <3> QED
      BY <3>2, <3>4
  <2> QED
    BY <2>b, <2>3, <2>4
<1> QED
  BY <1>1, <1>2

LEMMA ChooseStep ==
  ASSUME Inv, NEW c \in Clients, NEW old \in BOOLEAN, ContinueChoose(c, old)
  PROVE  Inv'
<1>0. /\ UNCHANGED <<head, runs, launches, upsets>> /\ RowTypes /\ calls[c].at = "choose"
      /\ Exclusive /\ CallOK(calls[c])
  BY DEF ContinueChoose, Inv, CallHold
<1>a. calls[c].op = "continue" /\ calls[c].session # 0 /\ calls[c].at \notin Planning /\ "start" \notin Planning
  BY <1>0 DEF CallOK, Planning
<1>s. PICK s \in 1..Len(sess) : s = calls[c].session
  BY <1>a, PlanningSession
<1>b. SessOK(s) /\ sess[s].planned /\ sess \in Seq(SessRecs)
  BY <1>0, <1>a, <1>s DEF CallOK, Inv, SessHold, RowTypes
<1>1. CASE /\ Remaining(sess[s].dag, Completed(s)) = {} /\ Return(c)
           /\ sess' = [sess EXCEPT ![s].state = "COMPLETED"]
  <2>x. PICK x : x = [sess[s] EXCEPT !.state = "COMPLETED"]
    OBVIOUS
  <2>1. /\ x \in SessRecs /\ x.planned = sess[s].planned /\ x.dag = sess[s].dag
        /\ x.latest = sess[s].latest /\ x.package = sess[s].package
    BY <1>0, <2>x, SessFields DEF SessRecs, SessionStates
  <2>2. sess' = [sess EXCEPT ![s] = x]
    BY <1>1, <2>x
  <2>3. Sets(sess, sess', s, x)
    BY <1>b, <2>1, <2>2, SetRow
  <2>4. SessOK(s)'
    <3>1. sess'[s] = x
      BY <2>3 DEF Sets
    <3>2. ASSUME NEW t \in x.dag
          PROVE  \E r \in 1..Len(runs') : runs'[r].session = s /\ runs'[r].evidence[t].status = "SUCCEEDED"
      <4>1. t \in Tasks /\ sess[s].package[t].state = "SUCCEEDED"
        BY <1>0, <1>1, <2>1, SessFields DEF Remaining, Completed
      <4>2. Backed(s, t)
        BY <1>b, <4>1 DEF SessOK
      <4> QED
        BY <1>0, <4>2 DEF Backed
    <3>3. \A t \in Tasks : sess'[s].package[t].state = "SUCCEEDED" => Backed(s, t)'
      BY <1>0, <1>b, <2>1, <3>1 DEF SessOK, Backed
    <3> QED
      BY <1>0, <1>b, <2>1, <3>1, <3>2, <3>3 DEF SessOK
  <2>5. RowTypes' /\ Moves(c, Idle) /\ Len(sess') = Len(sess)
    <3>1. sess' \in Seq(SessRecs) /\ Moves(c, Idle)
      BY <1>0, <1>1, <1>b, <2>1, <2>2, SetRow, ReturnLemma
    <3> QED
      BY <1>0, <2>3, <3>1 DEF RowTypes, Moves, Sets
  <2>6. Exclusive' /\ CallOK(Idle)' /\ Counts'
    BY <1>0, <2>5, ExclusiveIdle, IdleOK, CountsSame
  <2> QED
    BY <1>0, <2>1, <2>2, <2>4, <2>5, <2>6, RowChange
<1>2. CASE /\ Remaining(sess[s].dag, Completed(s)) # {} /\ CommitsCompatible(s)
           /\ calls' = [calls EXCEPT ![c].at = "start", ![c].source = sess[s].latest,
                                  ![c].dag = Remaining(sess[s].dag, Completed(s)),
                                  ![c].base = ContinuationBase(s)]
           /\ UNCHANGED sess
  <2>d. PICK dag : dag = Remaining(sess[s].dag, Completed(s))
    OBVIOUS
  <2>b. PICK base : base = ContinuationBase(s)
    OBVIOUS
  <2>1. /\ dag \in SUBSET Tasks /\ dag # {} /\ base \in CommitRecs /\ sess[s].dag \ dag \subseteq base.work
        /\ sess[s].latest \in Nat /\ "start" \in Ats
    BY <1>0, <1>2, <2>d, <2>b, SessFields, BaseHolds DEF Remaining, Ats
  <2>2. PICK k : /\ Moves(c, k) /\ k.at = "start" /\ k.op = calls[c].op /\ k.session = calls[c].session
                 /\ k.source = sess[s].latest /\ k.new = calls[c].new /\ k.dag = dag /\ k.base = base
    <3>f. PICK f \in Nat : f = sess[s].latest
      BY <2>1
    <3>1. calls[c] \in CallRecs
      BY <1>0, Lens
    <3>k. PICK k : k = [calls[c] EXCEPT !.at = "start", !.source = f, !.dag = dag, !.base = base]
      OBVIOUS
    <3>2. /\ k \in CallRecs /\ k.at = "start" /\ k.op = calls[c].op /\ k.session = calls[c].session
          /\ k.source = f /\ k.new = calls[c].new /\ k.dag = dag /\ k.base = base
      BY <2>1, <3>1, <3>k DEF CallRecs
    <3>3. calls' = [calls EXCEPT ![c] = k]
      BY <1>0, <1>2, <2>b, <2>d, <3>f, <3>k DEF RowTypes
    <3> QED
      BY <1>0, <3>f, <3>2, <3>3, MoveCall
  <2>3. Exclusive'
    BY <1>0, <1>a, <2>2, ExclusiveGoTo
  <2>4. Unused(s, sess[s].latest)
    BY <1>s DEF Unused, Inv, RunHold, RunOK
  <2>5. CallOK(k)
    BY <1>0, <1>a, <1>b, <1>s, <2>1, <2>2, <2>4 DEF CallOK, SessOK
  <2>6. CallOK(k)'
    BY <1>0, <1>2, <2>5 DEF CallOK, Fresh, Unused
  <2> QED
    BY <1>0, <1>2, <2>2, <2>3, <2>6, QuietCall, SessTyped, CountsSame
<1> QED
  BY <1>1, <1>2, <1>s DEF ContinueChoose

LEMMA CaptureStep ==
  ASSUME Inv, NEW c \in Clients, Capture(c)
  PROVE  Inv'
<1>0. /\ UNCHANGED <<head, runs, launches, upsets>> /\ RowTypes /\ calls[c].at = "capture"
      /\ Exclusive /\ CallOK(calls[c]) /\ RunHold
  BY DEF Capture, Inv, CallHold
<1>a. PICK at \in {"choose", "attach", "start"} :
        /\ GoTo(c, at) /\ at \in Ats /\ at \notin Planning /\ at \notin {"idle", "capture", "link", "dispatch"}
        /\ at = "choose" <=> calls[c].op = "continue"
        /\ at = "attach" => calls[c].op = "resume"
        /\ at = "start" => calls[c].op = "recover"
        /\ calls[c].op \in {"continue", "resume", "recover"}
  BY <1>0 DEF Capture, CallOK, Ats, Planning
<1>k. PICK k : /\ Moves(c, k) /\ k.at = at /\ k.op = calls[c].op /\ k.session = calls[c].session
               /\ k.source = calls[c].source /\ k.new = calls[c].new /\ k.dag = calls[c].dag
               /\ k.base = calls[c].base
  BY <1>0, <1>a, GoToLemma
<1>1. Exclusive' /\ calls[c].at \notin Planning
  BY <1>0, <1>a, <1>k, ExclusiveGoTo DEF Planning
<1>2. ASSUME Len(sess') = Len(sess), k.session # 0 => (sess'[k.session].planned <=> sess[k.session].planned)
      PROVE  CallOK(k)'
  BY <1>0, <1>a, <1>k, <1>1, <1>2 DEF CallOK, Fresh
<1>3. CASE calls[c].session = 0
  <2>1. UNCHANGED sess
    BY <1>3 DEF Capture
  <2> QED
    BY <1>0, <1>k, <1>1, <1>2, <2>1, QuietCall, SessTyped, CountsSame
<1>4. CASE calls[c].session # 0
  <2>s. PICK s \in 1..Len(sess) : s = calls[c].session
    BY <1>4, PlanningSession
  <2>r. PICK r \in 1..Len(runs) : r = calls[c].source
    BY <1>0, Lens, CallFields DEF CallOK
  <2>0. SessOK(s) /\ RunOK(r) /\ runs[r].session = s /\ sess \in Seq(SessRecs)
    BY <1>0, <1>4, <2>s, <2>r DEF Inv, SessHold, RunHold, CallOK, RowTypes
  <2>p. PICK p : p = CaptureRunProgress(s, r)
    OBVIOUS
  <2>1. ASSUME NEW t \in Tasks
        PROVE  /\ p[t] \in PackageRecs
               /\ \/ p[t] = sess[s].package[t]
                  \/ p[t].run = r /\ p[t].state = runs[r].evidence[t].status /\ p[t].commit = runs[r].evidence[t].commit
    <3>1. runs[r].evidence[t] \in EvidenceRecs /\ sess[s].package[t] \in PackageRecs /\ r \in Nat
      BY <1>0, RunFields, SessFields
    <3>e. PICK e \in EvidenceRecs : e = runs[r].evidence[t]
      BY <3>1
    <3>2. p[t] = IF t \in sess[s].dag /\ e.status # "NONE"
                 THEN [state |-> e.status, run |-> r, commit |-> e.commit] ELSE sess[s].package[t]
      BY <2>p, <3>e DEF CaptureRunProgress
    <3> QED
      BY <3>1, <3>2, <3>e DEF EvidenceRecs, PackageRecs, PackageStates
  <2>2. p \in [Tasks -> PackageRecs]
    <3>1. p = [t \in Tasks |-> p[t]]
      BY <2>p DEF CaptureRunProgress
    <3> QED
      BY <2>1, <3>1
  <2>x. PICK x : x = [sess[s] EXCEPT !.package = p]
    OBVIOUS
  <2>3. /\ x \in SessRecs /\ x.planned = sess[s].planned /\ x.dag = sess[s].dag /\ x.state = sess[s].state
        /\ x.latest = sess[s].latest /\ x.package = p
    BY <1>0, <2>2, <2>x, SessFields DEF SessRecs
  <2>4. sess' = [sess EXCEPT ![s] = x]
    BY <1>4, <2>s, <2>r, <2>p, <2>x DEF Capture
  <2>5. Sets(sess, sess', s, x)
    BY <2>0, <2>3, <2>4, SetRow
  <2>6. sess'[s] = x /\ Len(sess') = Len(sess)
    BY <2>5 DEF Sets
  <2>7. ASSUME NEW t \in Tasks, p[t].state = "SUCCEEDED" PROVE Backed(s, t)'
    <3>1. CASE p[t] = sess[s].package[t]
      BY <1>0, <2>0, <2>3, <2>6, <2>7, <3>1 DEF SessOK, Backed
    <3>2. CASE p[t].run = r /\ p[t].state = runs[r].evidence[t].status /\ p[t].commit = runs[r].evidence[t].commit
      BY <1>0, <2>0, <2>3, <2>6, <2>7, <3>2 DEF RunOK, EvidenceOK, Backed
    <3> QED
      BY <2>1, <3>1, <3>2
  <2>8. SessOK(s)'
    BY <1>0, <2>0, <2>3, <2>6, <2>7 DEF SessOK
  <2>9. CallOK(k)' /\ Counts'
    BY <1>0, <1>2, <1>k, <2>3, <2>6, <2>s, CountsSame
  <2> QED
    BY <1>0, <1>k, <1>1, <2>3, <2>4, <2>8, <2>9, RowChange
<1> QED
  BY <1>3, <1>4

-----------------------------------------------------------------------------
(* Steps that change a Run                                                 *)

\* Row x stands for the Run of row y: neither its plan nor its links differ.
SameRun(x, y) ==
  /\ x.how = y.how /\ x.dag = y.dag /\ x.base = y.base /\ x.session = y.session /\ x.from = y.from
  /\ y.recovery # 0 => x.recovery = y.recovery
  /\ \A t \in Tasks : y.evidence[t].status # "NONE" => x.evidence[t] = y.evidence[t]

LEMMA RunEdit ==
  ASSUME Inv, calls' \in [Clients -> CallRecs], UNCHANGED sess, NEW r \in 1..Len(runs), NEW x \in RunRecs,
         runs' = [runs EXCEPT ![r] = x], SameRun(x, runs[r]),
         x.evidence = runs[r].evidence \/ EvidenceOK(r)',
         x.sent => \/ runs[r].sent
                   \/ /\ runs[r].how = "continue" => runs[r].session # 0
                      /\ runs[r].how = "recover" => runs[r].from # 0 /\ runs[runs[r].from].recovery = r
  PROVE  /\ RowTypes' /\ Sets(runs, runs', r, x) /\ RunsGrow /\ NoLinks /\ SessQuiet /\ SessGrow
         /\ SessHold' /\ RunHold' /\ Distinct'
<1>0. RowTypes /\ SessHold /\ RunHold /\ Distinct /\ runs \in Seq(RunRecs) /\ Len(runs) \in Nat /\ Len(sess) \in Nat
  BY Lens DEF Inv, RowTypes
<1>1. runs' \in Seq(RunRecs) /\ Sets(runs, runs', r, x)
  BY <1>0, SetRow
<1>2. RowTypes'
  BY <1>0, <1>1 DEF RowTypes
<1>3. Len(runs') = Len(runs) /\ runs'[r] = x /\ \A i \in 1..Len(runs) : i # r => runs'[i] = runs[i]
  BY <1>1 DEF Sets
<1>4. RunsGrow
  BY <1>0, <1>3 DEF RunsGrow, SameRun
<1>5. NoLinks
  BY <1>0, <1>3 DEF NoLinks, SameRun
<1>6. SessQuiet
  BY QuietSame
<1>7. SessGrow /\ SessHold'
  BY <1>0, <1>2, <1>4, <1>6, QuietStep
<1>8. ASSUME NEW q \in 1..Len(runs') PROVE RunOK(q)'
  <2>1. q \in 1..Len(runs) /\ RunOK(q) /\ Len(runs') \in Nat /\ Len(sess') \in Nat
    BY <1>0, <1>3 DEF RunHold
  <2>2. CASE q # r
    BY <1>0, <1>3, <1>4, <1>7, <2>1, <2>2, RunKeep
  <2>3. CASE q = r
    <3>1. runs'[r].evidence = runs[r].evidence \/ EvidenceOK(r)'
      BY <1>3
    <3>2. RunOK(r)'
      BY <1>0, <1>3, <1>4, <1>7, <2>1, <2>3, <3>1, RunKeep DEF SameRun
    <3> QED
      BY <2>3, <3>2 DEF RunOK, EvidenceOK
  <2> QED
    BY <2>2, <2>3
<1>9. Distinct'
  <2>1. \A q \in 1..Len(runs) : /\ runs'[q].how = runs[q].how /\ runs'[q].session = runs[q].session
                                /\ runs'[q].from = runs[q].from
    BY <1>3 DEF SameRun
  <2> QED
    BY <1>0, <1>3, <2>1 DEF Distinct
<1> QED
  BY <1>1, <1>2, <1>4, <1>5, <1>6, <1>7, <1>8, <1>9 DEF RunHold

(* The same where the calls stand still.                                    *)
LEMMA CallStill ==
  ASSUME RowTypes, RowTypes', CallHold, Exclusive, SessQuiet, SessGrow, RunsGrow, NoLinks, UNCHANGED calls,
         \A r \in 1..Len(runs) : runs'[r].sent = runs[r].sent
  PROVE  CallHold' /\ Exclusive'
<1>1. ASSUME NEW c \in Clients PROVE CallOK(calls[c])'
  <2>k. PICK k : k = calls[c]
    OBVIOUS
  <2>1. k \in CallRecs /\ CallOK(k)
    BY <2>k, Lens DEF CallHold
  <2>2. /\ k.session \in Nat /\ k.new \in Nat /\ Len(runs) \in Nat /\ Len(sess) \in Nat
        /\ Len(runs) <= Len(runs') /\ Len(runs') \in Nat /\ Len(sess') \in Nat
        /\ k.session <= Len(sess) /\ k.new <= Len(runs)
    BY <2>1, Lens, CallFields DEF RunsGrow, RowTypes, CallOK
  <2>3. k.new # 0 => runs'[k.new].session = runs[k.new].session /\ runs'[k.new].sent = runs[k.new].sent
    BY <2>2 DEF NoLinks
  <2>4. k.session # 0 => (sess'[k.session].planned <=> sess[k.session].planned)
    BY <2>2 DEF SessQuiet
  <2>5. k.op = "continue" /\ Unused(k.session, k.source) => Unused(k.session, k.source)'
    <3>1. k.op = "continue" => k.session # 0
      BY <2>1 DEF CallOK
    <3> QED
      BY <2>2, <3>1, UnusedKeep
  <2>6. CallOK(k)'
    BY <2>1, <2>2, <2>3, <2>4, <2>5, CallKeep
  <2> QED
    BY <2>6, <2>k DEF CallOK, Fresh, Unused
<1> QED
  BY <1>1 DEF CallHold, Exclusive

LEMMA EndsStep ==
  ASSUME Inv, NEW c \in Clients, CallEnds(c)
  PROVE  Inv'
<1>1. Return(c) /\ UNCHANGED <<sess, runs>> /\ Counts'
  BY BoundsAssumption DEF CallEnds, Upset, Inv, Counts
<1> QED
  BY <1>1, ReturnCall, SessTyped

LEMMA HeadStep ==
  ASSUME Inv, HeadMoves
  PROVE  Inv'
<1>1. UNCHANGED <<sess, runs, calls>> /\ Counts'
  BY BoundsAssumption DEF HeadMoves, Upset, Inv, Counts
<1>2. RowTypes' /\ SessHold' /\ RunHold' /\ Distinct' /\ Exclusive'
  BY <1>1 DEF Inv, RowTypes, SessHold, SessOK, Backed, RunHold, RunOK, EvidenceOK, Distinct, Exclusive
<1>3. CallHold'
  BY <1>1 DEF Inv, CallHold, CallOK, Fresh, Unused
<1> QED
  BY <1>1, <1>2, <1>3 DEF Inv

LEMMA StaleStep ==
  ASSUME Inv, NEW r \in RunIds, GrowStale(r)
  PROVE  Inv'
<1>0. r \in 1..Len(runs) /\ RowTypes /\ CallHold /\ Exclusive /\ UNCHANGED <<sess, calls>> /\ calls \in [Clients -> CallRecs]
  BY RunRow DEF GrowStale, Inv, RowTypes
<1>x. PICK x : x = [runs[r] EXCEPT !.stale = TRUE]
  OBVIOUS
<1>1. /\ x \in RunRecs /\ SameRun(x, runs[r]) /\ x.evidence = runs[r].evidence /\ x.sent = runs[r].sent
  BY <1>0, <1>x, RunFields DEF RunRecs, SameRun
<1>2. runs' = [runs EXCEPT ![r] = x]
  BY <1>x DEF GrowStale
<1>3. /\ RowTypes' /\ Sets(runs, runs', r, x) /\ RunsGrow /\ NoLinks /\ SessQuiet /\ SessGrow
      /\ SessHold' /\ RunHold' /\ Distinct'
  BY <1>0, <1>1, <1>2, RunEdit
<1>4. CallHold' /\ Exclusive'
  BY <1>0, <1>1, <1>3, CallStill DEF Sets
<1>5. Counts'
  BY <1>0, <1>3, BoundsAssumption DEF Inv, Counts, GrowStale, Upset, Sets
<1> QED
  BY <1>3, <1>4, <1>5 DEF Inv

LEMMA StatusLemma ==
  ASSUME NEW dag, NEW e
  PROVE  StatusAfter(dag, e) \in {"RUNNING", "SUCCEEDED", "FAILED"}
BY DEF StatusAfter

LEMMA EndStep ==
  ASSUME Inv, NEW r \in RunIds, NEW t \in Tasks, NEW status \in {"SUCCEEDED", "CHECKPOINTED", "FAILED"},
         EndTask(r, t, status)
  PROVE  Inv'
<1>0. /\ r \in 1..Len(runs) /\ RowTypes /\ CallHold /\ Exclusive /\ UNCHANGED <<head, launches, upsets, sess, calls>>
      /\ calls \in [Clients -> CallRecs] /\ RunOK(r) /\ t \in runs[r].dag /\ runs[r].evidence[t] = NoEvidence
      /\ runs[r].evidence \in [Tasks -> EvidenceRecs]
  BY RunRow, RunFields DEF EndTask, Inv, RowTypes
<1>w. PICK b, commit, e :
        /\ b \in BOOLEAN /\ commit \in CommitRecs
        /\ e = [runs[r].evidence EXCEPT ![t] = [status |-> status, onBase |-> b, commit |-> commit]]
        /\ runs' = [runs EXCEPT ![r].stale = FALSE, ![r].evidence = e, ![r].status = StatusAfter(runs[r].dag, e)]
        /\ status = "SUCCEEDED" => t \in commit.work
  <2>m. PICK merged \in SUBSET Succeeded(r) :
       LET deps == Deps[t] \cap runs[r].dag
           work == runs[r].base.work \cup merged
                        \cup (IF status = "SUCCEEDED" THEN {t} ELSE {})
           commit == IF status = "FAILED" THEN NoCommit
                        ELSE [run |-> r, task |-> t, work |-> work]
           evidence == [runs[r].evidence EXCEPT
                             ![t] = [status |-> status, onBase |-> deps = {}, commit |-> commit]]
       IN runs' = [runs EXCEPT ![r].stale = FALSE, ![r].evidence = evidence,
                                  ![r].status = StatusAfter(runs[r].dag, evidence)]
    BY DEF EndTask
  <2>1. PICK work : work = runs[r].base.work \cup merged \cup (IF status = "SUCCEEDED" THEN {t} ELSE {})
    OBVIOUS
  <2>2. work \in SUBSET Tasks
    <3>1. runs[r].base \in CommitRecs /\ merged \subseteq Tasks
      BY <1>0, RunFields DEF Succeeded
    <3> QED
      BY <2>1, <3>1 DEF CommitRecs
  <2>3. PICK commit : commit = IF status = "FAILED" THEN NoCommit ELSE [run |-> r, task |-> t, work |-> work]
    OBVIOUS
  <2>4. commit \in CommitRecs /\ (status = "SUCCEEDED" => t \in commit.work)
    <3>1. CASE status = "FAILED"
      BY <2>3, <3>1, Bases
    <3>2. CASE status # "FAILED"
      BY <1>0, <2>1, <2>2, <2>3, <3>2 DEF CommitRecs
    <3> QED
      BY <3>1, <3>2
  <2>5. PICK b \in BOOLEAN : b = (Deps[t] \cap runs[r].dag = {})
    OBVIOUS
  <2>6. PICK e : e = [runs[r].evidence EXCEPT ![t] = [status |-> status, onBase |-> b, commit |-> commit]]
    OBVIOUS
  <2>7. runs' = [runs EXCEPT ![r].stale = FALSE, ![r].evidence = e, ![r].status = StatusAfter(runs[r].dag, e)]
    BY <2>m, <2>1, <2>3, <2>5, <2>6
  <2> QED
    BY <2>2, <2>4, <2>6, <2>7
<1>v. PICK v \in {"RUNNING", "SUCCEEDED", "FAILED"} : v = StatusAfter(runs[r].dag, e)
  BY StatusLemma
<1>x. PICK x : x = [runs[r] EXCEPT !.stale = FALSE, !.evidence = e, !.status = v]
  OBVIOUS
<1>1. e \in [Tasks -> EvidenceRecs] /\ e[t].status = status /\ e[t].commit = commit
      /\ \A u \in Tasks : u # t => e[u] = runs[r].evidence[u]
  <2>y. PICK y : y = [status |-> status, onBase |-> b, commit |-> commit]
    OBVIOUS
  <2>1. y \in EvidenceRecs /\ y.status = status /\ y.commit = commit
    BY <1>w, <2>y DEF EvidenceRecs
  <2>2. e = [runs[r].evidence EXCEPT ![t] = y]
    BY <1>w, <2>y
  <2> QED
    BY <1>0, <2>1, <2>2
<1>2. /\ x \in RunRecs /\ x.how = runs[r].how /\ x.dag = runs[r].dag /\ x.base = runs[r].base
      /\ x.session = runs[r].session /\ x.from = runs[r].from /\ x.recovery = runs[r].recovery
      /\ x.evidence = e /\ x.sent = runs[r].sent
  BY <1>0, <1>1, <1>x, RunFields DEF RunRecs
<1>3. SameRun(x, runs[r])
  BY <1>0, <1>1, <1>2, Bases DEF SameRun
<1>4. runs' = [runs EXCEPT ![r] = x] /\ runs \in Seq(RunRecs)
  BY <1>0, <1>v, <1>w, <1>x DEF RowTypes
<1>5. EvidenceOK(r)'
  <2>1. runs'[r] = x
    BY <1>0, <1>2, <1>4, SetRow DEF Sets
  <2>2. \A u \in Tasks \ x.dag : x.evidence[u] = NoEvidence
    BY <1>0, <1>1, <1>2 DEF RunOK, EvidenceOK
  <2>3. \A u \in Tasks : x.evidence[u].status = "SUCCEEDED" => u \in x.evidence[u].commit.work
    BY <1>0, <1>1, <1>2, <1>w DEF RunOK, EvidenceOK
  <2> QED
    BY <2>1, <2>2, <2>3 DEF EvidenceOK, NoEvidence, NoCommit, Baseline
<1>6. /\ RowTypes' /\ Sets(runs, runs', r, x) /\ RunsGrow /\ NoLinks /\ SessQuiet /\ SessGrow
      /\ SessHold' /\ RunHold' /\ Distinct'
  BY <1>0, <1>2, <1>3, <1>4, <1>5, RunEdit
<1>7. CallHold' /\ Exclusive'
  BY <1>0, <1>2, <1>6, CallStill DEF Sets
<1>8. Counts'
  BY <1>0, <1>6, CountsSame DEF Sets
<1> QED
  BY <1>6, <1>7, <1>8 DEF Inv

-----------------------------------------------------------------------------
(* A new Run: started, linked and sent                                     *)

LEMMA StartStep ==
  ASSUME Inv, NEW c \in Clients, StartRun(c)
  PROVE  Inv'
<1>0. /\ UNCHANGED <<head, sess, launches, upsets>> /\ RowTypes /\ calls[c].at = "start" /\ Len(runs) < MaxRuns
      /\ Exclusive /\ CallOK(calls[c]) /\ calls[c] \in CallRecs /\ RunHold /\ CallHold /\ SessHold /\ Distinct
      /\ runs \in Seq(RunRecs) /\ Len(runs) \in Nat /\ Len(sess) \in Nat
  BY Lens DEF StartRun, Inv, CallHold, RowTypes
<1>n. PICK n \in Nat : n = Len(runs) + 1
  BY <1>0
<1>a. PICK at \in {"capture", "dispatch", "attach"} :
        /\ at = CASE calls[c].op = "resume" -> "capture" [] calls[c].op = "retry" -> "dispatch" [] OTHER -> "attach"
        /\ at = "capture" <=> calls[c].op = "resume"
        /\ at = "dispatch" <=> calls[c].op = "retry"
        /\ at \in Ats /\ at \notin Planning /\ at \notin {"idle", "start", "choose", "link"}
  BY DEF Ats, Planning
<1>k. PICK k : k = [calls[c] EXCEPT !.new = n, !.at = at]
  OBVIOUS
<1>1. /\ k \in CallRecs /\ k.at = at /\ k.op = calls[c].op /\ k.session = calls[c].session
      /\ k.source = calls[c].source /\ k.new = n /\ k.dag = calls[c].dag /\ k.base = calls[c].base
  BY <1>0, <1>a, <1>k DEF CallRecs, Ats
<1>2. calls' = [calls EXCEPT ![c] = k]
  BY <1>0, <1>a, <1>k, <1>n DEF StartRun, RowTypes
<1>3. Moves(c, k)
  BY <1>0, <1>1, <1>2, MoveCall
<1>x. PICK x : x = NewRun(calls[c].op, calls[c].dag, calls[c].base)
  OBVIOUS
<1>4. /\ x \in RunRecs /\ x.how = k.op /\ x.session = 0 /\ x.from = 0 /\ x.dag = k.dag /\ x.base = k.base
      /\ x.sent = FALSE /\ \A t \in Tasks : x.evidence[t] = NoEvidence
  <2>1. [t \in Tasks |-> NoEvidence] \in [Tasks -> EvidenceRecs]
    BY Bases
  <2>2. k.op \in Ops /\ k.dag \subseteq Tasks /\ k.base \in CommitRecs
    BY <1>1, CallFields
  <2> QED
    BY <1>1, <1>x, <2>1, <2>2 DEF NewRun, RunRecs
<1>5. runs' \in Seq(RunRecs) /\ Adds(runs, runs', x)
  <2>1. runs' = Append(runs, x)
    BY <1>x DEF StartRun
  <2> QED
    BY <1>0, <1>4, <2>1, AddRow
<1>6. Len(runs') = n /\ runs'[n] = x /\ \A i \in 1..Len(runs) : runs'[i] = runs[i]
  BY <1>5, <1>n DEF Adds
<1>7. RowTypes'
  BY <1>0, <1>3, <1>5 DEF RowTypes, Moves
<1>8. RunsGrow /\ NoLinks
  BY <1>0, <1>4, <1>6, <1>n DEF RunsGrow, NoLinks
<1>9. SessQuiet /\ SessGrow /\ SessHold'
  BY <1>0, <1>7, <1>8, QuietSame, QuietStep
<1>10. ASSUME NEW q \in 1..Len(runs') PROVE RunOK(q)'
  <2>1. CASE q = n
    <3>1. EvidenceOK(q)'
      BY <1>4, <1>6, <2>1, Bases DEF EvidenceOK, NoEvidence, NoCommit, Baseline
    <3>2. x.dag # {}
      BY <1>0, <1>1, <1>4 DEF CallOK
    <3> QED
      BY <1>0, <1>4, <1>6, <2>1, <3>1, <3>2 DEF RunOK
  <2>2. CASE q # n
    <3>1. q \in 1..Len(runs) /\ RunOK(q) /\ runs'[q] = runs[q]
      BY <1>0, <1>6, <1>n, <2>2 DEF RunHold
    <3> QED
      BY <1>0, <1>6, <1>8, <1>9, <3>1, RunKeep
  <2> QED
    BY <2>1, <2>2
<1>11. Distinct'
  BY <1>0, <1>4, <1>6, <1>n DEF Distinct
<1>12. ASSUME NEW d \in Clients
       PROVE  calls[d].new \in Nat /\ calls[d].new <= Len(runs) /\ calls[d].new # n
  BY <1>0, <1>n, Lens, CallFields DEF CallHold, CallOK
<1>13. Exclusive'
  BY <1>0, <1>1, <1>3, <1>12, <1>a, ExclusiveStep DEF Exclusive
<1>14. CallOK(k)'
  <2>1. k.session # 0 => sess'[k.session].planned
    BY <1>0, <1>1 DEF CallOK, Planning
  <2>2. k.source # 0 => k.source \in 1..Len(runs) /\ runs'[k.source] = runs[k.source]
    BY <1>0, <1>1, <1>6, CallFields DEF CallOK
  <2>3. k.op = "continue" => Unused(k.session, k.source)'
    <3>1. ASSUME k.op = "continue" PROVE Unused(k.session, k.source)'
      <4>1. k.session # 0 /\ k.session \in Nat /\ Unused(k.session, k.source)
        BY <1>0, <1>1, <3>1, CallFields DEF CallOK
      <4> QED
        BY <1>0, <1>7, <1>8, <4>1, UnusedKeep
    <3> QED
      BY <3>1
  <2>4. Fresh(k)'
    BY <1>1, <1>4, <1>6 DEF Fresh
  <2>5. k.session <= Len(sess') /\ k.source <= Len(runs') /\ k.new <= Len(runs') /\ n # 0
    BY <1>0, <1>1, <1>6, <1>n, CallFields DEF CallOK
  <2> QED
    BY <1>0, <1>1, <1>4, <1>6, <1>a, <2>1, <2>2, <2>3, <2>4, <2>5 DEF CallOK
<1>15. CallHold'
  <2>1. \A d \in Clients \ {c} : calls[d].new # 0 => runs'[calls[d].new].sent = runs[calls[d].new].sent
    BY <1>6, <1>12, <1>0
  <2> QED
    BY <1>0, <1>3, <1>7, <1>8, <1>9, <1>14, <2>1, CallStep2
<1>16. Counts'
  BY <1>0, <1>6, <1>n, BoundsAssumption DEF Inv, Counts
<1> QED
  BY <1>7, <1>9, <1>10, <1>11, <1>13, <1>15, <1>16 DEF Inv, RunHold

(* The call of c has a Run of its own, which is a row.                      *)
LEMMA OwnRun ==
  ASSUME Inv, NEW c \in Clients, calls[c].at \in {"attach", "link", "dispatch"}
  PROVE  /\ calls[c].new \in 1..Len(runs) /\ RowTypes /\ RunOK(calls[c].new) /\ CallOK(calls[c])
         /\ calls[c].source # 0 => calls[c].source \in 1..Len(runs)
         /\ runs[calls[c].new].how = calls[c].op /\ calls[c].at \notin Planning
         /\ \A d \in Clients \ {c} : calls[d].new # calls[c].new
<1>1. /\ calls[c].new \in Nat /\ calls[c].source \in Nat /\ Len(runs) \in Nat /\ CallOK(calls[c]) /\ RowTypes
      /\ RunHold /\ Exclusive
  BY Lens, CallFields DEF Inv, CallHold
<1>2. calls[c].new # 0 /\ runs[calls[c].new].how = calls[c].op
  BY <1>1 DEF CallOK
<1>3. calls[c].new <= Len(runs) /\ calls[c].source <= Len(runs)
  BY <1>1 DEF CallOK
<1>4. calls[c].new \in 1..Len(runs)
  BY <1>1, <1>2, <1>3
<1>5. \A d \in Clients \ {c} : calls[d].new # calls[c].new
  BY <1>1, <1>2 DEF Exclusive
<1> QED
  BY <1>1, <1>2, <1>3, <1>4, <1>5 DEF RunHold, Planning

LEMMA LinkStep ==
  ASSUME Inv, NEW c \in Clients, LinkRecovery(c)
  PROVE  Inv'
<1>0. /\ UNCHANGED <<head, sess, launches, upsets>> /\ calls[c].at = "link" /\ Exclusive
      /\ calls \in [Clients -> CallRecs] /\ CallHold
  BY DEF LinkRecovery, Inv, RowTypes
<1>1. /\ calls[c].new \in 1..Len(runs) /\ RowTypes /\ CallOK(calls[c]) /\ calls[c].op = "recover"
      /\ calls[c].source \in 1..Len(runs)
  BY <1>0, OwnRun DEF CallOK
<1>2. CASE Return(c) /\ UNCHANGED runs
  BY <1>0, <1>2, ReturnCall, SessTyped, CountsSame
<1>3. CASE /\ runs[calls[c].source].recovery = 0 /\ GoTo(c, "dispatch")
           /\ runs' = [runs EXCEPT ![calls[c].source].recovery = calls[c].new]
  <2>s. PICK s \in 1..Len(runs), n \in 1..Len(runs) : s = calls[c].source /\ n = calls[c].new
    BY <1>1
  <2>k. PICK k : /\ Moves(c, k) /\ k.at = "dispatch" /\ k.op = calls[c].op /\ k.session = calls[c].session
                 /\ k.source = calls[c].source /\ k.new = calls[c].new /\ k.dag = calls[c].dag
                 /\ k.base = calls[c].base
    BY <1>1, <1>3, GoToLemma DEF Ats
  <2>x. PICK x : x = [runs[s] EXCEPT !.recovery = n]
    OBVIOUS
  <2>1. /\ x \in RunRecs /\ SameRun(x, runs[s]) /\ x.evidence = runs[s].evidence /\ x.sent = runs[s].sent
        /\ x.recovery = n
    BY <1>1, <1>3, <2>s, <2>x, RunFields DEF RunRecs, SameRun
  <2>2. runs' = [runs EXCEPT ![s] = x]
    BY <1>3, <2>s, <2>x
  <2>3. /\ RowTypes' /\ Sets(runs, runs', s, x) /\ RunsGrow /\ NoLinks /\ SessQuiet /\ SessGrow
        /\ SessHold' /\ RunHold' /\ Distinct'
    BY <1>0, <2>1, <2>2, <2>k, RunEdit DEF Moves
  <2>4. Exclusive' /\ "dispatch" \notin Planning /\ "link" \notin Planning
    BY <1>0, <2>k, ExclusiveGoTo DEF Planning
  <2>5. \A i \in 1..Len(runs) : runs'[i].sent = runs[i].sent /\ runs'[i].how = runs[i].how
                                /\ runs'[i].session = runs[i].session /\ runs'[i].from = runs[i].from
    BY <2>1, <2>3 DEF Sets, SameRun
  <2>6. Len(runs') = Len(runs) /\ runs'[s].recovery = n
    BY <2>1, <2>3 DEF Sets
  <2>7. CallOK(k)'
    BY <1>0, <1>1, <2>4, <2>5, <2>6, <2>k, <2>s DEF CallOK
  <2>8. CallHold'
    <3>1. ASSUME NEW d \in Clients \ {c}, calls[d].new # 0
          PROVE  runs'[calls[d].new].sent = runs[calls[d].new].sent
      <4>1. calls[d].new \in Nat /\ calls[d].new <= Len(runs) /\ Len(runs) \in Nat
        BY <1>0, <1>1, Lens, CallFields DEF CallHold, CallOK
      <4> QED
        BY <2>5, <3>1, <4>1
    <3> QED
      BY <1>0, <1>1, <2>3, <2>7, <2>k, <3>1, CallStep2
  <2>9. Counts'
    BY <1>0, <2>6, CountsSame
  <2> QED
    BY <2>3, <2>4, <2>8, <2>9 DEF Inv
<1> QED
  BY <1>2, <1>3 DEF LinkRecovery

LEMMA DispatchStep ==
  ASSUME Inv, NEW c \in Clients, DispatchInitial(c)
  PROVE  Inv'
<1>0. /\ UNCHANGED <<head, sess, launches, upsets>> /\ calls[c].at = "dispatch" /\ Exclusive /\ Return(c)
      /\ calls \in [Clients -> CallRecs] /\ CallHold
  BY DEF DispatchInitial, Inv, RowTypes
<1>1. CASE UNCHANGED runs
  BY <1>0, <1>1, ReturnCall, SessTyped, CountsSame
<1>2. CASE runs' = [runs EXCEPT ![calls[c].new].sent = TRUE]
  <2>n. PICK n \in 1..Len(runs) : n = calls[c].new
    BY <1>0, OwnRun
  <2>0. /\ RowTypes /\ CallOK(calls[c]) /\ runs[n].how = calls[c].op
        /\ \A d \in Clients \ {c} : calls[d].new # n
    BY <1>0, <2>n, OwnRun
  <2>x. PICK x : x = [runs[n] EXCEPT !.sent = TRUE]
    OBVIOUS
  <2>1. /\ x \in RunRecs /\ SameRun(x, runs[n]) /\ x.evidence = runs[n].evidence
    BY <2>0, <2>x, RunFields DEF RunRecs, SameRun
  <2>2. runs' = [runs EXCEPT ![n] = x]
    BY <1>2, <2>n, <2>x
  <2>3. Moves(c, Idle)
    BY <1>0, <2>0, ReturnLemma
  <2>4. /\ runs[n].how = "continue" => runs[n].session # 0
        /\ runs[n].how = "recover" => runs[n].from # 0 /\ runs[runs[n].from].recovery = n
    BY <1>0, <2>0, <2>n DEF CallOK
  <2>5. /\ RowTypes' /\ Sets(runs, runs', n, x) /\ RunsGrow /\ NoLinks /\ SessQuiet /\ SessGrow
        /\ SessHold' /\ RunHold' /\ Distinct'
    BY <1>0, <2>1, <2>2, <2>3, <2>4, RunEdit DEF Moves
  <2>6. Exclusive' /\ CallOK(Idle)'
    BY <1>0, <2>3, <2>5, ExclusiveIdle, IdleOK
  <2>7. CallHold'
    <3>1. ASSUME NEW d \in Clients \ {c}, calls[d].new # 0
          PROVE  runs'[calls[d].new].sent = runs[calls[d].new].sent
      <4>1. calls[d].new \in Nat /\ calls[d].new <= Len(runs) /\ Len(runs) \in Nat
        BY <1>0, <2>0, Lens, CallFields DEF CallHold, CallOK
      <4> QED
        BY <2>0, <2>5, <3>1, <4>1 DEF Sets
    <3> QED
      BY <1>0, <2>0, <2>3, <2>5, <2>6, <3>1, CallStep2
  <2>8. Counts'
    BY <1>0, <2>5, CountsSame DEF Sets
  <2> QED
    BY <2>5, <2>6, <2>7, <2>8 DEF Inv
<1> QED
  BY <1>1, <1>2 DEF DispatchInitial

(* The Run of the call gets its session and its source, and the session its *)
(* latest Run.  No other Run of the session was continued from that source. *)
LEMMA AttachStep ==
  ASSUME Inv, NEW c \in Clients, AttachRun(c)
  PROVE  Inv'
<1>0. /\ UNCHANGED <<head, launches, upsets>> /\ calls[c].at = "attach" /\ Exclusive /\ Distinct /\ RunHold
      /\ CallHold /\ SessHold /\ sess \in Seq(SessRecs) /\ runs \in Seq(RunRecs) /\ RowTypes
      /\ Len(sess) \in Nat /\ Len(runs) \in Nat
  BY Lens DEF AttachRun, Inv, RowTypes
<1>n. PICK n \in 1..Len(runs) : n = calls[c].new
  BY <1>0, OwnRun
<1>s. PICK s \in Nat, f \in Nat : s = calls[c].session /\ f = calls[c].source
  BY <1>0, Lens, CallFields
<1>1. /\ CallOK(calls[c]) /\ runs[n].how = calls[c].op /\ RunOK(n) /\ Fresh(calls[c]) /\ calls[c].at \notin Planning
      /\ \A d \in Clients \ {c} : calls[d].new # n
  BY <1>0, <1>n, OwnRun DEF CallOK
<1>2. /\ runs[n].session = 0 /\ ~runs[n].sent /\ runs[n].dag = calls[c].dag /\ runs[n].base = calls[c].base
      /\ s <= Len(sess) /\ f <= Len(runs) /\ (s # 0 => s \in 1..Len(sess) /\ sess[s].planned)
      /\ (f # 0 => f \in 1..Len(runs))
  BY <1>0, <1>1, <1>n, <1>s DEF CallOK, Fresh
<1>3. calls[c].op = "continue" =>
        /\ s # 0 /\ Unused(s, f) /\ f # n
        /\ f # 0 => runs[f].session = s
        /\ sess[s].dag \ runs[n].dag \subseteq runs[n].base.work
  BY <1>0, <1>1, <1>2, <1>s DEF CallOK
<1>a. PICK at \in {"link", "dispatch"} :
        /\ GoTo(c, at)
        /\ at = "link" <=> calls[c].op = "recover"
        /\ at \in Ats /\ at \notin Planning
  BY DEF AttachRun, Ats, Planning
<1>k. PICK k : /\ Moves(c, k) /\ k.at = at /\ k.op = calls[c].op /\ k.session = s
               /\ k.source = f /\ k.new = n /\ k.dag = calls[c].dag
               /\ k.base = calls[c].base
  BY <1>0, <1>a, <1>n, <1>s, GoToLemma
<1>x. PICK x : x = [runs[n] EXCEPT !.session = s, !.from = f]
  OBVIOUS
<1>4. /\ x \in RunRecs /\ x.how = runs[n].how /\ x.dag = runs[n].dag /\ x.base = runs[n].base
      /\ x.session = s /\ x.from = f /\ x.recovery = runs[n].recovery
      /\ x.evidence = runs[n].evidence /\ x.sent = runs[n].sent
  BY <1>0, <1>x, RunFields DEF RunRecs
<1>5. runs' = [runs EXCEPT ![n] = x]
  BY <1>0, <1>n, <1>s, <1>x DEF AttachRun
<1>6. runs' \in Seq(RunRecs) /\ Len(runs') = Len(runs) /\ runs'[n] = x
      /\ \A i \in 1..Len(runs) : i # n => runs'[i] = runs[i]
  BY <1>0, <1>4, <1>5, SetRow DEF Sets
<1>7. RunsGrow
  BY <1>0, <1>2, <1>4, <1>6 DEF RunsGrow
<1>8. /\ sess' \in Seq(SessRecs) /\ Len(sess') = Len(sess)
      /\ \A i \in 1..Len(sess) :
           /\ sess'[i].planned = sess[i].planned /\ sess'[i].dag = sess[i].dag
           /\ sess'[i].package = sess[i].package
           /\ sess'[i].state = "COMPLETED" => sess[i].state = "COMPLETED"
           /\ sess'[i].latest = IF i = s THEN n ELSE sess[i].latest
  <2>1. CASE s = 0
    BY <1>0, <1>s, <2>1 DEF AttachRun
  <2>2. CASE s # 0
    <3>y. PICK y : y = [sess[s] EXCEPT !.state = "RUNNING", !.latest = n]
      OBVIOUS
    <3>1. /\ y \in SessRecs /\ y.planned = sess[s].planned /\ y.dag = sess[s].dag /\ y.package = sess[s].package
          /\ y.state = "RUNNING" /\ y.latest = n
      <4>1. sess[s] \in SessRecs /\ n \in Nat
        BY <1>0, <1>2, <2>2, SessFields
      <4> QED
        BY <3>y, <4>1 DEF SessRecs, SessionStates
    <3>2. sess' = [sess EXCEPT ![s] = y]
      BY <1>0, <1>n, <1>s, <2>2, <3>y DEF AttachRun
    <3>3. sess' \in Seq(SessRecs) /\ Sets(sess, sess', s, y)
      BY <1>0, <1>2, <2>2, <3>1, <3>2, SetRow
    <3> QED
      BY <3>1, <3>3 DEF Sets
  <2> QED
    BY <2>1, <2>2
<1>9. SessGrow
  BY <1>0, <1>2, <1>8 DEF SessGrow
<1>10. RowTypes' /\ Len(runs') \in Nat /\ Len(sess') \in Nat
  BY <1>0, <1>6, <1>8, <1>k DEF RowTypes, Moves
<1>11. SessHold'
  <2>1. ASSUME NEW i \in 1..Len(sess') PROVE SessOK(i)'
    <3>1. i \in 1..Len(sess) /\ SessOK(i)
      BY <1>0, <1>8 DEF SessHold
    <3>2. \/ sess'[i].latest = sess[i].latest
          \/ sess'[i].latest \in 1..Len(runs') /\ runs'[sess'[i].latest].session = i
      BY <1>4, <1>6, <1>8, <3>1
    <3> QED
      BY <1>0, <1>7, <1>8, <1>10, <3>1, <3>2, SessKeep
  <2> QED
    BY <2>1 DEF SessHold
<1>12. RunHold'
  <2>1. ASSUME NEW q \in 1..Len(runs'), q # n PROVE RunOK(q)'
    <3>1. q \in 1..Len(runs) /\ RunOK(q) /\ runs'[q] = runs[q]
      BY <1>0, <1>6, <2>1 DEF RunHold
    <3> QED
      BY <1>0, <1>7, <1>9, <1>10, <3>1, RunKeep
  <2>2. RunOK(n)'
    <3>1. EvidenceOK(n)'
      BY <1>1, <1>4, <1>6 DEF RunOK, EvidenceOK, NoEvidence, NoCommit, Baseline
    <3>2. x.dag # {} /\ x.session <= Len(sess') /\ x.from <= Len(runs') /\ ~x.sent
      BY <1>1, <1>2, <1>4, <1>6, <1>8 DEF RunOK
    <3>3. x.session # 0 => sess'[x.session].planned
      BY <1>2, <1>4, <1>8
    <3>4. x.how = "continue" /\ x.session # 0 =>
            /\ x.from # sess'[x.session].latest
            /\ x.from # 0 => runs'[x.from].session = x.session
            /\ sess'[x.session].dag \ x.dag \subseteq x.base.work
      BY <1>1, <1>2, <1>3, <1>4, <1>6, <1>8
    <3> QED
      BY <1>6, <3>1, <3>2, <3>3, <3>4 DEF RunOK
  <2> QED
    BY <2>1, <2>2 DEF RunHold
<1>13. Distinct'
  <2>1. ASSUME NEW q \in 1..Len(runs), q # n, x.how = "continue"
        PROVE  ~(runs[q].how = "continue" /\ runs[q].session = s /\ runs[q].from = f)
    BY <1>1, <1>3, <1>4, <2>1 DEF Unused
  <2> SUFFICES ASSUME NEW r \in 1..Len(runs'), NEW q \in 1..Len(runs'),
                      runs'[r].how = "continue", runs'[q].how = "continue", runs'[r].session # 0,
                      runs'[r].session = runs'[q].session, runs'[r].from = runs'[q].from, r # q
               PROVE  FALSE
    BY DEF Distinct
  <2>2. r \in 1..Len(runs) /\ q \in 1..Len(runs)
    BY <1>6
  <2>3. CASE r = n
    BY <1>4, <1>6, <2>1, <2>2, <2>3
  <2>4. CASE q = n
    BY <1>4, <1>6, <2>1, <2>2, <2>4
  <2>5. CASE r # n /\ q # n
    BY <1>0, <1>6, <2>2, <2>5 DEF Distinct
  <2> QED
    BY <2>3, <2>4, <2>5
<1>14. Exclusive'
  BY <1>0, <1>a, <1>k, <1>n, <1>s, ExclusiveGoTo
<1>15. CallOK(k)'
  <2>1. k.op \in {"continue", "recover"} \/ k.op = "resume" => k.source # 0 \/ k.op = "continue"
    BY <1>1, <1>k, <1>s DEF CallOK
  <2>2. k.op = "resume" /\ k.session # 0 => runs'[k.source].session = k.session
    <3>1. k.op = "resume" /\ k.session # 0 => f # 0 /\ runs[f].session = s
      BY <1>1, <1>k, <1>s DEF CallOK
    <3> QED
      BY <1>2, <1>k, <3>1, <1>7 DEF RunsGrow
  <2>3. k.session # 0 => sess'[k.session].planned
    BY <1>2, <1>8, <1>k
  <2> QED
    BY <1>1, <1>2, <1>4, <1>6, <1>8, <1>a, <1>k, <1>n, <1>s, <2>1, <2>2, <2>3 DEF CallOK
<1>16. ASSUME NEW d \in Clients \ {c}
       PROVE  /\ calls[d].session # 0 => (sess'[calls[d].session].planned <=> sess[calls[d].session].planned)
              /\ calls[d].new # 0 => /\ runs'[calls[d].new].session = runs[calls[d].new].session
                                     /\ runs'[calls[d].new].sent = runs[calls[d].new].sent
              /\ calls[d].op = "continue" /\ Unused(calls[d].session, calls[d].source)
                   => Unused(calls[d].session, calls[d].source)'
  <2>1. calls[d].session # 0 => calls[d].session \in 1..Len(sess)
    BY <1>16, PlanningSession
  <2>2. calls[d].new # n /\ (calls[d].new # 0 => calls[d].new \in 1..Len(runs))
    BY <1>0, <1>1, <1>16, Lens, CallFields DEF CallHold, CallOK
  <2>3. ASSUME calls[d].op = "continue", Unused(calls[d].session, calls[d].source)
        PROVE  Unused(calls[d].session, calls[d].source)'
    <3>1. calls'[d] = calls[d]
      BY <1>16, <1>k DEF Moves
    <3>2. x.how = "continue" => calls[d].session # s
      BY <1>0, <1>1, <1>4, <1>16, <1>s, <2>3 DEF Exclusive
    <3>3. \A r \in 1..Len(runs') : runs'[r].how = "continue" /\ runs'[r].session = calls[d].session
                                    => runs'[r].from # calls[d].source
      BY <1>4, <1>6, <2>3, <3>2 DEF Unused
    <3> QED
      BY <3>1, <3>3 DEF Unused
  <2> QED
    BY <1>6, <1>8, <2>1, <2>2, <2>3
<1>17. CallHold'
  BY <1>0, <1>7, <1>9, <1>10, <1>15, <1>16, <1>k, CallStep1
<1>18. Counts'
  BY <1>0, <1>6, <1>8, CountsSame
<1> QED
  BY <1>10, <1>11, <1>12, <1>13, <1>14, <1>17, <1>18 DEF Inv

-----------------------------------------------------------------------------
(* The invariant, and the properties                                       *)

LEMMA InvInit == Init => Inv
<1> SUFFICES ASSUME Init PROVE Inv
  OBVIOUS
<1>1. sess = <<>> /\ runs = <<>> /\ Len(sess) = 0 /\ Len(runs) = 0
  BY DEF Init
<1>2. RowTypes /\ \A c \in Clients : calls[c] = Idle
  BY <1>1, IdleCall DEF RowTypes, Init
<1>3. Counts
  BY <1>1, BoundsAssumption DEF Init, Counts
<1>4. SessHold /\ RunHold /\ Distinct
  BY <1>1 DEF SessHold, RunHold, Distinct
<1>5. CallOK(Idle)
  BY <1>1, IdleCall DEF CallOK, Planning
<1>6. Exclusive
  BY <1>2, IdleCall DEF Exclusive, Planning
<1> QED
  BY <1>2, <1>3, <1>4, <1>5, <1>6 DEF Inv, CallHold

LEMMA InvStep == Inv /\ [Next]_vars => Inv'
<1> SUFFICES ASSUME Inv, [Next]_vars PROVE Inv'
  OBVIOUS
<1>1. CASE UNCHANGED vars
  <2>1. UNCHANGED <<head, sess, runs, calls, launches, upsets>>
    BY <1>1 DEF vars
  <2>2. RowTypes' /\ SessHold' /\ RunHold' /\ Distinct' /\ Exclusive' /\ Counts'
    BY <2>1 DEF Inv, RowTypes, SessHold, SessOK, Backed, RunHold, RunOK, EvidenceOK, Distinct, Exclusive, Counts
  <2>3. CallHold'
    BY <2>1 DEF Inv, CallHold, CallOK, Fresh, Unused
  <2> QED
    BY <2>2, <2>3 DEF Inv
<1>2. ASSUME NEW c \in Clients, Request(c) PROVE Inv'
  BY <1>2, LaunchStep, ContinueStep, ResumeStep, RetryStep, RecoverStep DEF Request
<1>3. ASSUME NEW c \in Clients, CallStep(c) PROVE Inv'
  BY <1>3, PlanStep, RecordStep, StartStep, CaptureStep, AttachStep, LinkStep, DispatchStep, ChooseStep, EndsStep
  DEF CallStep
<1>4. ASSUME NEW r \in RunIds, RunStep(r) PROVE Inv'
  BY <1>4, EndStep, StaleStep DEF RunStep
<1>5. CASE HeadMoves
  BY <1>5, HeadStep
<1> QED
  BY <1>1, <1>2, <1>3, <1>4, <1>5 DEF Next

LEMMA InvHolds == Spec => []Inv
BY InvInit, InvStep, PTL DEF Spec

LEMMA InvSuccessor == Inv => OneSuccessor
<1> SUFFICES ASSUME Inv, NEW r \in RunIds, NEW q \in RunIds,
                    runs[r].how \in {"continue", "recover"}, runs[q].how = runs[r].how,
                    runs[r].sent, runs[q].sent,
                    runs[r].session = runs[q].session, runs[r].from = runs[q].from
             PROVE  r = q
  BY DEF OneSuccessor
<1>1. r \in 1..Len(runs) /\ q \in 1..Len(runs) /\ RunOK(r) /\ RunOK(q)
  BY RunRow
<1>2. CASE runs[r].how = "continue"
  BY <1>1, <1>2 DEF RunOK, Inv, Distinct
<1>3. CASE runs[r].how = "recover"
  BY <1>1, <1>3 DEF RunOK
<1> QED
  BY <1>2, <1>3

LEMMA InvBase == Inv => ContinuedBaseHolds
<1> SUFFICES ASSUME Inv, NEW r \in RunIds, runs[r].how = "continue"
             PROVE  Dropped(r) \subseteq runs[r].base.work
  BY DEF ContinuedBaseHolds
<1> QED
  BY RunRow DEF Dropped, RunOK

LEMMA InvSound == Inv => SessionsSound
<1> SUFFICES ASSUME Inv PROVE SessionsSound
  OBVIOUS
<1>0. RowTypes /\ SessHold /\ RunHold /\ Counts /\ SessionIds = 1..Len(sess) /\ RunIds = 1..Len(runs)
      /\ Len(runs) \in Nat /\ Len(sess) \in Nat
  BY Lens DEF Inv, SessionIds, RunIds
<1>1. ASSUME NEW s \in SessionIds
      PROVE  /\ sess[s].state \in SessionStates
             /\ sess[s].dag \subseteq Tasks /\ sess[s].planned = (sess[s].dag # {})
             /\ sess[s].latest \in 0..Len(runs)
             /\ \A t \in Tasks : sess[s].package[t].state \in PackageStates
  <2>1. s \in 1..Len(sess) /\ SessOK(s)
    BY <1>0 DEF SessHold
  <2>2. /\ sess[s].state \in SessionStates /\ sess[s].dag \subseteq Tasks /\ sess[s].latest \in Nat
        /\ sess[s].planned \in BOOLEAN /\ sess[s].package \in [Tasks -> PackageRecs]
    BY <1>0, <2>1, SessFields
  <2>3. \A t \in Tasks : sess[s].package[t].state \in PackageStates
    BY <2>2 DEF PackageRecs
  <2>4. sess[s].planned = (sess[s].dag # {})
    BY <2>1, <2>2 DEF SessOK
  <2> QED
    BY <1>0, <2>1, <2>2, <2>3, <2>4 DEF SessOK
<1>2. ASSUME NEW r \in RunIds
      PROVE  /\ runs[r].dag \in (SUBSET Tasks) \ {{}}
             /\ runs[r].session \in 0..Len(sess) /\ runs[r].from \in 0..Len(runs)
             /\ runs[r].status \in {"RUNNING", "SUCCEEDED", "FAILED"}
             /\ \A t \in Tasks \ runs[r].dag : runs[r].evidence[t] = NoEvidence
  <2>1. r \in 1..Len(runs) /\ RunOK(r) /\ runs[r].session \in Nat
    BY RunRow
  <2>2. /\ runs[r].dag \subseteq Tasks /\ runs[r].from \in Nat
        /\ runs[r].status \in {"RUNNING", "SUCCEEDED", "FAILED"}
    BY <1>0, <2>1, RunFields
  <2>3. runs[r].session \in 0..Len(sess) /\ runs[r].from \in 0..Len(runs)
    BY <1>0, <2>1, <2>2 DEF RunOK
  <2>4. \A t \in Tasks \ runs[r].dag : runs[r].evidence[t] = NoEvidence
    BY <2>1 DEF RunOK, EvidenceOK
  <2>5. runs[r].dag \in (SUBSET Tasks) \ {{}}
    BY <2>1, <2>2 DEF RunOK
  <2> QED
    BY <2>2, <2>3, <2>4, <2>5
<1>3. TypeOK
  BY <1>0, <1>1, <1>2 DEF TypeOK, Counts
<1>4. CompletedIsEvidenced
  <2> SUFFICES ASSUME NEW s \in SessionIds
               PROVE  /\ \A t \in Tasks : sess[s].package[t].state = "SUCCEEDED" =>
                           /\ runs[sess[s].package[t].run].evidence[t].status = "SUCCEEDED"
                           /\ t \in sess[s].package[t].commit.work
                      /\ sess[s].state = "COMPLETED" =>
                           \A t \in sess[s].dag :
                             \E r \in RunIds : runs[r].session = s /\ t \in Succeeded(r)
    BY DEF CompletedIsEvidenced
  <2>1. SessOK(s) /\ sess[s].dag \subseteq Tasks
    BY <1>0, <1>1 DEF SessHold
  <2>2. ASSUME NEW t \in Tasks, sess[s].package[t].state = "SUCCEEDED"
        PROVE  /\ runs[sess[s].package[t].run].evidence[t].status = "SUCCEEDED"
               /\ t \in sess[s].package[t].commit.work
    BY <2>1, <2>2 DEF SessOK, Backed
  <2>3. ASSUME sess[s].state = "COMPLETED", NEW t \in sess[s].dag
        PROVE  \E r \in RunIds : runs[r].session = s /\ t \in Succeeded(r)
    <3>1. PICK r \in 1..Len(runs) : runs[r].session = s /\ runs[r].evidence[t].status = "SUCCEEDED"
      BY <2>1, <2>3 DEF SessOK
    <3> QED
      BY <1>0, <2>1, <3>1 DEF Succeeded
  <2> QED
    BY <2>2, <2>3
<1> QED
  BY <1>3, <1>4 DEF SessionsSound

\* For any number of clients that continue a session, or recover a Run, side
\* by side and dying anywhere, at most one Run is put to work from one source:
\* continue_development_session, recover_interrupted_run and link_recovery.
THEOREM SuccessorTheorem == Spec => []OneSuccessor
BY InvHolds, InvSuccessor, PTL

\* Whatever the order in which attempts capture their progress, a session's
\* COMPLETED and a package's SUCCEEDED have accepted worker evidence behind
\* them: capture_run_progress and the continuation of a finished session.
THEOREM SessionsTheorem == Spec => []SessionsSound
BY InvHolds, InvSound, PTL

\* A continued Run starts from a commit with the results of every package it
\* leaves out, for any plan and any number of earlier Runs: the choice of the
\* base in continue_development_session.
THEOREM BaseTheorem == Spec => []ContinuedBaseHolds
BY InvHolds, InvBase, PTL

-----------------------------------------------------------------------------
(* The cache of installed packages, which launch preflights, verifications *)
(* and the environment controls share without a lock: for any processes,   *)
(* workspaces, limits and faults.                                          *)
(*                                                                         *)
(* The invariant says more than the properties: where a request is decides *)
(* what it has resolved, chosen to remove and left on the host; as long as *)
(* no manifest was edited, a request builds what its fingerprint says and  *)
(* an entry holds it; and whatever is wrong with the entry of a request,   *)
(* the request has met the reason.                                         *)

(* Sequences *)

OnceEach(s) == \A i, j \in 1..Len(s) : s[i] = s[j] => i = j
Elements(s) == {s[i] : i \in 1..Len(s)}

\* What is left of a sequence without its element k.
Without(s, k) == [i \in 1..(Len(s) - 1) |-> IF i < k THEN s[i] ELSE s[i + 1]]

LEMMA MinOne == ASSUME NEW k \in Nat PROVE Min({k}) = k
  BY DEF Min

LEMMA RemoveFirstIs ==
  ASSUME NEW S, NEW s \in Seq(S), OnceEach(s), NEW k \in 1..Len(s)
  PROVE  RemoveFirst(s, s[k]) = Without(s, k)
<1>1. {i \in 1..Len(s) : s[i] = s[k]} = {k}
  BY DEF OnceEach
<1>2. SelectInSeq(s, LAMBDA v : v = s[k]) = k
  BY <1>1, MinOne DEF SelectInSeq
<1>3. RemoveFirst(s, s[k]) = SubSeq(s, 1, k - 1) \o SubSeq(s, k + 1, Len(s))
  BY <1>2 DEF RemoveFirst, RemoveAt
<1> DEFINE p == SubSeq(s, 1, k - 1)
           q == SubSeq(s, k + 1, Len(s))
<1>4. /\ p \in Seq(S) /\ Len(p) = k - 1 /\ \A i \in 1..(k - 1) : p[i] = s[i]
      /\ q \in Seq(S) /\ Len(q) = Len(s) - k /\ \A i \in 1..(Len(s) - k) : q[i] = s[i + k]
  OBVIOUS
<1> HIDE DEF p, q
<1>5. p \o q \in Seq(S) /\ Len(p \o q) = Len(p) + Len(q)
      /\ \A i \in 1..(Len(p) + Len(q)) : (p \o q)[i] = IF i <= Len(p) THEN p[i] ELSE q[i - Len(p)]
  BY <1>4, ConcatProperties
<1>6. Len(p) + Len(q) = Len(s) - 1
  BY <1>4
<1> DEFINE t == Without(s, k)
<1>7. t \in Seq(S) /\ Len(t) = Len(s) - 1 /\ \A i \in 1..(Len(s) - 1) : t[i] = IF i < k THEN s[i] ELSE s[i + 1]
  BY DEF Without
<1> HIDE DEF t
<1>8. p \o q = t
  <2>1. ASSUME NEW i \in 1..(Len(s) - 1) PROVE (p \o q)[i] = t[i]
    <3>1. (p \o q)[i] = IF i <= Len(p) THEN p[i] ELSE q[i - Len(p)]
      BY <1>5, <1>6
    <3>2. CASE i < k
      <4>1. i \in 1..(k - 1) /\ i <= Len(p)
        BY <3>2, <1>4
      <4>2. p[i] = s[i] /\ t[i] = s[i]
        BY <4>1, <3>2, <1>4, <1>7
      <4> QED
        BY <4>1, <4>2, <3>1
    <3>3. CASE ~(i < k)
      <4>1. (p \o q)[i] = q[i - (k - 1)] /\ i - (k - 1) \in 1..(Len(s) - k)
        BY <3>1, <3>3, <1>4
      <4>2. q[i - (k - 1)] = s[(i - (k - 1)) + k] /\ (i - (k - 1)) + k = i + 1
        BY <4>1, <1>4
      <4> QED
        BY <4>1, <4>2, <3>3, <1>7
    <3> QED
      BY <3>2, <3>3
  <2> QED
    BY <1>5, <1>6, <1>7, <2>1, SeqEqual
<1> QED
  BY <1>3, <1>8 DEF p, q, t

LEMMA RemoveFirstFacts ==
  ASSUME NEW S, NEW s \in Seq(S), OnceEach(s), NEW e
  PROVE  /\ RemoveFirst(s, e) \in Seq(S) /\ OnceEach(RemoveFirst(s, e))
         /\ Elements(RemoveFirst(s, e)) = Elements(s) \ {e}
         /\ e \in Elements(s) => Len(RemoveFirst(s, e)) = Len(s) - 1
<1>1. CASE e \notin Elements(s)
  BY <1>1 DEF Elements, RemoveFirst
<1>2. CASE e \in Elements(s)
  <2>1. PICK k \in 1..Len(s) : e = s[k]
    BY <1>2 DEF Elements
  <2> DEFINE t == Without(s, k)
  <2>2. RemoveFirst(s, e) = t
    BY <2>1, RemoveFirstIs
  <2>3. t \in Seq(S) /\ Len(t) = Len(s) - 1 /\ \A i \in 1..(Len(s) - 1) : t[i] = IF i < k THEN s[i] ELSE s[i + 1]
    BY DEF Without
  <2> HIDE DEF t
  <2>4. OnceEach(t)
    BY <2>3 DEF OnceEach
  <2>5. ASSUME NEW x \in Elements(t) PROVE x \in Elements(s) \ {e}
    <3>1. PICK i \in 1..(Len(s) - 1) : x = t[i]
      BY <2>3 DEF Elements
    <3>2. CASE i < k
      <4>1. x = s[i] /\ i \in 1..Len(s) /\ i # k
        BY <2>3, <3>1, <3>2
      <4> QED
        BY <4>1, <2>1 DEF OnceEach, Elements
    <3>3. CASE ~(i < k)
      <4>1. x = s[i + 1] /\ i + 1 \in 1..Len(s) /\ i + 1 # k
        BY <2>3, <3>1, <3>3
      <4> QED
        BY <4>1, <2>1 DEF OnceEach, Elements
    <3> QED
      BY <3>2, <3>3
  <2>6. ASSUME NEW x \in Elements(s) \ {e} PROVE x \in Elements(t)
    <3>1. PICK i \in 1..Len(s) : x = s[i]
      BY DEF Elements
    <3>2. i # k
      BY <3>1, <2>1
    <3>3. CASE i < k
      <4>1. i \in 1..Len(t) /\ t[i] = x
        BY <2>3, <3>1, <3>3
      <4> QED
        BY <4>1 DEF Elements
    <3>4. CASE i > k
      <4>1. i - 1 \in 1..Len(t) /\ t[i - 1] = x
        BY <2>3, <3>1, <3>4
      <4> QED
        BY <4>1 DEF Elements
    <3> QED
      BY <3>2, <3>3, <3>4
  <2> QED
    BY <2>2, <2>3, <2>4, <2>5, <2>6
<1> QED
  BY <1>1, <1>2

-----------------------------------------------------------------------------
(* The invariant *)

Pins == {t.pin : t \in Trees} \cup {"none"}
Places == {"idle", "resolve", "docker", "peek", "probe", "clear", "lookup", "validate", "sweep", "remove",
           "removing", "build", "downloading", "installing", "publish", "start", "running"}
Excuses == {"tree", "image", "fault", "removal", "wreck", "edit"}
Requests == [id : Nat, op : {"none", "verify", "check", "rebuild", "cleanup"}, at : Places,
             tree : Trees \cup {NoTree}, f : Keys \cup {Nothing}, command : Commands \cup {"PYTHON"},
             declared : Pins, built : Pins, victims : Seq(Keys), excuses : SUBSET Excuses]
Entries == [at : {"none", "whole", "hollow", "torn"}, pin : Pins]
Present == {f \in Keys : cache[f].at # "none"}

StoreTyped == cache \in [Keys -> Entries] /\ call \in [Actors -> Requests]
CountsTyped ==
  /\ requests \in Nat /\ edits \in Nat
  /\ temps \subseteq 1..requests /\ containers \subseteq 1..requests /\ messy \subseteq 1..requests
  /\ images \subseteq Runtimes

\* The order lists every entry once.
Ordered ==
  /\ order \in Seq(Keys) /\ OnceEach(order) /\ Elements(order) = Present
  /\ IsFiniteSet(Present) /\ Len(order) = Cardinality(Present)

WithTemp == {"downloading", "installing", "publish"}
Sweeping == {"sweep", "remove", "removing"}
Looking == {"peek", "probe", "clear", "lookup", "validate"}

\* Where a request may be, and what it knows there.
Placed(a) ==
  LET r == call[a] IN
  /\ r.at # "idle" => r.id \in 1..requests /\ r.op # "none"
  /\ r.at = "docker" => r.op # "verify"
  /\ r.at = "clear" => r.op = "rebuild"
  /\ r.at \in {"idle", "resolve"} => r.f = Nothing
  /\ r.op = "cleanup" => r.at \in Sweeping /\ r.f = Nothing
  /\ r.at \in Looking \cup {"build"} \cup WithTemp => r.f # Nothing
  /\ r.at \in Sweeping /\ r.op # "cleanup" => r.f # Nothing
  /\ r.at \in {"start", "running"} => r.op = "verify"
  /\ r.at \in {"remove", "removing"} <=> r.victims # <<>>
  /\ r.op # "rebuild" => \A i \in 1..Len(r.victims) : r.victims[i] # r.f

\* As long as no manifest is edited, a request has the tree that it resolved,
\* and builds what its fingerprint says.
Truthful(a) ==
  LET r == call[a] IN
  /\ r.f # Nothing => r.declared = r.f.pin
  /\ edits = 0 /\ r.f # Nothing /\ r.at \in {"docker", "build"} \cup Looking \cup Sweeping => r.tree.pin = r.f.pin
  /\ edits = 0 /\ r.at \in WithTemp => r.built = r.f.pin

\* What is wrong with the entry of a request has a reason that the request
\* knows: a removal since it looked, or what it met when it looked.
Excused(a) ==
  LET r == call[a] IN
  r.f # Nothing =>
    /\ r.at \in {"start", "running"} /\ cache[r.f].at # "whole" => "removal" \in r.excuses
    /\ /\ r.op # "rebuild" /\ r.at \in Sweeping \cup {"build"} \cup WithTemp
       /\ cache[r.f].at = "hollow"
       => "removal" \in r.excuses
    /\ Damaged(r.f) => r.excuses # {} \/ (r.at = "removing" /\ Victim(a) = r.f)
    /\ r.at = "validate" /\ cache[r.f].at # "whole" => r.excuses # {}

Owned ==
  /\ \A i \in temps : i \in messy \/ \E a \in Actors : call[a].id = i /\ call[a].at \in WithTemp
  /\ \A i \in containers : i \in messy \/ \E a \in Actors : call[a].id = i /\ call[a].at = "running"

\* An entry holds the packages of its fingerprint.
Genuine == edits = 0 => \A f \in Keys : cache[f].at = "whole" => cache[f].pin = f.pin

RequestOK(a) == Placed(a) /\ Truthful(a) /\ Excused(a)
CacheInv == /\ StoreTyped /\ CountsTyped /\ Ordered /\ (\A a \in Actors : RequestOK(a))
            /\ WreckOwned /\ Owned /\ Genuine /\ VerdictHasCause

-----------------------------------------------------------------------------
(* One request *)

LEMMA NothingNoKey == Nothing \notin Keys
<1>1. \A t : Kind(t) # "none"
  BY DEF Kind
<1> QED
  BY <1>1 DEF Keys, Fingerprint, Nothing

LEMMA NoRequestTyped == NoRequest \in Requests /\ NoRequest.at = "idle" /\ NoRequest.f = Nothing /\ NoRequest.op = "none" /\ NoRequest.victims = <<>>
  BY DEF NoRequest, Requests, Places, Pins, NoTree, Nothing

LEMMA AtOnly ==
  ASSUME NEW q \in Requests, NEW x \in Places
  PROVE  LET r == [q EXCEPT !.at = x] IN
         /\ r \in Requests /\ r.at = x /\ r.id = q.id /\ r.op = q.op /\ r.tree = q.tree /\ r.f = q.f
         /\ r.command = q.command /\ r.declared = q.declared /\ r.built = q.built /\ r.victims = q.victims
         /\ r.excuses = q.excuses
  BY DEF Requests

LEMMA OneCall ==
  ASSUME StoreTyped, NEW a \in Actors, NEW r \in Requests, call' = [call EXCEPT ![a] = r]
  PROVE  call' \in [Actors -> Requests] /\ call'[a] = r /\ \A b \in Actors \ {a} : call'[b] = call[b]
  BY DEF StoreTyped

LEMMA EndedOK ==
  ASSUME NEW a \in Actors, call'[a] = NoRequest
  PROVE  RequestOK(a)'
<1>1. NoRequest.at = "idle" /\ NoRequest.f = Nothing /\ NoRequest.op = "none" /\ NoRequest.victims = <<>>
  BY NoRequestTyped
<1>2. Len(NoRequest.victims) = 0
  BY <1>1
<1>3. Placed(a)'
  BY <1>1, <1>2 DEF Placed, Sweeping, Looking, WithTemp
<1>4. Truthful(a)' /\ Excused(a)'
  BY <1>1 DEF Truthful, Excused, WithTemp
<1> QED
  BY <1>3, <1>4 DEF RequestOK

\* A step that leaves the entries alone: what the other requests know stays so.
LEMMA OthersKept ==
  ASSUME CacheInv, NEW a \in Actors, \A b \in Actors \ {a} : call'[b] = call[b],
         cache' = cache, requests' \in Nat, requests <= requests', edits' = 0 => edits = 0
  PROVE  \A b \in Actors \ {a} : RequestOK(b)'
<1> SUFFICES ASSUME NEW b \in Actors \ {a} PROVE RequestOK(b)'
  OBVIOUS
<1>1. call'[b] = call[b] /\ RequestOK(b) /\ requests \in Nat
  BY DEF CacheInv, CountsTyped
<1>2. Placed(b)'
  BY <1>1 DEF RequestOK, Placed
<1>3. Truthful(b)'
  BY <1>1 DEF RequestOK, Truthful
<1>4. Excused(b)'
  BY <1>1 DEF RequestOK, Excused, Damaged, Victim
<1> QED
  BY <1>2, <1>3, <1>4 DEF RequestOK

LEMMA OwnedStep ==
  ASSUME Owned, NEW a \in Actors, \A b \in Actors \ {a} : call'[b] = call[b], messy \subseteq messy',
         \A i \in temps' : \/ i \in messy'
                           \/ call'[a].id = i /\ call'[a].at \in WithTemp
                           \/ i \in temps /\ ~(call[a].id = i /\ call[a].at \in WithTemp),
         \A i \in containers' : \/ i \in messy'
                                \/ call'[a].id = i /\ call'[a].at = "running"
                                \/ i \in containers /\ ~(call[a].id = i /\ call[a].at = "running")
  PROVE  Owned'
<1>1. ASSUME NEW i \in temps' PROVE i \in messy' \/ \E b \in Actors : call'[b].id = i /\ call'[b].at \in WithTemp
  <2>1. CASE i \in temps /\ ~(call[a].id = i /\ call[a].at \in WithTemp)
    <3>1. i \in messy \/ \E b \in Actors : call[b].id = i /\ call[b].at \in WithTemp
      BY <2>1 DEF Owned
    <3> QED
      BY <2>1, <3>1
  <2> QED
    BY <2>1
<1>2. ASSUME NEW i \in containers' PROVE i \in messy' \/ \E b \in Actors : call'[b].id = i /\ call'[b].at = "running"
  <2>1. CASE i \in containers /\ ~(call[a].id = i /\ call[a].at = "running")
    <3>1. i \in messy \/ \E b \in Actors : call[b].id = i /\ call[b].at = "running"
      BY <2>1 DEF Owned
    <3> QED
      BY <2>1, <3>1
  <2> QED
    BY <2>1
<1> QED
  BY <1>1, <1>2 DEF Owned, WithTemp

LEMMA WrecksKept ==
  ASSUME WreckOwned, NEW a \in Actors, \A b \in Actors \ {a} : call'[b] = call[b], cache' = cache, wrecks \subseteq wrecks',
         call[a].at = "removing" => \/ call'[a].at = "removing" /\ call'[a].victims = call[a].victims
                                    \/ Victim(a) \in wrecks' \/ ~Damaged(Victim(a))
  PROVE  WreckOwned'
<1> SUFFICES ASSUME NEW f \in Keys, Damaged(f)' PROVE Removing(f)' \/ f \in wrecks'
  BY DEF WreckOwned
<1>1. Damaged(f)
  BY DEF Damaged
<1>2. CASE f \in wrecks
  BY <1>2
<1>3. CASE Removing(f)
  <2>1. PICK b \in Actors : call[b].at = "removing" /\ Victim(b) = f
    BY <1>3 DEF Removing
  <2>2. CASE b = a
    <3>1. \/ call'[a].at = "removing" /\ call'[a].victims = call[a].victims
          \/ f \in wrecks'
      BY <2>1, <2>2, <1>1
    <3> QED
      BY <3>1, <2>1, <2>2 DEF Removing, Victim
  <2>3. CASE b # a
    BY <2>1, <2>3 DEF Removing, Victim
  <2> QED
    BY <2>2, <2>3
<1> QED
  BY <1>1, <1>2, <1>3 DEF WreckOwned

\* A step of one request that leaves the entries alone keeps the invariant, if
\* what that request knows is true.
LEMMA MoveKeeps ==
  ASSUME CacheInv, NEW a \in Actors, NEW r \in Requests, call' = [call EXCEPT ![a] = r],
         cache' = cache, order' = order, wrecks \subseteq wrecks', messy \subseteq messy', CountsTyped',
         requests <= requests', edits' = 0 => edits = 0, VerdictHasCause',
         call[a].at = "removing" => \/ r.at = "removing" /\ r.victims = call[a].victims
                                    \/ Victim(a) \in wrecks' \/ ~Damaged(Victim(a)),
         \A i \in temps' : \/ i \in messy'
                           \/ r.id = i /\ r.at \in WithTemp
                           \/ i \in temps /\ ~(call[a].id = i /\ call[a].at \in WithTemp),
         \A i \in containers' : \/ i \in messy'
                                \/ r.id = i /\ r.at = "running"
                                \/ i \in containers /\ ~(call[a].id = i /\ call[a].at = "running"),
         RequestOK(a)'
  PROVE  CacheInv'
<1>1. StoreTyped /\ Ordered /\ WreckOwned /\ Owned /\ Genuine
  BY DEF CacheInv
<1>2. call' \in [Actors -> Requests] /\ call'[a] = r /\ \A b \in Actors \ {a} : call'[b] = call[b]
  BY <1>1, OneCall
<1>3. StoreTyped' /\ Ordered' /\ Genuine'
  BY <1>1, <1>2 DEF StoreTyped, Ordered, Present, Genuine
<1>4. \A b \in Actors : RequestOK(b)'
  <2>1. \A b \in Actors \ {a} : RequestOK(b)'
    BY <1>2, OthersKept DEF CountsTyped
  <2> QED
    BY <2>1
<1>5. Owned'
  BY <1>1, <1>2, OwnedStep
<1>6. WreckOwned'
  BY <1>1, <1>2, WrecksKept
<1> QED
  BY <1>3, <1>4, <1>5, <1>6 DEF CacheInv

LEMMA LeqSelf == \A n \in Nat : n <= n
  OBVIOUS

Unexplained == {"ENV_UNAVAILABLE", "TOOL_FAILURE", "refused", "exception"}

\* A request may end wherever it holds no directory and no container, and its
\* result has a reason.
LEMMA FinishKeeps ==
  ASSUME CacheInv, NEW a \in Actors, NEW result, NEW excuses \in SUBSET Excuses, Finish(a, result, excuses),
         cache' = cache, order' = order, wrecks \subseteq wrecks', requests' = requests, edits' = edits,
         images' = images, messy \subseteq messy', messy' \subseteq messy \cup {call[a].id}, call[a].at # "idle",
         temps' \subseteq temps, containers' \subseteq containers,
         call[a].at = "removing" => Victim(a) \in wrecks' \/ ~Damaged(Victim(a)),
         call[a].at \in WithTemp => call[a].id \notin temps' \/ call[a].id \in messy',
         call[a].at = "running" => call[a].id \notin containers' \/ call[a].id \in messy',
         result = "spurious TEST_FAILURE" => "removal" \in call[a].excuses \cup excuses,
         result \in Unexplained => call[a].excuses \cup excuses # {}
  PROVE  CacheInv'
<1>1. StoreTyped /\ CountsTyped /\ RequestOK(a)
  BY DEF CacheInv
<1>2. call' = [call EXCEPT ![a] = NoRequest] /\ done' = [result |-> result, excuses |-> call[a].excuses \cup excuses]
  BY DEF Finish
<1>3. call'[a] = NoRequest /\ NoRequest \in Requests
  BY <1>1, <1>2, OneCall, NoRequestTyped
<1>4. RequestOK(a)'
  BY <1>3, EndedOK
<1>5. VerdictHasCause'
  BY <1>2 DEF VerdictHasCause, NotBlamedOnCode, EnvFailureHasCause, Unexplained
<1>6. CountsTyped'
  <2>1. call[a].id \in 1..requests
    BY <1>1 DEF RequestOK, Placed
  <2> QED
    BY <1>1, <2>1 DEF CountsTyped
<1>7. \A i \in temps' : i \in messy' \/ (i \in temps /\ ~(call[a].id = i /\ call[a].at \in WithTemp))
  OBVIOUS
<1>8. \A i \in containers' : i \in messy' \/ (i \in containers /\ ~(call[a].id = i /\ call[a].at = "running"))
  OBVIOUS
<1>9. requests <= requests'
  <2>1. requests \in Nat
    BY <1>1 DEF CountsTyped
  <2> QED
    BY <2>1, LeqSelf, Zenon
<1> QED
  BY <1>2, <1>3, <1>4, <1>5, <1>6, <1>7, <1>8, <1>9, MoveKeeps

\* The usual end: no fault of the file system, nothing left behind.
LEMMA PlainFinish ==
  ASSUME CacheInv, NEW a \in Actors, NEW result, NEW excuses \in SUBSET Excuses, Finish(a, result, excuses),
         UNCHANGED <<cache, order, temps, containers, messy, wrecks, images, requests, edits>>,
         call[a].at \notin WithTemp \cup {"idle", "running"},
         call[a].at = "removing" => ~Damaged(Victim(a)),
         result # "spurious TEST_FAILURE",
         result \in Unexplained => call[a].excuses \cup excuses # {}
  PROVE  CacheInv'
  BY FinishKeeps

\* The usual move: nothing but the place of the request changes.
LEMMA GoKeeps ==
  ASSUME CacheInv, NEW a \in Actors, NEW x \in Places, Go(a, x), UNCHANGED done,
         UNCHANGED <<cache, order, temps, containers, messy, wrecks, images, requests, edits>>,
         call[a].at \notin WithTemp \cup {"idle", "remove", "removing", "running"}, x \notin {"remove", "removing"},
         RequestOK(a)'
  PROVE  CacheInv'
<1> DEFINE r == [call[a] EXCEPT !.at = x]
<1>1. StoreTyped /\ CountsTyped /\ VerdictHasCause
  BY DEF CacheInv
<1>2. call[a] \in Requests
  BY <1>1 DEF StoreTyped
<1>3. r \in Requests
  BY <1>2, AtOnly
<1>4. call' = [call EXCEPT ![a] = r]
  BY <1>1 DEF Go, StoreTyped
<1>5. VerdictHasCause'
  BY <1>1 DEF VerdictHasCause, NotBlamedOnCode, EnvFailureHasCause
<1>6. requests \in Nat
  BY <1>1 DEF CountsTyped
<1>7. CountsTyped' /\ requests <= requests'
  BY <1>1, <1>6 DEF CountsTyped
<1> HIDE DEF r
<1>8. /\ \A i \in temps' : i \in temps /\ ~(call[a].id = i /\ call[a].at \in WithTemp)
      /\ \A i \in containers' : i \in containers /\ ~(call[a].id = i /\ call[a].at = "running")
  OBVIOUS
<1> QED
  BY <1>3, <1>4, <1>5, <1>7, <1>8, MoveKeeps

-----------------------------------------------------------------------------
(* Requests begin and look *)

LEMMA BeginKeeps ==
  ASSUME CacheInv, NEW a \in Actors, NEW op, NEW at, NEW command \in Commands \cup {"PYTHON"}, Begin(a, op, at, command),
         \/ op = "cleanup" /\ at = "sweep"
         \/ op \in {"verify", "check", "rebuild"} /\ at = "resolve"
  PROVE  CacheInv'
<1>1. StoreTyped /\ CountsTyped
  BY DEF CacheInv
<1>2. requests \in Nat /\ requests' = requests + 1 /\ done' = NotDone /\ call[a].at = "idle"
  BY <1>1 DEF Begin, CountsTyped
<1>3. PICK t \in Trees \cup {NoTree} :
        call' = [call EXCEPT ![a] = [NoRequest EXCEPT !.id = requests + 1, !.op = op, !.at = at,
                                                 !.tree = t, !.command = command]]
  BY DEF Begin
<1> DEFINE r == [NoRequest EXCEPT !.id = requests + 1, !.op = op, !.at = at, !.tree = t, !.command = command]
<1>4. /\ r \in Requests /\ r.at = at /\ r.op = op /\ r.id = requests + 1 /\ r.f = Nothing /\ r.victims = <<>>
  <2>1. op \in {"none", "verify", "check", "rebuild", "cleanup"} /\ at \in Places /\ requests + 1 \in Nat
    BY <1>2 DEF Places
  <2>2. PICK q \in Requests : q = NoRequest /\ q.f = Nothing /\ q.victims = <<>>
    BY NoRequestTyped
  <2> DEFINE s == [q EXCEPT !.id = requests + 1, !.op = op, !.at = at, !.tree = t, !.command = command]
  <2>3. r = s
    BY <2>2
  <2>4. s \in Requests /\ s.at = at /\ s.op = op /\ s.id = requests + 1 /\ s.f = Nothing /\ s.victims = <<>>
    BY <2>1, <2>2 DEF Requests
  <2> QED
    BY <2>3, <2>4, Zenon
<1>5. call' = [call EXCEPT ![a] = r]
  BY <1>3
<1> HIDE DEF r
<1>6. call'[a] = r
  BY <1>1, <1>4, <1>5, OneCall
<1>7. RequestOK(a)'
  <2>1. Len(r.victims) = 0
    BY <1>4
  <2>2. Placed(a)'
    BY <1>2, <1>4, <1>6, <2>1 DEF Placed, Sweeping, Looking, WithTemp
  <2>3. Truthful(a)' /\ Excused(a)'
    BY <1>4, <1>6 DEF Truthful, Excused, WithTemp
  <2> QED
    BY <2>2, <2>3 DEF RequestOK
<1>8. VerdictHasCause'
  BY <1>2 DEF VerdictHasCause, NotBlamedOnCode, EnvFailureHasCause, NotDone
<1>9. UNCHANGED <<cache, order, temps, containers, messy, wrecks, images, edits>>
  BY DEF Begin
<1>10. CountsTyped' /\ requests <= requests'
  <2>1. 1..requests \subseteq 1..(requests + 1)
    BY <1>2
  <2> QED
    BY <1>1, <1>2, <1>9, <2>1 DEF CountsTyped
<1>11. /\ \A i \in temps' : i \in temps /\ ~(call[a].id = i /\ call[a].at \in WithTemp)
       /\ \A i \in containers' : i \in containers /\ ~(call[a].id = i /\ call[a].at = "running")
  BY <1>2, <1>9 DEF WithTemp
<1> QED
  BY <1>2, <1>4, <1>5, <1>7, <1>8, <1>9, <1>10, <1>11, MoveKeeps

LEMMA BeginsKeep ==
  ASSUME CacheInv, NEW a \in Actors, Verify(a) \/ Check(a) \/ Rebuild(a) \/ Cleanup(a)
  PROVE  CacheInv'
  BY BeginKeeps DEF Verify, Check, Rebuild, Cleanup

LEMMA NoTreeNotCached == ~Cached(NoTree)
  BY DEF Cached, Kind, NoTree, NodeManifests

\* A request that has resolved its profile knows what it met.
LEMMA ResolveKeeps ==
  ASSUME CacheInv, NEW a \in Actors, Resolve(a)
  PROVE  CacheInv'
<1> DEFINE t == call[a].tree
           f == Fingerprint(t)
           met == IF ~Cached(t) \/ ~Damaged(f) THEN {} ELSE {IF Removing(f) THEN "removal" ELSE "wreck"}
           refused == IF call[a].op = "verify" THEN "ENV_UNAVAILABLE" ELSE "refused"
           key == IF Cached(t) THEN f ELSE Nothing
           next == CASE call[a].op # "verify" -> "docker"
                     [] call[a].op = "verify" /\ Cached(t) -> "lookup"
                     [] OTHER -> "start"
           r == [call[a] EXCEPT !.f = key, !.declared = t.pin, !.excuses = @ \cup met, !.at = next]
<1>1. StoreTyped /\ CountsTyped /\ RequestOK(a) /\ VerdictHasCause
  BY DEF CacheInv
<1>2. call[a].at = "resolve" /\ UNCHANGED <<cache, order, temps, containers, messy, wrecks, images, requests, edits>>
  BY DEF Resolve
<1>3. call[a] \in Requests /\ t \in Trees \cup {NoTree}
  BY <1>1 DEF StoreTyped, Requests
<1>4. key \in Keys \cup {Nothing} /\ (Cached(t) => key = f /\ f \in Keys) /\ (~Cached(t) => key = Nothing)
  BY <1>3, NoTreeNotCached DEF Keys
<1>5. t.pin \in Pins /\ f.pin = t.pin
  BY <1>3 DEF Pins, NoTree, Fingerprint
<1>6. met \subseteq Excuses /\ (key # Nothing /\ Damaged(key) => met # {})
  BY <1>4 DEF Excuses
<1>7. next \in {"docker", "lookup", "start"} /\ (next = "lookup" => Cached(t)) /\ (next = "docker" => call[a].op # "verify")
      /\ (next = "start" => ~Cached(t) /\ call[a].op = "verify")
      /\ next \in Places
  BY DEF Places
<1>8. /\ r \in Requests /\ r.f = key /\ r.declared = t.pin /\ r.excuses = call[a].excuses \cup met /\ r.at = next
      /\ r.id = call[a].id /\ r.op = call[a].op /\ r.victims = call[a].victims /\ r.tree = t
  <2> HIDE DEF t, f, key, met, next
  <2>1. t = call[a].tree
    BY DEF t
  <2> QED
    BY <2>1, <1>3, <1>4, <1>5, <1>6, <1>7 DEF Requests
<1>9. CASE Finish(a, refused, {"tree"})
  BY <1>2, <1>9, PlainFinish DEF WithTemp, Excuses, Unexplained
<1>10. CASE Finish(a, "ready", {})
  BY <1>2, <1>10, PlainFinish DEF WithTemp, Excuses, Unexplained
<1>11. CASE call' = [call EXCEPT ![a] = r] /\ UNCHANGED done
  <2> HIDE DEF t, f, key, met, next, r
  <2>1. call'[a] = r
    BY <1>1, <1>8, <1>11, OneCall
  <2>2. Placed(a)'
    BY <2>1, <1>1, <1>2, <1>4, <1>7, <1>8, NothingNoKey DEF RequestOK, Placed, Sweeping, Looking, WithTemp
  <2>3. Truthful(a)'
    BY <2>1, <1>4, <1>5, <1>7, <1>8 DEF Truthful, WithTemp
  <2>4. Excused(a)'
    <3>1. key # Nothing /\ cache'[key].at \in {"hollow", "torn"} => r.excuses # {}
      BY <1>2, <1>6, <1>8 DEF Damaged
    <3>2. key # Nothing => r.at \in {"docker", "lookup"}
      BY <1>4, <1>7, <1>8
    <3> QED
      BY <2>1, <3>1, <3>2, <1>8 DEF Excused, Damaged, WithTemp, Sweeping
  <2>5. VerdictHasCause' /\ CountsTyped'
    BY <1>1, <1>2, <1>11 DEF VerdictHasCause, NotBlamedOnCode, EnvFailureHasCause, CountsTyped
  <2>6. requests <= requests'
    BY <1>1, <1>2, LeqSelf DEF CountsTyped
  <2>7. RequestOK(a)'
    BY <2>2, <2>3, <2>4 DEF RequestOK
  <2>8. /\ \A i \in temps' : i \in temps /\ ~(call[a].id = i /\ call[a].at \in WithTemp)
        /\ \A i \in containers' : i \in containers /\ ~(call[a].id = i /\ call[a].at = "running")
    BY <1>2 DEF WithTemp
  <2> QED
    BY <1>2, <1>8, <1>11, <2>5, <2>6, <2>7, <2>8, MoveKeeps
<1>12. \/ Finish(a, refused, {"tree"})
       \/ Finish(a, "ready", {})
       \/ /\ call' = [call EXCEPT ![a].f = key, ![a].declared = t.pin, ![a].excuses = @ \cup met, ![a].at = next]
          /\ UNCHANGED done
  BY DEF Resolve
<1>13. [call EXCEPT ![a].f = key, ![a].declared = t.pin, ![a].excuses = @ \cup met, ![a].at = next]
       = [call EXCEPT ![a] = r]
  <2> HIDE DEF t, f, key, met, next
  <2> QED
    BY <1>1 DEF StoreTyped, Requests
<1> QED
  BY <1>9, <1>10, <1>11, <1>12, <1>13

LEMMA GoFields ==
  ASSUME StoreTyped, NEW a \in Actors, NEW x \in Places, Go(a, x)
  PROVE  LET q == call[a]
             r == call'[a]
         IN /\ r \in Requests /\ r.at = x /\ r.id = q.id /\ r.op = q.op /\ r.tree = q.tree /\ r.f = q.f
            /\ r.command = q.command /\ r.declared = q.declared /\ r.built = q.built /\ r.victims = q.victims
            /\ r.excuses = q.excuses
<1>1. call[a] \in Requests
  BY DEF StoreTyped
<1> DEFINE s == [call[a] EXCEPT !.at = x]
<1>2. call' = [call EXCEPT ![a] = s]
  BY DEF Go, StoreTyped
<1>3. s \in Requests
  BY <1>1, AtOnly
<1>4. call'[a] = s
  BY <1>2, <1>3, OneCall
<1> QED
  BY <1>1, <1>4, AtOnly

\* On the way from the profile to the entry.
LEMMA LookKeeps ==
  ASSUME CacheInv, NEW a \in Actors, NEW x \in {"peek", "probe", "clear", "lookup", "validate", "sweep"}, Go(a, x), UNCHANGED done,
         UNCHANGED <<cache, order, temps, containers, messy, wrecks, images, requests, edits>>,
         call[a].at \in {"docker", "peek", "probe", "clear", "lookup"}, call[a].f # Nothing,
         x = "clear" => call[a].op = "rebuild", x = "validate" => Marked(call[a].f), x = "sweep" => ~Marked(call[a].f)
  PROVE  CacheInv'
<1>1. StoreTyped /\ RequestOK(a) /\ x \in Places
  BY DEF CacheInv, Places
<1> DEFINE q == call[a]
           r == call'[a]
<1>2. /\ r.at = x /\ r.id = q.id /\ r.op = q.op /\ r.tree = q.tree /\ r.f = q.f
      /\ r.declared = q.declared /\ r.built = q.built /\ r.victims = q.victims /\ r.excuses = q.excuses
  BY <1>1, GoFields
<1>3. q.f \in Keys /\ cache[q.f].at \in {"none", "whole", "hollow", "torn"}
  BY <1>1 DEF StoreTyped, Requests, Entries
<1>4. Placed(a)'
  BY <1>1, <1>2 DEF RequestOK, Placed, Looking, Sweeping, WithTemp
<1>5. Truthful(a)'
  BY <1>1, <1>2 DEF RequestOK, Truthful, Looking, Sweeping, WithTemp
<1>6. Excused(a)'
  <2>1. Damaged(q.f) => q.excuses # {}
    BY <1>1 DEF RequestOK, Excused
  <2>2. cache'[q.f].at \in {"hollow", "torn"} => r.excuses # {}
    BY <2>1, <1>2 DEF Damaged
  <2>3. x = "validate" => cache'[q.f].at \in {"whole", "hollow"}
    BY DEF Marked
  <2>4. x = "sweep" => cache'[q.f].at # "hollow"
    BY DEF Marked
  <2> QED
    BY <1>2, <2>2, <2>3, <2>4 DEF Excused, Damaged, WithTemp, Sweeping
<1>7. RequestOK(a)'
  BY <1>4, <1>5, <1>6 DEF RequestOK
<1>8. call[a].at \notin WithTemp \cup {"idle", "remove", "removing", "running"} /\ x \notin {"remove", "removing"}
  BY DEF WithTemp
<1> QED
  BY <1>1, <1>7, <1>8, GoKeeps

LEMMA DockerKeeps ==
  ASSUME CacheInv, NEW a \in Actors, CheckDocker(a)
  PROVE  CacheInv'
<1>1. RequestOK(a) /\ call[a].at = "docker" /\ UNCHANGED <<cache, order, temps, containers, messy, wrecks, images, requests, edits>>
  BY DEF CacheInv, CheckDocker
<1>2. \/ Finish(a, "refused", {"image"})
      \/ Finish(a, "refused", {"fault"})
      \/ Finish(a, "ready", {})
      \/ /\ call[a].f # Nothing /\ UNCHANGED done
         /\ Go(a, IF call[a].op = "check" THEN "peek" ELSE "clear")
  BY DEF CheckDocker
<1>3. CASE Finish(a, "refused", {"image"})
  BY <1>1, <1>3, PlainFinish DEF WithTemp, Excuses, Unexplained
<1>4. CASE Finish(a, "refused", {"fault"})
  BY <1>1, <1>4, PlainFinish DEF WithTemp, Excuses, Unexplained
<1>5. CASE Finish(a, "ready", {})
  BY <1>1, <1>5, PlainFinish DEF WithTemp, Excuses, Unexplained
<1>6. CASE /\ call[a].f # Nothing /\ UNCHANGED done
           /\ Go(a, IF call[a].op = "check" THEN "peek" ELSE "clear")
  <2>1. call[a].op # "check" => call[a].op = "rebuild"
    <3>1. call[a].op \in {"none", "verify", "check", "rebuild", "cleanup"}
      BY DEF CacheInv, StoreTyped, Requests
    <3> QED
      BY <3>1, <1>1 DEF RequestOK, Placed, Sweeping
  <2>2. CASE call[a].op = "check"
    BY <1>1, <1>6, <2>2, LookKeeps
  <2>3. CASE call[a].op # "check"
    BY <1>1, <1>6, <2>1, <2>3, LookKeeps
  <2> QED
    BY <2>2, <2>3
<1> QED
  BY <1>2, <1>3, <1>4, <1>5, <1>6

LEMMA PeekKeeps ==
  ASSUME CacheInv, NEW a \in Actors, PeekCache(a) \/ CheckRegistryPackage(a) \/ Lookup(a)
  PROVE  CacheInv'
<1>1. /\ RequestOK(a) /\ call[a].at \in {"peek", "probe", "lookup"}
      /\ UNCHANGED <<cache, order, temps, containers, messy, wrecks, images, requests, edits>>
  BY DEF CacheInv, PeekCache, CheckRegistryPackage, Lookup
<1>2. call[a].f # Nothing
  BY <1>1 DEF RequestOK, Placed, Looking
<1>3. \/ Finish(a, "refused", {"fault"})
      \/ Finish(a, "ready", {})
      \/ UNCHANGED done /\ Go(a, "probe")
      \/ UNCHANGED done /\ Go(a, "lookup")
      \/ UNCHANGED done /\ Marked(call[a].f) /\ Go(a, "validate")
      \/ UNCHANGED done /\ ~Marked(call[a].f) /\ Go(a, "sweep")
  BY DEF PeekCache, CheckRegistryPackage, Lookup
<1>4. CASE Finish(a, "refused", {"fault"})
  BY <1>1, <1>4, PlainFinish DEF WithTemp, Excuses, Unexplained
<1>5. CASE Finish(a, "ready", {})
  BY <1>1, <1>5, PlainFinish DEF WithTemp, Excuses, Unexplained
<1>6. CASE UNCHANGED done /\ Go(a, "probe")
  BY <1>1, <1>2, <1>6, LookKeeps
<1>7. CASE UNCHANGED done /\ Go(a, "lookup")
  BY <1>1, <1>2, <1>7, LookKeeps
<1>8. CASE UNCHANGED done /\ Marked(call[a].f) /\ Go(a, "validate")
  BY <1>1, <1>2, <1>8, LookKeeps
<1>9. CASE UNCHANGED done /\ ~Marked(call[a].f) /\ Go(a, "sweep")
  BY <1>1, <1>2, <1>9, LookKeeps
<1> QED
  BY <1>3, <1>4, <1>5, <1>6, <1>7, <1>8, <1>9

Chosen(a, v, x) == call' = [call EXCEPT ![a].victims = v, ![a].at = x]

LEMMA VictimsFields ==
  ASSUME StoreTyped, NEW a \in Actors, NEW v \in Seq(Keys), NEW x \in Places,
         Chosen(a, v, x)
  PROVE  \E r \in Requests :
           /\ call' = [call EXCEPT ![a] = r]
           /\ r.at = x /\ r.victims = v /\ r.id = call[a].id /\ r.op = call[a].op /\ r.tree = call[a].tree
           /\ r.f = call[a].f /\ r.declared = call[a].declared /\ r.built = call[a].built
           /\ r.excuses = call[a].excuses
<1>1. call[a] \in Requests
  BY DEF StoreTyped
<1> DEFINE r == [call[a] EXCEPT !.victims = v, !.at = x]
<1>2. call' = [call EXCEPT ![a] = r]
  BY DEF Chosen, StoreTyped, Requests
<1>3. PICK q \in Requests : q = call[a]
  BY <1>1
<1> DEFINE s == [q EXCEPT !.victims = v, !.at = x]
<1>4. /\ s \in Requests /\ s.at = x /\ s.victims = v /\ s.id = q.id /\ s.op = q.op /\ s.tree = q.tree /\ s.f = q.f
      /\ s.command = q.command /\ s.declared = q.declared /\ s.built = q.built /\ s.excuses = q.excuses
  BY DEF Requests
<1>5. r = s
  BY <1>3
<1> QED
  BY <1>2, <1>3, <1>4, <1>5, Zenon

\* A request has chosen what to remove.
LEMMA ChooseKeeps ==
  ASSUME CacheInv, NEW a \in Actors, NEW v \in Seq(Keys), NEW x \in {"remove", "build"},
         Chosen(a, v, x), UNCHANGED done,
         UNCHANGED <<cache, order, temps, containers, messy, wrecks, images, requests, edits>>,
         call[a].at \in {"clear", "sweep"}, x = "remove" <=> v # <<>>,
         call[a].op # "rebuild" => \A i \in 1..Len(v) : v[i] # call[a].f,
         call[a].op = "cleanup" => x = "remove"
  PROVE  CacheInv'
<1>1. StoreTyped /\ CountsTyped /\ RequestOK(a) /\ VerdictHasCause /\ x \in Places
  BY DEF CacheInv, Places
<1> DEFINE q == call[a]
<1>2. PICK r \in Requests :
        /\ call' = [call EXCEPT ![a] = r]
        /\ r.at = x /\ r.victims = v /\ r.id = call[a].id /\ r.op = call[a].op /\ r.tree = call[a].tree
        /\ r.f = call[a].f /\ r.declared = call[a].declared /\ r.built = call[a].built
        /\ r.excuses = call[a].excuses
  BY <1>1, VictimsFields
<1>3. call'[a] = r
  BY <1>1, <1>2, OneCall
<1>4. Placed(a)'
  BY <1>1, <1>2, <1>3 DEF RequestOK, Placed, Looking, Sweeping, WithTemp
<1>5. Truthful(a)'
  BY <1>1, <1>2, <1>3 DEF RequestOK, Truthful, Looking, Sweeping, WithTemp
<1>6. Excused(a)'
  <2>1. q.f # Nothing /\ cache[q.f].at \in {"hollow", "torn"} => q.excuses # {}
    BY <1>1 DEF RequestOK, Excused, Damaged
  <2>2. q.f # Nothing /\ q.op # "rebuild" /\ cache[q.f].at = "hollow" => "removal" \in q.excuses
    BY <1>1 DEF RequestOK, Excused, Placed, Sweeping
  <2> QED
    BY <1>2, <1>3, <2>1, <2>2 DEF Excused, Damaged, WithTemp, Sweeping
<1>7. RequestOK(a)'
  BY <1>4, <1>5, <1>6 DEF RequestOK
<1>8. VerdictHasCause' /\ CountsTyped'
  BY <1>1 DEF VerdictHasCause, NotBlamedOnCode, EnvFailureHasCause, CountsTyped
<1>9. requests <= requests'
  BY <1>1, LeqSelf DEF CountsTyped
<1>10. /\ \A i \in temps' : i \in temps /\ ~(call[a].id = i /\ call[a].at \in WithTemp)
       /\ \A i \in containers' : i \in containers /\ ~(call[a].id = i /\ call[a].at = "running")
  BY DEF WithTemp
<1> QED
  BY <1>2, <1>7, <1>8, <1>9, <1>10, MoveKeeps

LEMMA ClearKeeps ==
  ASSUME CacheInv, NEW a \in Actors, ClearEntry(a)
  PROVE  CacheInv'
<1>1. /\ StoreTyped /\ RequestOK(a) /\ call[a].at = "clear" /\ UNCHANGED done
      /\ UNCHANGED <<cache, order, temps, containers, messy, wrecks, images, requests, edits>>
  BY DEF CacheInv, ClearEntry
<1>2. call[a].f # Nothing /\ call[a].op = "rebuild" /\ call[a].f \in Keys
  BY <1>1 DEF RequestOK, Placed, Looking, StoreTyped, Requests
<1>3. \/ Go(a, "lookup")
      \/ Chosen(a, <<call[a].f>>, "remove")
  BY DEF ClearEntry, Chosen
<1>4. CASE Go(a, "lookup")
  BY <1>1, <1>2, <1>4, LookKeeps
<1>5. CASE Chosen(a, <<call[a].f>>, "remove")
  <2>1. PICK k \in Keys : k = call[a].f
    BY <1>2
  <2>2. <<k>> \in Seq(Keys) /\ <<k>> # <<>>
    OBVIOUS
  <2> QED
    BY <1>1, <1>2, <1>5, <2>1, <2>2, ChooseKeeps
<1> QED
  BY <1>3, <1>4, <1>5

LEMMA VictimsFacts ==
  ASSUME CacheAssumption, CacheInv, NEW a \in Actors
  PROVE  Victims(a) \in Seq(Keys) /\ \A i \in 1..Len(Victims(a)) : Victims(a)[i] # call[a].f
<1> DEFINE s == RemoveFirst(order, call[a].f)
           excess == Len(order) - Limit
           n == IF excess < Len(s) THEN excess ELSE Len(s)
<1>1. order \in Seq(Keys) /\ OnceEach(order)
  BY DEF CacheInv, Ordered
<1>2. s \in Seq(Keys) /\ Elements(s) = Elements(order) \ {call[a].f}
  BY <1>1, RemoveFirstFacts
<1>3. \A i \in 1..Len(s) : s[i] # call[a].f
  BY <1>2 DEF Elements
<1>4. Limit \in Nat /\ excess \in Int
  BY <1>1 DEF CacheAssumption
<1>5. Victims(a) = IF excess <= 0 THEN <<>> ELSE SubSeq(s, 1, n)
  BY DEF Victims
<1> HIDE DEF s, excess
<1>6. CASE excess <= 0
  BY <1>5, <1>6
<1>7. CASE ~(excess <= 0)
  <2>1. n \in 0..Len(s)
    BY <1>2, <1>4, <1>7
  <2> HIDE DEF n
  <2>2. SubSeq(s, 1, n) \in Seq(Keys) /\ Len(SubSeq(s, 1, n)) = n /\ \A i \in 1..n : SubSeq(s, 1, n)[i] = s[i]
    BY <1>2, <2>1
  <2> QED
    BY <1>3, <1>5, <1>7, <2>1, <2>2
<1> QED
  BY <1>4, <1>6, <1>7

LEMMA SweepKeeps ==
  ASSUME CacheAssumption, CacheInv, NEW a \in Actors, Sweep(a)
  PROVE  CacheInv'
<1> DEFINE next == IF Victims(a) # <<>> THEN "remove" ELSE "build"
<1>1. call[a].at = "sweep" /\ UNCHANGED <<cache, order, temps, containers, messy, wrecks, images, requests, edits>>
  BY DEF Sweep
<1>2. PICK v \in Seq(Keys) : v = Victims(a) /\ \A i \in 1..Len(v) : v[i] # call[a].f
  BY VictimsFacts
<1>3. \/ Finish(a, "ready", {})
      \/ /\ call[a].op # "cleanup" \/ Victims(a) # <<>>
         /\ Chosen(a, Victims(a), next) /\ UNCHANGED done
      \/ Finish(a, "exception", {"removal"})
  BY DEF Sweep, Chosen
<1>4. CASE Finish(a, "ready", {})
  BY <1>1, <1>4, PlainFinish DEF WithTemp, Excuses, Unexplained
<1>5. CASE Finish(a, "exception", {"removal"})
  BY <1>1, <1>5, PlainFinish DEF WithTemp, Excuses, Unexplained
<1>6. CASE /\ call[a].op # "cleanup" \/ Victims(a) # <<>>
           /\ Chosen(a, Victims(a), next) /\ UNCHANGED done
  <2>1. CASE v # <<>>
    <3>1. Chosen(a, v, "remove")
      BY <1>2, <1>6, <2>1
    <3> QED
      BY <1>1, <1>2, <1>6, <2>1, <3>1, ChooseKeeps
  <2>2. CASE v = <<>>
    <3>1. Chosen(a, v, "build") /\ call[a].op # "cleanup"
      BY <1>2, <1>6, <2>2
    <3> QED
      BY <1>1, <1>2, <1>6, <2>2, <3>1, ChooseKeeps
  <2> QED
    BY <2>1, <2>2
<1> QED
  BY <1>3, <1>4, <1>5, <1>6

-----------------------------------------------------------------------------
(* Mounting, building and running *)

Mounts(a) == call' = [call EXCEPT ![a].at = "start", ![a].tree = NoTree, ![a].built = "none"]

LEMMA MountFields ==
  ASSUME StoreTyped, NEW a \in Actors, Mounts(a)
  PROVE  \E r \in Requests :
           /\ call' = [call EXCEPT ![a] = r]
           /\ r.at = "start" /\ r.victims = call[a].victims /\ r.id = call[a].id /\ r.op = call[a].op
           /\ r.f = call[a].f /\ r.declared = call[a].declared /\ r.excuses = call[a].excuses
<1> DEFINE r == [call[a] EXCEPT !.at = "start", !.tree = NoTree, !.built = "none"]
<1>1. call' = [call EXCEPT ![a] = r]
  BY DEF Mounts, StoreTyped, Requests
<1>2. PICK q \in Requests : q = call[a]
  BY DEF StoreTyped
<1> DEFINE s == [q EXCEPT !.at = "start", !.tree = NoTree, !.built = "none"]
<1>3. "start" \in Places /\ NoTree \in Trees \cup {NoTree} /\ "none" \in Pins
  BY DEF Places, Pins
<1>4. /\ s \in Requests /\ s.at = "start" /\ s.victims = q.victims /\ s.id = q.id /\ s.op = q.op
      /\ s.f = q.f /\ s.declared = q.declared /\ s.excuses = q.excuses
  BY <1>3 DEF Requests
<1>5. r = s
  BY <1>2
<1> QED
  BY <1>1, <1>2, <1>4, <1>5, Zenon

\* A request whose entry can be mounted.
LEMMA MountedOK ==
  ASSUME NEW a \in Actors, NEW r \in Requests, RequestOK(a), call'[a] = r, requests' = requests,
         r.at = "start", r.victims = call[a].victims, r.id = call[a].id, r.op = call[a].op,
         r.f = call[a].f, r.declared = call[a].declared, r.excuses = call[a].excuses,
         call[a].op = "verify", call[a].at \in {"validate", "publish"},
         cache'[r.f].at # "whole" => "removal" \in r.excuses
  PROVE  RequestOK(a)'
<1>1. Placed(a)'
  BY DEF RequestOK, Placed, Looking, Sweeping, WithTemp
<1>2. Truthful(a)'
  BY DEF RequestOK, Truthful, Looking, Sweeping, WithTemp
<1>3. Excused(a)'
  BY DEF Excused, Damaged, Sweeping, WithTemp
<1> QED
  BY <1>1, <1>2, <1>3 DEF RequestOK

LEMMA MountKeeps ==
  ASSUME CacheInv, NEW a \in Actors, Mounted(a), temps' = temps \ {call[a].id} \/ UNCHANGED temps,
         UNCHANGED <<cache, order, containers, messy, wrecks, images, requests, edits>>,
         call[a].at \in {"validate", "publish"}, call[a].at = "publish" => temps' = temps \ {call[a].id},
         call[a].op = "verify" /\ cache[call[a].f].at # "whole" => "removal" \in call[a].excuses
  PROVE  CacheInv'
<1>1. StoreTyped /\ CountsTyped /\ RequestOK(a) /\ VerdictHasCause
  BY DEF CacheInv
<1>2. CASE call[a].op # "verify"
  <2>1. Finish(a, "ready", {})
    BY <1>2 DEF Mounted
  <2>2. temps' \subseteq temps /\ (call[a].at \in WithTemp => call[a].id \notin temps')
    BY DEF WithTemp
  <2> QED
    BY <2>1, <2>2, FinishKeeps DEF Unexplained, Excuses
<1>3. CASE call[a].op = "verify"
  <2>1. Mounts(a) /\ UNCHANGED done
    BY <1>3 DEF Mounted, Mounts
  <2>2. PICK r \in Requests :
           /\ call' = [call EXCEPT ![a] = r]
           /\ r.at = "start" /\ r.victims = call[a].victims /\ r.id = call[a].id /\ r.op = call[a].op
           /\ r.f = call[a].f /\ r.declared = call[a].declared /\ r.excuses = call[a].excuses
    BY <1>1, <2>1, MountFields
  <2>3. call'[a] = r
    BY <1>1, <2>2, OneCall
  <2>4. RequestOK(a)'
    BY <1>1, <1>3, <2>2, <2>3, MountedOK
  <2>5. VerdictHasCause' /\ CountsTyped'
    BY <1>1, <2>1 DEF VerdictHasCause, NotBlamedOnCode, EnvFailureHasCause, CountsTyped
  <2>6. requests <= requests'
    BY <1>1, LeqSelf DEF CountsTyped
  <2>7. /\ \A i \in temps' : i \in temps /\ ~(call[a].id = i /\ call[a].at \in WithTemp)
        /\ \A i \in containers' : i \in containers /\ ~(call[a].id = i /\ call[a].at = "running")
    BY DEF WithTemp
  <2> QED
    BY <2>2, <2>4, <2>5, <2>6, <2>7, MoveKeeps
<1> QED
  BY <1>2, <1>3

LEMMA ValidateKeeps ==
  ASSUME CacheInv, NEW a \in Actors, Validate(a)
  PROVE  CacheInv'
<1>1. RequestOK(a) /\ call[a].at = "validate" /\ UNCHANGED <<cache, order, temps, containers, messy, wrecks, images, requests, edits>>
  BY DEF CacheInv, Validate
<1>2. CASE cache[call[a].f].at = "whole"
  BY <1>1, <1>2, MountKeeps DEF Validate
<1>3. CASE cache[call[a].f].at # "whole"
  <2>1. EnsureFails(a, {}) /\ call[a].excuses # {}
    BY <1>1, <1>3 DEF Validate, RequestOK, Placed, Excused, Looking
  <2>2. PICK result \in {"ENV_UNAVAILABLE", "refused"} : Finish(a, result, {})
    BY <2>1 DEF EnsureFails
  <2>3. {} \in SUBSET Excuses /\ call[a].excuses \cup {} # {}
    BY <2>1
  <2> QED
    BY <1>1, <2>2, <2>3, PlainFinish DEF WithTemp
<1> QED
  BY <1>2, <1>3

Copies(a) == call' = [call EXCEPT ![a].at = "downloading", ![a].built = call[a].tree.pin, ![a].tree = NoTree]

LEMMA CopyFields ==
  ASSUME StoreTyped, NEW a \in Actors, Copies(a)
  PROVE  \E r \in Requests :
           /\ call' = [call EXCEPT ![a] = r] /\ r.built = call[a].tree.pin
           /\ r.at = "downloading" /\ r.victims = call[a].victims /\ r.id = call[a].id /\ r.op = call[a].op
           /\ r.f = call[a].f /\ r.declared = call[a].declared /\ r.excuses = call[a].excuses
<1>1. PICK q \in Requests : q = call[a]
  BY DEF StoreTyped
<1>2. PICK p \in Pins : p = call[a].tree.pin
  <2>1. call[a].tree \in Trees \cup {NoTree}
    BY <1>1 DEF Requests
  <2> QED
    BY <2>1 DEF Pins, NoTree
<1> DEFINE r == [call[a] EXCEPT !.at = "downloading", !.built = p, !.tree = NoTree]
<1>3. call' = [call EXCEPT ![a] = r]
  BY <1>2 DEF Copies, StoreTyped, Requests
<1> DEFINE s == [q EXCEPT !.at = "downloading", !.built = p, !.tree = NoTree]
<1>4. "downloading" \in Places /\ NoTree \in Trees \cup {NoTree}
  BY DEF Places
<1>5. /\ s \in Requests /\ s.at = "downloading" /\ s.victims = q.victims /\ s.id = q.id /\ s.op = q.op
      /\ s.f = q.f /\ s.declared = q.declared /\ s.excuses = q.excuses /\ s.built = p
  BY <1>4 DEF Requests
<1>6. r = s
  BY <1>1
<1> QED
  BY <1>1, <1>2, <1>3, <1>5, <1>6, Zenon

LEMMA CopyKeeps ==
  ASSUME CacheInv, NEW a \in Actors, CopyManifests(a)
  PROVE  CacheInv'
<1>1. /\ StoreTyped /\ CountsTyped /\ RequestOK(a) /\ VerdictHasCause /\ call[a].at = "build"
      /\ UNCHANGED <<cache, order, containers, messy, wrecks, images, requests, edits>>
  BY DEF CacheInv, CopyManifests
<1>2. CASE Finish(a, "exception", {"edit"}) /\ UNCHANGED temps
  BY <1>1, <1>2, PlainFinish DEF WithTemp, Excuses, Unexplained
<1>3. CASE Copies(a) /\ temps' = temps \cup {call[a].id} /\ UNCHANGED done
  <2>1. PICK r \in Requests :
           /\ call' = [call EXCEPT ![a] = r] /\ r.built = call[a].tree.pin
           /\ r.at = "downloading" /\ r.victims = call[a].victims /\ r.id = call[a].id /\ r.op = call[a].op
           /\ r.f = call[a].f /\ r.declared = call[a].declared /\ r.excuses = call[a].excuses
    BY <1>1, <1>3, CopyFields
  <2>2. call'[a] = r
    BY <1>1, <2>1, OneCall
  <2>3. Placed(a)'
    BY <1>1, <2>1, <2>2 DEF RequestOK, Placed, Looking, Sweeping, WithTemp
  <2>4. Truthful(a)'
    BY <1>1, <2>1, <2>2 DEF RequestOK, Placed, Truthful, Looking, Sweeping, WithTemp
  <2>5. Excused(a)'
    BY <1>1, <2>1, <2>2 DEF RequestOK, Excused, Damaged, Sweeping, WithTemp
  <2>6. RequestOK(a)'
    BY <2>3, <2>4, <2>5 DEF RequestOK
  <2>7. call[a].id \in 1..requests
    BY <1>1 DEF RequestOK, Placed
  <2>8. VerdictHasCause' /\ CountsTyped'
    BY <1>1, <1>3, <2>7 DEF VerdictHasCause, NotBlamedOnCode, EnvFailureHasCause, CountsTyped
  <2>9. requests <= requests'
    BY <1>1, LeqSelf DEF CountsTyped
  <2>10. /\ \A i \in temps' : \/ r.id = i /\ r.at \in WithTemp
                              \/ i \in temps /\ ~(call[a].id = i /\ call[a].at \in WithTemp)
         /\ \A i \in containers' : i \in containers /\ ~(call[a].id = i /\ call[a].at = "running")
    BY <1>1, <1>3, <2>1 DEF WithTemp
  <2> QED
    BY <1>1, <2>1, <2>6, <2>8, <2>9, <2>10, MoveKeeps
<1> QED
  BY <1>2, <1>3 DEF CopyManifests, Copies

LEMMA BuildKeeps ==
  ASSUME CacheInv, NEW a \in Actors, Build(a)
  PROVE  CacheInv'
<1>1. PICK from \in {"downloading", "installing"}, to \in {"installing", "publish"} : RunDependencyContainer(a, from, to)
  BY DEF Build
<1>2. /\ StoreTyped /\ CountsTyped /\ RequestOK(a) /\ VerdictHasCause /\ call[a].at = from /\ from \in WithTemp /\ to \in WithTemp
      /\ to \in Places /\ UNCHANGED <<cache, order, containers, wrecks, images, requests, edits>>
  BY <1>1 DEF CacheInv, RunDependencyContainer, WithTemp, Places
<1>3. call[a].id \in 1..requests
  BY <1>2 DEF RequestOK, Placed, WithTemp
<1>4. CASE Go(a, to) /\ UNCHANGED <<done, temps, messy, faults>>
  <2> DEFINE q == call[a]
             r == [call[a] EXCEPT !.at = to]
  <2>1. call' = [call EXCEPT ![a] = r]
    BY <1>2, <1>4 DEF Go, StoreTyped
  <2>2. call[a] \in Requests
    BY <1>2 DEF StoreTyped
  <2>3. r \in Requests /\ call'[a] = r
    BY <1>2, <2>1, <2>2, AtOnly, OneCall
  <2>4. /\ call'[a].at = to /\ call'[a].id = q.id /\ call'[a].op = q.op /\ call'[a].tree = q.tree /\ call'[a].f = q.f
        /\ call'[a].declared = q.declared /\ call'[a].built = q.built /\ call'[a].victims = q.victims
        /\ call'[a].excuses = q.excuses
    BY <1>2, <1>4, GoFields
  <2> HIDE DEF r
  <2>5. Placed(a)'
    BY <1>2, <2>4 DEF RequestOK, Placed, Looking, Sweeping, WithTemp
  <2>6. Truthful(a)'
    BY <1>2, <2>4 DEF RequestOK, Truthful, Looking, Sweeping, WithTemp
  <2>7. Excused(a)'
    BY <1>2, <2>4 DEF RequestOK, Excused, Damaged, Sweeping, WithTemp
  <2>8. RequestOK(a)'
    BY <2>5, <2>6, <2>7 DEF RequestOK
  <2>9. VerdictHasCause' /\ CountsTyped'
    BY <1>2, <1>4 DEF VerdictHasCause, NotBlamedOnCode, EnvFailureHasCause, CountsTyped
  <2>10. requests <= requests'
    BY <1>2, LeqSelf DEF CountsTyped
  <2>11. /\ \A i \in temps' : \/ r.id = i /\ r.at \in WithTemp
                              \/ i \in temps /\ ~(call[a].id = i /\ call[a].at \in WithTemp)
         /\ \A i \in containers' : i \in containers /\ ~(call[a].id = i /\ call[a].at = "running")
    BY <1>2, <1>4, <2>3, <2>4 DEF WithTemp
  <2>12. call[a].at # "removing" /\ wrecks \subseteq wrecks' /\ messy \subseteq messy' /\ (edits' = 0 => edits = 0)
    BY <1>2, <1>4 DEF WithTemp
  <2> QED
    BY <1>2, <2>1, <2>3, <2>8, <2>9, <2>10, <2>11, <2>12, MoveKeeps
<1>5. CASE EnsureFails(a, {"fault"}) /\ \/ temps' = temps \ {call[a].id} /\ UNCHANGED messy
                                        \/ messy' = messy \cup {call[a].id} /\ UNCHANGED temps
  <2>1. PICK result \in {"ENV_UNAVAILABLE", "refused"} : Finish(a, result, {"fault"})
    BY <1>5 DEF EnsureFails
  <2>2. {"fault"} \in SUBSET Excuses /\ call[a].excuses \cup {"fault"} # {}
    BY DEF Excuses
  <2>3. /\ temps' \subseteq temps /\ containers' \subseteq containers
        /\ messy \subseteq messy' /\ messy' \subseteq messy \cup {call[a].id}
        /\ call[a].id \notin temps' \/ call[a].id \in messy'
    BY <1>2, <1>5
  <2>4. call[a].at \notin {"idle", "removing", "running"}
    BY <1>2 DEF WithTemp
  <2> QED
    BY <1>2, <2>1, <2>2, <2>3, <2>4, FinishKeeps
<1> QED
  BY <1>1, <1>4, <1>5 DEF RunDependencyContainer

\* What a container was started with is whole, or somebody has removed it.
LEMMA MountFacts ==
  ASSUME CacheInv, NEW a \in Actors, call[a].at \in {"start", "running"}, MountDamaged(a)
  PROVE  "removal" \in call[a].excuses
  BY DEF CacheInv, RequestOK, Excused, MountDamaged

LEMMA StartKeeps ==
  ASSUME CacheInv, NEW a \in Actors, StartContainer(a)
  PROVE  CacheInv'
<1>1. /\ StoreTyped /\ CountsTyped /\ RequestOK(a) /\ VerdictHasCause /\ call[a].at = "start"
      /\ UNCHANGED <<cache, order, temps, messy, wrecks, images, requests, edits>>
  BY DEF CacheInv, StartContainer
<1>2. CASE Go(a, "running") /\ containers' = containers \cup {call[a].id} /\ UNCHANGED <<done, faults>>
  <2> DEFINE q == call[a]
             r == [call[a] EXCEPT !.at = "running"]
  <2>1. call' = [call EXCEPT ![a] = r]
    BY <1>1, <1>2 DEF Go, StoreTyped
  <2>2. call[a] \in Requests /\ "running" \in Places
    BY <1>1 DEF StoreTyped, Places
  <2>3. r \in Requests /\ call'[a] = r
    BY <1>1, <2>1, <2>2, AtOnly, OneCall
  <2>4. /\ call'[a].at = "running" /\ call'[a].id = q.id /\ call'[a].op = q.op /\ call'[a].tree = q.tree /\ call'[a].f = q.f
        /\ call'[a].declared = q.declared /\ call'[a].built = q.built /\ call'[a].victims = q.victims
        /\ call'[a].excuses = q.excuses
    BY <1>1, <1>2, <2>2, GoFields
  <2> HIDE DEF r
  <2>5. Placed(a)'
    BY <1>1, <2>4 DEF RequestOK, Placed, Looking, Sweeping, WithTemp
  <2>6. Truthful(a)'
    BY <1>1, <2>4 DEF RequestOK, Truthful, Looking, Sweeping, WithTemp
  <2>7. Excused(a)'
    BY <1>1, <2>4 DEF RequestOK, Excused, Damaged, Sweeping, WithTemp
  <2>8. RequestOK(a)'
    BY <2>5, <2>6, <2>7 DEF RequestOK
  <2>9. call[a].id \in 1..requests
    BY <1>1 DEF RequestOK, Placed
  <2>10. VerdictHasCause' /\ CountsTyped'
    BY <1>1, <1>2, <2>9 DEF VerdictHasCause, NotBlamedOnCode, EnvFailureHasCause, CountsTyped
  <2>11. requests <= requests'
    BY <1>1, LeqSelf DEF CountsTyped
  <2>12. /\ \A i \in temps' : i \in temps /\ ~(call[a].id = i /\ call[a].at \in WithTemp)
         /\ \A i \in containers' : \/ r.id = i /\ r.at = "running"
                                   \/ i \in containers /\ ~(call[a].id = i /\ call[a].at = "running")
    BY <1>1, <1>2, <2>3, <2>4 DEF WithTemp
  <2> QED
    BY <1>1, <2>1, <2>3, <2>8, <2>10, <2>11, <2>12, MoveKeeps
<1>3. CASE UNCHANGED containers /\ Finish(a, Normalized(a, "TOOL_FAILURE"), {"fault"})
  <2>1. PICK result : Finish(a, result, {"fault"}) /\ result \in {"TOOL_FAILURE", "ENV_UNAVAILABLE"}
    BY <1>3 DEF Normalized
  <2> QED
    BY <1>1, <1>3, <2>1, PlainFinish DEF Excuses, WithTemp
<1>4. CASE /\ UNCHANGED containers /\ (~ImageThere(a) \/ MountDamaged(a))
           /\ Finish(a, Normalized(a, "TOOL_FAILURE"), IF ImageThere(a) THEN {} ELSE {"image"})
  <2>1. PICK result : /\ Finish(a, result, IF ImageThere(a) THEN {} ELSE {"image"})
                      /\ result \in {"TOOL_FAILURE", "ENV_UNAVAILABLE"}
    BY <1>4 DEF Normalized
  <2>2. CASE ImageThere(a)
    <3>1. Finish(a, result, {}) /\ call[a].excuses \cup {} # {}
      BY <1>1, <1>4, <2>1, <2>2, MountFacts
    <3> QED
      BY <1>1, <1>4, <2>1, <3>1, PlainFinish DEF Excuses, WithTemp
  <2>3. CASE ~ImageThere(a)
    BY <1>1, <1>4, <2>1, <2>3, PlainFinish DEF Excuses, WithTemp
  <2> QED
    BY <2>2, <2>3
<1> QED
  BY <1>2, <1>3, <1>4 DEF StartContainer

LEMMA EndKeeps ==
  ASSUME CacheInv, NEW a \in Actors, EndContainer(a) \/ TimeOut(a)
  PROVE  CacheInv'
<1>1. call[a].at = "running" /\ UNCHANGED <<cache, order, temps, wrecks, images, requests, edits>>
  BY DEF EndContainer, TimeOut
<1>2. /\ messy \subseteq messy' /\ messy' \subseteq messy \cup {call[a].id} /\ containers' \subseteq containers
      /\ call[a].id \notin containers' \/ call[a].id \in messy'
  BY DEF EndContainer, TimeOut, ForceRemove
<1>3. temps' \subseteq temps /\ call[a].at \notin WithTemp /\ wrecks \subseteq wrecks' /\ call[a].at # "idle" /\ call[a].at # "removing"
  BY <1>1 DEF WithTemp
<1>4. ASSUME NEW result \in Outcomes(a), Finish(a, result, {}) PROVE CacheInv'
  <2>1. result \in {"passed", "TEST_FAILURE", "spurious TEST_FAILURE"}
    BY DEF Outcomes
  <2>2. result = "spurious TEST_FAILURE" => MountDamaged(a)
    BY DEF Outcomes
  <2>3. /\ result = "spurious TEST_FAILURE" => "removal" \in call[a].excuses \cup {}
        /\ result \notin Unexplained /\ {} \in SUBSET Excuses
    BY <1>1, <2>1, <2>2, MountFacts DEF Unexplained
  <2> QED
    BY <1>1, <1>2, <1>3, <1>4, <2>3, FinishKeeps
<1>5. ASSUME NEW result \in {"TOOL_FAILURE", "ENV_UNAVAILABLE", "SANDBOX_TIMEOUT"}, Finish(a, result, {"fault"})
      PROVE  CacheInv'
  <2>1. /\ result # "spurious TEST_FAILURE" /\ call[a].excuses \cup {"fault"} # {}
        /\ {"fault"} \in SUBSET Excuses
    BY DEF Excuses
  <2> QED
    BY <1>1, <1>2, <1>3, <1>5, <2>1, FinishKeeps
<1>6. \/ \E result \in Outcomes(a) : Finish(a, result, {})
      \/ \E result \in {"TOOL_FAILURE", "ENV_UNAVAILABLE", "SANDBOX_TIMEOUT"} : Finish(a, result, {"fault"})
  BY DEF EndContainer, TimeOut, Normalized
<1> QED
  BY <1>4, <1>5, <1>6

-----------------------------------------------------------------------------
(* The environment *)

LEMMA ImagesKeep ==
  ASSUME CacheInv, UNCHANGED <<cache, order, call, done, temps, containers, messy, wrecks, requests, edits>>,
         images' \subseteq Runtimes
  PROVE  CacheInv'
<1>1. StoreTyped' /\ CountsTyped' /\ Ordered' /\ Owned' /\ Genuine'
  BY DEF CacheInv, StoreTyped, CountsTyped, Ordered, Present, Owned, Genuine
<1>2. \A a \in Actors : RequestOK(a)'
  BY DEF CacheInv, RequestOK, Placed, Truthful, Excused, Damaged, Victim
<1>3. WreckOwned' /\ VerdictHasCause'
  BY DEF CacheInv, WreckOwned, Damaged, Removing, Victim, VerdictHasCause, NotBlamedOnCode, EnvFailureHasCause
<1> QED
  BY <1>1, <1>2, <1>3 DEF CacheInv

Edited(a, t) == call' = [call EXCEPT ![a].tree = t, ![a].excuses = @ \cup {"edit"}]

LEMMA EditFields ==
  ASSUME StoreTyped, NEW a \in Actors, NEW t \in Trees, Edited(a, t)
  PROVE  \E r \in Requests :
           /\ call' = [call EXCEPT ![a] = r]
           /\ r.at = call[a].at /\ r.victims = call[a].victims /\ r.id = call[a].id /\ r.op = call[a].op
           /\ r.f = call[a].f /\ r.declared = call[a].declared /\ r.excuses = call[a].excuses \cup {"edit"}
<1>1. PICK q \in Requests : q = call[a]
  BY DEF StoreTyped
<1>2. PICK ex \in SUBSET Excuses : ex = call[a].excuses \cup {"edit"}
  <2>1. call[a].excuses \in SUBSET Excuses
    BY <1>1 DEF Requests
  <2> QED
    BY <2>1 DEF Excuses
<1> DEFINE r == [call[a] EXCEPT !.tree = t, !.excuses = ex]
<1>3. call' = [call EXCEPT ![a] = r]
  BY <1>2 DEF Edited, StoreTyped, Requests
<1> DEFINE s == [q EXCEPT !.tree = t, !.excuses = ex]
<1>4. /\ s \in Requests /\ s.at = q.at /\ s.victims = q.victims /\ s.id = q.id /\ s.op = q.op
      /\ s.f = q.f /\ s.declared = q.declared /\ s.excuses = ex
  BY DEF Requests
<1>5. r = s
  BY <1>1
<1> QED
  BY <1>1, <1>2, <1>3, <1>4, <1>5, Zenon

LEMMA EditKeeps ==
  ASSUME CacheInv, NEW a \in Actors, EditManifest(a)
  PROVE  CacheInv'
<1>1. /\ StoreTyped /\ CountsTyped /\ RequestOK(a) /\ VerdictHasCause /\ edits' = edits + 1
      /\ UNCHANGED <<cache, order, done, temps, containers, messy, wrecks, images, requests>>
  BY DEF CacheInv, EditManifest
<1>2. PICK t \in Trees : Edited(a, t)
  BY DEF EditManifest, Edited
<1>3. PICK r \in Requests :
        /\ call' = [call EXCEPT ![a] = r]
        /\ r.at = call[a].at /\ r.victims = call[a].victims /\ r.id = call[a].id /\ r.op = call[a].op
        /\ r.f = call[a].f /\ r.declared = call[a].declared /\ r.excuses = call[a].excuses \cup {"edit"}
  BY <1>1, <1>2, EditFields
<1>4. call'[a] = r
  BY <1>1, <1>3, OneCall
<1>5. edits \in Nat /\ edits' \in Nat /\ edits' # 0
  <2>1. edits \in Nat
    BY <1>1 DEF CountsTyped
  <2> QED
    BY <1>1, <2>1
<1>6. Placed(a)'
  BY <1>1, <1>3, <1>4 DEF RequestOK, Placed
<1>7. Truthful(a)'
  BY <1>1, <1>3, <1>4, <1>5 DEF RequestOK, Truthful
<1>8. Excused(a)'
  BY <1>1, <1>3, <1>4 DEF RequestOK, Excused, Damaged, Victim
<1>9. RequestOK(a)'
  BY <1>6, <1>7, <1>8 DEF RequestOK
<1>10. VerdictHasCause' /\ CountsTyped'
  BY <1>1, <1>5 DEF VerdictHasCause, NotBlamedOnCode, EnvFailureHasCause, CountsTyped
<1>11. requests <= requests'
  BY <1>1, LeqSelf DEF CountsTyped
<1>12. /\ \A i \in temps' : \/ r.id = i /\ r.at \in WithTemp
                            \/ i \in temps /\ ~(call[a].id = i /\ call[a].at \in WithTemp)
       /\ \A i \in containers' : \/ r.id = i /\ r.at = "running"
                                 \/ i \in containers /\ ~(call[a].id = i /\ call[a].at = "running")
  BY <1>1, <1>3
<1> QED
  BY <1>1, <1>3, <1>5, <1>9, <1>10, <1>11, <1>12, MoveKeeps

LEMMA DieKeeps ==
  ASSUME CacheInv, NEW a \in Actors, Die(a)
  PROVE  CacheInv'
<1>1. /\ call[a].at # "idle" /\ Finish(a, "died", {"fault"}) /\ messy' = messy \cup {call[a].id}
      /\ UNCHANGED <<cache, order, temps, containers, images, requests, edits>>
  BY DEF Die
<1>2. wrecks \subseteq wrecks' /\ (call[a].at = "removing" => Victim(a) \in wrecks')
  BY DEF Die
<1>3. {"fault"} \in SUBSET Excuses /\ "died" \notin Unexplained
  BY DEF Excuses, Unexplained
<1> QED
  BY <1>1, <1>2, <1>3, FinishKeeps

-----------------------------------------------------------------------------
(* Entries *)

LEMMA HeadIs ==
  ASSUME StoreTyped, NEW a \in Actors, RequestOK(a), call[a].at \in {"remove", "removing"}
  PROVE  /\ Victim(a) \in Keys /\ call[a].victims \in Seq(Keys) /\ call[a].victims # <<>>
         /\ Len(call[a].victims) >= 1 /\ Victim(a) = call[a].victims[1]
         /\ call[a].op # "rebuild" => Victim(a) # call[a].f
<1>1. call[a].victims \in Seq(Keys) /\ call[a].victims # <<>>
  BY DEF StoreTyped, Requests, RequestOK, Placed
<1>2. PICK v \in Seq(Keys) : v = call[a].victims
  BY <1>1
<1>3. Len(v) >= 1 /\ Head(v) = v[1] /\ v[1] \in Keys
  BY <1>1, <1>2
<1>4. Victim(a) = v[1]
  BY <1>2, <1>3 DEF Victim
<1>5. call[a].op # "rebuild" => v[1] # call[a].f
  BY <1>2, <1>3 DEF RequestOK, Placed
<1> QED
  BY <1>1, <1>2, <1>3, <1>4, <1>5

Begins(a, v) ==
  call' = [b \in Actors |->
             CASE b = a -> [call[b] EXCEPT !.at = "removing"]
               [] b # a /\ call[b].f = v -> [call[b] EXCEPT !.excuses = @ \cup {"removal"}]
               [] OTHER -> call[b]]

LEMMA BeginsFields ==
  ASSUME StoreTyped, NEW a \in Actors, NEW v, Begins(a, v)
  PROVE  /\ call' \in [Actors -> Requests]
         /\ \A b \in Actors :
              /\ call'[b].id = call[b].id /\ call'[b].op = call[b].op /\ call'[b].tree = call[b].tree
              /\ call'[b].f = call[b].f /\ call'[b].declared = call[b].declared /\ call'[b].built = call[b].built
              /\ call'[b].victims = call[b].victims
              /\ call'[b].at = IF b = a THEN "removing" ELSE call[b].at
              /\ call'[b].excuses = IF b # a /\ call[b].f = v THEN call[b].excuses \cup {"removal"} ELSE call[b].excuses
<1>1. ASSUME NEW b \in Actors
      PROVE  /\ call'[b] \in Requests
             /\ call'[b].id = call[b].id /\ call'[b].op = call[b].op /\ call'[b].tree = call[b].tree
             /\ call'[b].f = call[b].f /\ call'[b].declared = call[b].declared /\ call'[b].built = call[b].built
             /\ call'[b].victims = call[b].victims
             /\ call'[b].at = IF b = a THEN "removing" ELSE call[b].at
             /\ call'[b].excuses = IF b # a /\ call[b].f = v THEN call[b].excuses \cup {"removal"} ELSE call[b].excuses
  <2>1. PICK q \in Requests : q = call[b]
    BY DEF StoreTyped
  <2>2. CASE b = a
    <3>1. call'[b] = [q EXCEPT !.at = "removing"]
      BY <2>1, <2>2 DEF Begins
    <3>2. "removing" \in Places
      BY DEF Places
    <3> QED
      BY <2>1, <2>2, <3>1, <3>2 DEF Requests
  <2>3. CASE b # a /\ call[b].f = v
    <3>1. PICK ex \in SUBSET Excuses : ex = q.excuses \cup {"removal"}
      BY DEF Excuses, Requests
    <3>2. call'[b] = [q EXCEPT !.excuses = ex]
      BY <2>1, <2>3, <3>1 DEF Begins
    <3> QED
      BY <2>1, <2>3, <3>1, <3>2 DEF Requests
  <2>4. CASE b # a /\ call[b].f # v
    BY <2>1, <2>4 DEF Begins
  <2> QED
    BY <2>2, <2>3, <2>4
<1>2. call' \in [Actors -> Requests]
  <2>1. call' = [b \in Actors |-> call'[b]]
    BY DEF Begins
  <2> QED
    BY <1>1, <2>1
<1> QED
  BY <1>1, <1>2

LEMMA BeginRemovalKeeps ==
  ASSUME CacheInv, NEW a \in Actors, BeginRemoval(a)
  PROVE  CacheInv'
<1> DEFINE v == Victim(a)
<1>1. /\ StoreTyped /\ CountsTyped /\ Ordered /\ WreckOwned /\ Owned /\ Genuine /\ VerdictHasCause
      /\ call[a].at = "remove" /\ UNCHANGED <<order, temps, containers, messy, wrecks, images, requests, edits>>
      /\ \A b \in Actors : RequestOK(b)
  BY DEF CacheInv, BeginRemoval
<1>2. CASE Finish(a, "exception", {"removal"}) /\ UNCHANGED cache
  BY <1>1, <1>2, PlainFinish DEF WithTemp, Excuses, Unexplained
<1>3. CASE /\ cache[v].at # "none"
           /\ \E left \in {"torn", "hollow"} : cache' = [cache EXCEPT ![v].at = left]
           /\ Begins(a, v) /\ UNCHANGED done
  <2>1. PICK k \in Keys : k = v /\ (call[a].op # "rebuild" => k # call[a].f)
    BY <1>1, HeadIs
  <2>2. PICK left \in {"torn", "hollow"} : cache' = [cache EXCEPT ![k].at = left]
    BY <1>3, <2>1
  <2>3. /\ cache' \in [Keys -> Entries] /\ cache'[k].at = left
        /\ \A g \in Keys : cache'[g].pin = cache[g].pin /\ (g # k => cache'[g] = cache[g])
    BY <1>1, <2>2 DEF StoreTyped, Entries
  <2>4. /\ call' \in [Actors -> Requests]
        /\ \A b \in Actors :
             /\ call'[b].id = call[b].id /\ call'[b].op = call[b].op /\ call'[b].tree = call[b].tree
             /\ call'[b].f = call[b].f /\ call'[b].declared = call[b].declared /\ call'[b].built = call[b].built
             /\ call'[b].victims = call[b].victims
             /\ call'[b].at = IF b = a THEN "removing" ELSE call[b].at
             /\ call'[b].excuses = IF b # a /\ call[b].f = k THEN call[b].excuses \cup {"removal"} ELSE call[b].excuses
    BY <1>1, <1>3, <2>1, BeginsFields
  <2> HIDE DEF v
  <2>5. StoreTyped' /\ CountsTyped' /\ VerdictHasCause'
    BY <1>1, <1>3, <2>3, <2>4 DEF StoreTyped, CountsTyped, VerdictHasCause, NotBlamedOnCode, EnvFailureHasCause
  <2>6. Ordered'
    <3>1. Present' = Present
      BY <1>3, <2>1, <2>3 DEF Present
    <3> QED
      BY <1>1, <3>1 DEF Ordered
  <2>7. ASSUME NEW b \in Actors, b # a PROVE RequestOK(b)'
    <3>1. RequestOK(b) /\ call[b].f \in Keys \cup {Nothing}
      BY <1>1 DEF StoreTyped, Requests
    <3>2. /\ call'[b].id = call[b].id /\ call'[b].op = call[b].op /\ call'[b].at = call[b].at
          /\ call'[b].f = call[b].f /\ call'[b].victims = call[b].victims /\ requests' = requests
      BY <1>1, <2>4, <2>7
    <3>3. Placed(b)'
      BY <3>1, <3>2 DEF RequestOK, Placed
    <3>4. Truthful(b)'
      BY <1>1, <2>4, <2>7, <3>1 DEF RequestOK, Truthful
    <3>5. CASE call[b].f = k
      <4>1. "removal" \in call'[b].excuses
        BY <2>4, <2>7, <3>5
      <4>2. Excused(b)'
        BY <4>1 DEF Excused
      <4> QED
        BY <3>3, <3>4, <4>2 DEF RequestOK
    <3>6. CASE call[b].f # k
      <4>1. call'[b].excuses = call[b].excuses /\ call'[b].at = call[b].at
        BY <2>4, <2>7, <3>6
      <4>2. call[b].f # Nothing => cache'[call[b].f] = cache[call[b].f]
        BY <2>3, <3>1, <3>6
      <4>3. Excused(b)'
        BY <2>4, <3>1, <4>1, <4>2 DEF RequestOK, Excused, Damaged, Victim
      <4> QED
        BY <3>3, <3>4, <4>3 DEF RequestOK
    <3> QED
      BY <3>5, <3>6
  <2>8. RequestOK(a)'
    <3>1. RequestOK(a) /\ call[a].f \in Keys \cup {Nothing} /\ call'[a].at = "removing" /\ call'[a].excuses = call[a].excuses
      BY <1>1, <2>4 DEF StoreTyped, Requests
    <3>2. Placed(a)'
      BY <1>1, <2>4, <3>1 DEF RequestOK, Placed, Looking, Sweeping, WithTemp
    <3>3. Truthful(a)'
      BY <1>1, <2>4, <3>1 DEF RequestOK, Truthful, Looking, Sweeping, WithTemp
    <3>4. Victim(a)' = k
      BY <2>1, <2>4 DEF Victim, v
    <3>5. Excused(a)'
      <4>1. CASE call[a].f = k
        <5>1. call'[a].op = "rebuild" /\ call'[a].f = k
          BY <2>1, <2>4, <4>1
        <5> QED
          BY <3>1, <3>4, <5>1 DEF Excused, Sweeping, WithTemp
      <4>2. CASE call[a].f # k
        <5>1. call[a].f # Nothing => cache'[call[a].f] = cache[call[a].f]
          BY <2>3, <3>1, <4>2
        <5> QED
          BY <1>1, <2>4, <3>1, <5>1 DEF RequestOK, Excused, Damaged, Sweeping, WithTemp
      <4> QED
        BY <4>1, <4>2
    <3> QED
      BY <3>2, <3>3, <3>5 DEF RequestOK
  <2>9. WreckOwned'
    <3> SUFFICES ASSUME NEW g \in Keys, Damaged(g)' PROVE Removing(g)' \/ g \in wrecks'
      BY DEF WreckOwned
    <3>1. CASE g = k
      <4>1. call'[a].at = "removing" /\ Victim(a)' = g
        BY <2>1, <2>4, <3>1 DEF Victim, v
      <4> QED
        BY <4>1 DEF Removing, Victim
    <3>2. CASE g # k
      <4>1. Removing(g) \/ g \in wrecks
        BY <1>1, <2>3, <3>2 DEF WreckOwned, Damaged
      <4>2. CASE g \in wrecks
        BY <1>1, <4>2
      <4>3. CASE Removing(g)
        <5>1. PICK b \in Actors : call[b].at = "removing" /\ Victim(b) = g
          BY <4>3 DEF Removing
        <5>2. call'[b].at = "removing" /\ call'[b].victims = call[b].victims
          BY <2>4, <5>1
        <5> QED
          BY <5>1, <5>2 DEF Removing, Victim
      <4> QED
        BY <4>1, <4>2, <4>3
    <3> QED
      BY <3>1, <3>2
  <2>10. Owned'
    <3>1. \A b \in Actors : /\ call[b].at \in WithTemp => call'[b].at = call[b].at
                            /\ call[b].at = "running" => call'[b].at = call[b].at
                            /\ call'[b].id = call[b].id
      BY <1>1, <2>4 DEF WithTemp
    <3> QED
      BY <1>1, <3>1 DEF Owned, WithTemp
  <2>11. Genuine'
    <3>1. \A g \in Keys : cache'[g].at = "whole" => cache[g].at = "whole" /\ cache'[g].pin = cache[g].pin
      BY <2>3
    <3> QED
      BY <1>1, <3>1 DEF Genuine
  <2>12. \A b \in Actors : RequestOK(b)'
    BY <2>7, <2>8
  <2> QED
    BY <2>5, <2>6, <2>9, <2>10, <2>11, <2>12 DEF CacheInv
<1> QED
  BY <1>2, <1>3 DEF BeginRemoval, Begins

Placing(a, r, k, e) == call' = [call EXCEPT ![a] = r] /\ cache' = [cache EXCEPT ![k] = e]

\* An entry is taken away, which somebody has damaged, or put in place.
LEMMA EntryKept ==
  ASSUME CacheInv, NEW a \in Actors, NEW r \in Requests, NEW k \in Keys, NEW e \in Entries, Placing(a, r, k, e),
         e.at = "whole" \/ (e.at = "none" /\ Damaged(k)), edits = 0 /\ e.at = "whole" => e.pin = k.pin,
         wrecks' = wrecks, requests' = requests, edits' = edits,
         call[a].at = "removing" => Victim(a) = k
  PROVE  /\ StoreTyped' /\ Genuine' /\ WreckOwned' /\ call'[a] = r /\ cache'[k] = e
         /\ (\A g \in Keys \ {k} : cache'[g] = cache[g])
         /\ (\A b \in Actors \ {a} : call'[b] = call[b] /\ RequestOK(b)')
<1>1. StoreTyped /\ WreckOwned /\ Genuine
  BY DEF CacheInv
<1>2. call' \in [Actors -> Requests] /\ call'[a] = r /\ \A b \in Actors \ {a} : call'[b] = call[b]
  BY <1>1, OneCall DEF Placing
<1>3. cache' \in [Keys -> Entries] /\ cache'[k] = e /\ \A g \in Keys \ {k} : cache'[g] = cache[g]
  BY <1>1 DEF StoreTyped, Placing
<1>4. StoreTyped'
  BY <1>2, <1>3 DEF StoreTyped
<1>5. Genuine'
  BY <1>1, <1>3 DEF Genuine
<1>6. WreckOwned'
  <2> SUFFICES ASSUME NEW g \in Keys, Damaged(g)' PROVE Removing(g)' \/ g \in wrecks'
    BY DEF WreckOwned
  <2>1. g # k /\ Damaged(g)
    BY <1>3 DEF Damaged
  <2>2. CASE g \in wrecks
    BY <2>2
  <2>3. CASE Removing(g)
    <3>1. PICK b \in Actors : call[b].at = "removing" /\ Victim(b) = g
      BY <2>3 DEF Removing
    <3>2. b # a
      BY <2>1, <3>1
    <3>3. call'[b] = call[b]
      BY <1>2, <3>2
    <3> QED
      BY <3>1, <3>3 DEF Removing, Victim
  <2> QED
    BY <1>1, <2>1, <2>2, <2>3 DEF WreckOwned
<1>7. ASSUME NEW b \in Actors \ {a} PROVE RequestOK(b)'
  <2>1. call'[b] = call[b] /\ RequestOK(b) /\ call[b].f \in Keys \cup {Nothing}
    BY <1>1, <1>2 DEF CacheInv, StoreTyped, Requests
  <2>2. Placed(b)' /\ Truthful(b)'
    BY <2>1 DEF RequestOK, Placed, Truthful
  <2>3. CASE call[b].f = k
    <3>1. /\ e.at # "whole" => cache[k].at \in {"hollow", "torn"}
          /\ cache'[call'[b].f].at \in {"none", "whole"} /\ cache'[call'[b].f].at = e.at
      BY <1>3, <2>1, <2>3 DEF Damaged
    <3>2. Excused(b)'
      BY <2>1, <2>3, <3>1 DEF RequestOK, Excused, Damaged
    <3> QED
      BY <2>2, <3>2 DEF RequestOK
  <2>4. CASE call[b].f # k
    <3>1. call[b].f # Nothing => cache'[call[b].f] = cache[call[b].f]
      BY <1>3, <2>1, <2>4
    <3>2. Excused(b)'
      BY <2>1, <3>1 DEF RequestOK, Excused, Damaged, Victim
    <3> QED
      BY <2>2, <3>2 DEF RequestOK
  <2> QED
    BY <2>3, <2>4
<1> QED
  BY <1>2, <1>3, <1>4, <1>5, <1>6, <1>7

\* The order without an entry that is gone.
LEMMA OrderWithout ==
  ASSUME Ordered, NEW k \in Keys, cache[k].at # "none", cache'[k].at = "none",
         \A g \in Keys \ {k} : cache'[g] = cache[g], order' = RemoveFirst(order, k)
  PROVE  Ordered'
<1>1. Present' = Present \ {k} /\ k \in Present
  BY DEF Present
<1>2. /\ order' \in Seq(Keys) /\ OnceEach(order') /\ Elements(order') = Elements(order) \ {k}
      /\ k \in Elements(order) => Len(order') = Len(order) - 1
  BY RemoveFirstFacts DEF Ordered
<1>3. k \in Elements(order) /\ Elements(order) = Present
  BY <1>1 DEF Ordered
<1>4. IsFiniteSet(Present') /\ Cardinality(Present') = Cardinality(Present) - 1
  BY <1>1, FS_RemoveElement DEF Ordered
<1>5. Len(order') = Cardinality(Present')
  BY <1>2, <1>3, <1>4 DEF Ordered
<1>6. OnceEach(order)' /\ (Elements(order) = Present)'
  BY <1>1, <1>2, <1>3 DEF OnceEach, Elements
<1> QED
  BY <1>2, <1>4, <1>5, <1>6 DEF Ordered

\* The order with a new entry.
LEMMA OrderWith ==
  ASSUME Ordered, NEW k \in Keys, cache[k].at = "none", cache'[k].at # "none",
         \A g \in Keys \ {k} : cache'[g] = cache[g], order' = Append(order, k)
  PROVE  Ordered'
<1>1. Present' = Present \cup {k} /\ k \notin Present
  BY DEF Present
<1>2. /\ order \in Seq(Keys) /\ order' \in Seq(Keys) /\ Len(order) \in Nat /\ Len(order') = Len(order) + 1
      /\ \A i \in 1..Len(order) : order'[i] = order[i]
      /\ order'[Len(order) + 1] = k
  BY DEF Ordered
<1>3. \A i \in 1..Len(order) : order[i] # k
  BY <1>1 DEF Ordered, Elements
<1>4. \A i, j \in 1..Len(order') : order'[i] = order'[j] => i = j
  <2> SUFFICES ASSUME NEW i \in 1..Len(order'), NEW j \in 1..Len(order'), order'[i] = order'[j] PROVE i = j
    OBVIOUS
  <2>1. \A n \in 1..Len(order') : n \in 1..Len(order) \/ n = Len(order) + 1
    BY <1>2
  <2>2. CASE i \in 1..Len(order) /\ j \in 1..Len(order)
    BY <1>2, <2>2 DEF Ordered, OnceEach
  <2> QED
    BY <1>2, <1>3, <2>1, <2>2
<1>5. {order'[i] : i \in 1..Len(order')} = Present'
  <2>1. {order[i] : i \in 1..Len(order)} = Present
    BY DEF Ordered, Elements
  <2>2. ASSUME NEW x \in Present' PROVE \E i \in 1..Len(order') : x = order'[i]
    <3>1. CASE x = k
      <4>1. Len(order) + 1 \in 1..Len(order')
        BY <1>2
      <4> QED
        BY <1>2, <3>1, <4>1
    <3>2. CASE x \in Present
      <4>1. PICK i \in 1..Len(order) : x = order[i]
        BY <2>1, <3>2
      <4>2. i \in 1..Len(order') /\ order'[i] = x
        BY <1>2, <4>1
      <4> QED
        BY <4>2
    <3> QED
      BY <1>1, <3>1, <3>2
  <2>3. ASSUME NEW i \in 1..Len(order') PROVE order'[i] \in Present'
    <3>1. CASE i \in 1..Len(order)
      BY <1>1, <1>2, <2>1, <3>1
    <3>2. CASE i = Len(order) + 1
      BY <1>1, <1>2, <3>2
    <3> QED
      BY <1>2, <3>1, <3>2
  <2> QED
    BY <2>2, <2>3
<1>6. IsFiniteSet(Present') /\ Cardinality(Present') = Cardinality(Present) + 1
  BY <1>1, FS_AddElement DEF Ordered
<1>7. Len(order') = Cardinality(Present')
  BY <1>2, <1>6 DEF Ordered
<1>8. OnceEach(order)' /\ (Elements(order) = Present)'
  BY <1>4, <1>5 DEF OnceEach, Elements
<1> QED
  BY <1>2, <1>6, <1>7, <1>8 DEF Ordered

LEMMA RemovedFacts ==
  ASSUME CacheInv, NEW a \in Actors, NEW r \in Requests, call' = [call EXCEPT ![a] = r],
         NEW k \in Keys, call[a].at = "removing" => Victim(a) = k, Damaged(k), cache' = [cache EXCEPT ![k] = NoEntry],
         wrecks' = wrecks, requests' = requests, edits' = edits
  PROVE  /\ StoreTyped' /\ Genuine' /\ WreckOwned' /\ call'[a] = r /\ cache'[k] = NoEntry
         /\ (\A g \in Keys \ {k} : cache'[g] = cache[g])
         /\ (\A b \in Actors \ {a} : call'[b] = call[b] /\ RequestOK(b)')
<1>0. NoEntry \in Entries /\ NoEntry.at = "none"
  BY DEF NoEntry, Entries, Pins
<1>1. PICK e \in Entries : e = NoEntry /\ e.at = "none"
  BY <1>0
<1>2. Placing(a, r, k, e)
  BY <1>1 DEF Placing
<1>3. /\ e.at = "whole" \/ (e.at = "none" /\ Damaged(k))
      /\ edits = 0 /\ e.at = "whole" => e.pin = k.pin
  BY <1>1
<1>5. /\ StoreTyped' /\ Genuine' /\ WreckOwned' /\ call'[a] = r /\ cache'[k] = e
      /\ (\A g \in Keys \ {k} : cache'[g] = cache[g])
      /\ (\A b \in Actors \ {a} : call'[b] = call[b] /\ RequestOK(b)')
  BY <1>2, <1>3, EntryKept, Zenon
<1> QED
  BY <1>1, <1>5, Zenon

\* A request that has removed an entry goes on, or is through.
LEMMA RemovedKeeps ==
  ASSUME CacheInv, NEW a \in Actors, NEW r \in Requests, call' = [call EXCEPT ![a] = r],
         NEW k \in Keys, k = Victim(a), call[a].at = "removing", Damaged(k), cache' = [cache EXCEPT ![k] = NoEntry],
         order' = RemoveFirst(order, k), UNCHANGED <<temps, containers, messy, wrecks, images, requests, edits>>,
         VerdictHasCause', RequestOK(a)'
  PROVE  CacheInv'
<1>1. NoEntry.at = "none"
  BY DEF NoEntry
<1>2. /\ StoreTyped' /\ Genuine' /\ WreckOwned' /\ call'[a] = r /\ cache'[k] = NoEntry
      /\ (\A g \in Keys \ {k} : cache'[g] = cache[g])
      /\ (\A b \in Actors \ {a} : call'[b] = call[b] /\ RequestOK(b)')
  BY RemovedFacts
<1>3. CountsTyped'
  BY DEF CacheInv, CountsTyped
<1>4. Ordered'
  <2>1. Ordered /\ cache[k].at # "none"
    BY DEF CacheInv, Damaged
  <2> QED
    BY <1>1, <1>2, <2>1, OrderWithout
<1>5. Owned'
  <2>1. /\ Owned /\ \A b \in Actors \ {a} : call'[b] = call[b]
        /\ \A i \in temps' : i \in temps /\ ~(call[a].id = i /\ call[a].at \in WithTemp)
        /\ \A i \in containers' : i \in containers /\ ~(call[a].id = i /\ call[a].at = "running")
    BY <1>2 DEF CacheInv, WithTemp
  <2> QED
    BY <2>1, OwnedStep
<1>6. \A b \in Actors : RequestOK(b)'
  BY <1>2
<1> QED
  BY <1>2, <1>3, <1>4, <1>5, <1>6 DEF CacheInv

\* What a request knows that goes on after a removal.
LEMMA OnwardOK ==
  ASSUME CacheInv, NEW a \in Actors, NEW r \in Requests, call'[a] = r, NEW k \in Keys, k = Victim(a),
         call[a].at = "removing", UNCHANGED <<requests, edits>>,
         \A g \in Keys \ {k} : cache'[g] = cache[g], cache'[k] = NoEntry,
         NEW rest \in Seq(Keys), rest = Tail(call[a].victims), NEW x \in {"remove", "lookup", "build"},
         r.at = x, r.victims = rest, r.id = call[a].id, r.op = call[a].op, r.tree = call[a].tree,
         r.f = call[a].f, r.declared = call[a].declared, r.built = call[a].built, r.excuses = call[a].excuses,
         x = "remove" <=> rest # <<>>, call[a].op = "cleanup" => x = "remove"
  PROVE  RequestOK(a)'
<1>1. StoreTyped /\ RequestOK(a)
  BY DEF CacheInv
<1>2. call[a].victims \in Seq(Keys) /\ Len(call[a].victims) >= 1
  BY <1>1, HeadIs
<1>3. call[a].op # "rebuild" => \A i \in 1..Len(rest) : rest[i] # call[a].f
  <2>1. Len(rest) = Len(call[a].victims) - 1 /\ \A i \in 1..Len(rest) : rest[i] = call[a].victims[i + 1]
    BY <1>2
  <2>2. \A i \in 1..Len(rest) : i + 1 \in 1..Len(call[a].victims)
    BY <1>2, <2>1
  <2> QED
    BY <1>1, <2>1, <2>2 DEF RequestOK, Placed
<1>4. call[a].op # "cleanup" => call[a].f # Nothing
  BY <1>1 DEF RequestOK, Placed, Sweeping
<1>5. Placed(a)'
  BY <1>1, <1>3, <1>4 DEF RequestOK, Placed, Looking, Sweeping, WithTemp
<1>6. Truthful(a)'
  BY <1>1 DEF RequestOK, Truthful, Looking, Sweeping, WithTemp
<1>7. call[a].f \in Keys \cup {Nothing}
  BY <1>1 DEF StoreTyped, Requests
<1>8. CASE call[a].f = k
  <2>1. cache'[r.f].at = "none"
    BY <1>8 DEF NoEntry
  <2>2. Excused(a)'
    BY <2>1 DEF Excused, Damaged
  <2> QED
    BY <1>5, <1>6, <2>2 DEF RequestOK
<1>9. CASE call[a].f # k
  <2>1. call[a].f # Nothing => cache'[call[a].f] = cache[call[a].f]
    BY <1>7, <1>9
  <2>2. Excused(a)'
    BY <1>1, <1>9, <2>1 DEF RequestOK, Excused, Damaged, Sweeping, WithTemp
  <2> QED
    BY <1>5, <1>6, <2>2 DEF RequestOK
<1> QED
  BY <1>8, <1>9

LEMMA EndRemovalKeeps ==
  ASSUME CacheInv, NEW a \in Actors, EndRemoval(a)
  PROVE  CacheInv'
<1>1. /\ StoreTyped /\ RequestOK(a) /\ call[a].at = "removing" /\ VerdictHasCause
      /\ UNCHANGED <<temps, containers, messy, wrecks, images, requests, edits>>
  BY DEF CacheInv, EndRemoval
<1>2. PICK k \in Keys : k = Victim(a)
  BY <1>1, HeadIs
<1>3. CASE ~Damaged(k)
  <2>1. Finish(a, "exception", {"removal"}) /\ UNCHANGED <<cache, order>>
    BY <1>2, <1>3 DEF EndRemoval
  <2> QED
    BY <1>1, <1>2, <1>3, <2>1, PlainFinish DEF WithTemp, Excuses, Unexplained
<1>4. CASE Damaged(k)
  <2>1. cache' = [cache EXCEPT ![k] = NoEntry] /\ order' = RemoveFirst(order, k) /\ AfterRemoval(a)
    BY <1>2, <1>4 DEF EndRemoval
  <2>2. PICK rest \in Seq(Keys) : rest = Tail(call[a].victims)
    <3>1. PICK v \in Seq(Keys) : v = call[a].victims /\ v # <<>>
      BY <1>1, HeadIs
    <3>2. Tail(v) \in Seq(Keys)
      BY <3>1
    <3> QED
      BY <3>1, <3>2
  <2>3. \/ rest # <<>> /\ Chosen(a, rest, "remove") /\ UNCHANGED done
        \/ Finish(a, "ready", {})
        \/ rest = <<>> /\ call[a].op # "cleanup" /\ Chosen(a, rest, "lookup") /\ UNCHANGED done
        \/ rest = <<>> /\ call[a].op # "cleanup" /\ Chosen(a, rest, "build") /\ UNCHANGED done
    BY <2>1, <2>2 DEF AfterRemoval, Chosen
  <2>4. CASE Finish(a, "ready", {})
    <3>1. call' = [call EXCEPT ![a] = NoRequest] /\ VerdictHasCause' /\ NoRequest \in Requests
      BY <2>4, NoRequestTyped DEF Finish, VerdictHasCause, NotBlamedOnCode, EnvFailureHasCause
    <3>2. call'[a] = NoRequest
      BY <1>1, <3>1, OneCall
    <3>3. RequestOK(a)'
      BY <3>2, EndedOK
    <3> QED
      BY <1>1, <1>2, <1>4, <2>1, <3>1, <3>3, RemovedKeeps
  <2>5. ASSUME NEW x \in {"remove", "lookup", "build"}, Chosen(a, rest, x), UNCHANGED done,
               x = "remove" <=> rest # <<>>, call[a].op = "cleanup" => x = "remove"
        PROVE  CacheInv'
    <3>1. x \in Places
      BY DEF Places
    <3>2. PICK r \in Requests :
            /\ call' = [call EXCEPT ![a] = r]
            /\ r.at = x /\ r.victims = rest /\ r.id = call[a].id /\ r.op = call[a].op /\ r.tree = call[a].tree
            /\ r.f = call[a].f /\ r.declared = call[a].declared /\ r.built = call[a].built
            /\ r.excuses = call[a].excuses
      BY <1>1, <2>5, <3>1, VictimsFields
    <3>3. VerdictHasCause'
      BY <1>1, <2>5 DEF VerdictHasCause, NotBlamedOnCode, EnvFailureHasCause
    <3>4. (\A g \in Keys \ {k} : cache'[g] = cache[g]) /\ cache'[k] = NoEntry /\ call'[a] = r
      BY <1>1, <1>2, <1>4, <2>1, <3>2, RemovedFacts
    <3>5. RequestOK(a)'
      BY <1>1, <1>2, <2>2, <2>5, <3>2, <3>4, OnwardOK
    <3> QED
      BY <1>1, <1>2, <1>4, <2>1, <3>2, <3>3, <3>5, RemovedKeeps
  <2> QED
    BY <2>3, <2>4, <2>5
<1> QED
  BY <1>3, <1>4

\* What was built is put where nothing is.
LEMMA PlacedKeeps ==
  ASSUME CacheInv, NEW a \in Actors, NEW r \in Requests, NEW k \in Keys, NEW e \in Entries, Placing(a, r, k, e),
         call[a].at = "publish", cache[k].at = "none", e.at = "whole", edits = 0 => e.pin = k.pin,
         order' = Append(order, k), temps' = temps \ {call[a].id},
         UNCHANGED <<containers, messy, wrecks, images, requests, edits>>, VerdictHasCause', RequestOK(a)'
  PROVE  CacheInv'
<1>1. /\ e.at = "whole" \/ (e.at = "none" /\ Damaged(k))
      /\ edits = 0 /\ e.at = "whole" => e.pin = k.pin
      /\ call[a].at = "removing" => Victim(a) = k
      /\ wrecks' = wrecks /\ requests' = requests /\ edits' = edits
  OBVIOUS
<1>2. /\ StoreTyped' /\ Genuine' /\ WreckOwned' /\ call'[a] = r /\ cache'[k] = e
      /\ (\A g \in Keys \ {k} : cache'[g] = cache[g])
      /\ (\A b \in Actors \ {a} : call'[b] = call[b] /\ RequestOK(b)')
  BY <1>1, EntryKept, Zenon
<1>3. CountsTyped'
  BY DEF CacheInv, CountsTyped
<1>4. Ordered'
  <2>1. Ordered /\ cache'[k].at # "none"
    BY <1>2 DEF CacheInv
  <2> QED
    BY <1>2, <2>1, OrderWith
<1>5. Owned'
  <2>1. /\ Owned /\ \A b \in Actors \ {a} : call'[b] = call[b]
        /\ \A i \in temps' : i \in temps /\ ~(call[a].id = i /\ call[a].at \in WithTemp)
        /\ \A i \in containers' : i \in containers /\ ~(call[a].id = i /\ call[a].at = "running")
    BY <1>2 DEF CacheInv, WithTemp
  <2> QED
    BY <2>1, OwnedStep
<1>6. \A b \in Actors : RequestOK(b)'
  BY <1>2
<1> QED
  BY <1>2, <1>3, <1>4, <1>5, <1>6 DEF CacheInv

LEMMA PublishKeeps ==
  ASSUME CacheInv, NEW a \in Actors, Publish(a)
  PROVE  CacheInv'
<1>1. /\ StoreTyped /\ RequestOK(a) /\ call[a].at = "publish" /\ VerdictHasCause /\ temps' = temps \ {call[a].id}
      /\ UNCHANGED <<containers, messy, wrecks, images, requests, edits>>
  BY DEF CacheInv, Publish
<1>2. PICK k \in Keys : k = call[a].f
  BY <1>1 DEF StoreTyped, Requests, RequestOK, Placed, WithTemp
<1>3. k # Nothing
  BY NothingNoKey
<1>4. CASE Marked(k)
  <2>1. cache[k].at # "none" /\ (cache[k].at # "whole" => cache[k].at = "hollow")
    BY <1>4 DEF Marked
  <2>2. Mounted(a) /\ UNCHANGED <<cache, order>>
    BY <1>2, <1>4, <2>1 DEF Publish
  <2>3. call[a].op = "verify" /\ cache[k].at # "whole" => "removal" \in call[a].excuses
    BY <1>1, <1>2, <1>3, <2>1 DEF RequestOK, Excused, WithTemp
  <2> QED
    BY <1>1, <1>2, <2>2, <2>3, MountKeeps
<1>5. CASE ~Marked(k) /\ cache[k].at # "none"
  <2>1. Finish(a, "exception", {}) /\ UNCHANGED <<cache, order>>
    BY <1>2, <1>5 DEF Publish
  <2>2. Damaged(k)
    <3>1. cache[k].at \in {"none", "whole", "hollow", "torn"}
      BY <1>1 DEF StoreTyped, Entries
    <3> QED
      BY <1>5, <3>1 DEF Marked, Damaged
  <2>3. call[a].excuses \cup {} # {} /\ {} \in SUBSET Excuses
    BY <1>1, <1>2, <1>3, <2>2 DEF RequestOK, Excused
  <2>4. temps' \subseteq temps /\ call[a].id \notin temps'
    BY <1>1
  <2> QED
    BY <1>1, <2>1, <2>3, <2>4, FinishKeeps
<1>6. CASE cache[k].at = "none"
  <2>1. cache' = [cache EXCEPT ![k] = Artifact(a)] /\ order' = Append(order, k) /\ Mounted(a)
    <3>1. ~Marked(k)
      BY <1>6 DEF Marked
    <3> QED
      BY <1>2, <1>6, <3>1 DEF Publish
  <2>2. PICK e \in Entries : e = Artifact(a) /\ e.at = "whole" /\ e.pin = call[a].built
    <3>1. PICK p \in Pins : p = call[a].built
      BY <1>1 DEF StoreTyped, Requests
    <3>2. [at |-> "whole", pin |-> p] \in Entries
      BY DEF Entries
    <3> QED
      BY <3>1, <3>2 DEF Artifact
  <2>3. edits = 0 => e.pin = k.pin
    BY <1>1, <1>2, <2>2 DEF RequestOK, Truthful, WithTemp
  <2>4. cache'[k] = e
    BY <1>1, <2>1, <2>2 DEF StoreTyped
  <2>5. CASE call[a].op # "verify"
    <3>1. Finish(a, "ready", {})
      BY <2>1, <2>5 DEF Mounted
    <3>2. call' = [call EXCEPT ![a] = NoRequest] /\ VerdictHasCause' /\ NoRequest \in Requests
      BY <3>1, NoRequestTyped DEF Finish, VerdictHasCause, NotBlamedOnCode, EnvFailureHasCause
    <3>3. call'[a] = NoRequest
      BY <1>1, <3>2, OneCall
    <3>4. RequestOK(a)'
      BY <3>3, EndedOK
    <3>5. Placing(a, NoRequest, k, e)
      BY <2>1, <2>2, <3>2 DEF Placing
    <3> QED
      BY <1>1, <1>6, <2>1, <2>2, <2>3, <3>2, <3>4, <3>5, PlacedKeeps
  <2>6. CASE call[a].op = "verify"
    <3>1. Mounts(a) /\ UNCHANGED done
      BY <2>1, <2>6 DEF Mounted, Mounts
    <3>2. PICK r \in Requests :
             /\ call' = [call EXCEPT ![a] = r]
             /\ r.at = "start" /\ r.victims = call[a].victims /\ r.id = call[a].id /\ r.op = call[a].op
             /\ r.f = call[a].f /\ r.declared = call[a].declared /\ r.excuses = call[a].excuses
      BY <1>1, <3>1, MountFields
    <3>3. call'[a] = r
      BY <1>1, <3>2, OneCall
    <3>4. cache'[r.f].at = "whole"
      BY <1>2, <2>2, <2>4, <3>2
    <3>5. RequestOK(a)'
      BY <1>1, <2>6, <3>2, <3>3, <3>4, MountedOK
    <3>6. VerdictHasCause'
      BY <1>1, <3>1 DEF VerdictHasCause, NotBlamedOnCode, EnvFailureHasCause
    <3>7. Placing(a, r, k, e)
      BY <2>1, <2>2, <3>2 DEF Placing
    <3> QED
      BY <1>1, <1>6, <2>1, <2>2, <2>3, <3>5, <3>6, <3>7, PlacedKeeps
  <2> QED
    BY <2>5, <2>6
<1> QED
  BY <1>4, <1>5, <1>6

-----------------------------------------------------------------------------
(* The specification *)

LEMMA InitCache == CacheInit => CacheInv
<1> SUFFICES ASSUME CacheInit PROVE CacheInv
  OBVIOUS
<1>1. \A a \in Actors : call[a] = NoRequest
  BY DEF CacheInit
<1>2. /\ NoRequest \in Requests /\ NoRequest.at = "idle" /\ NoRequest.f = Nothing /\ NoRequest.op = "none" /\ NoRequest.victims = <<>>
      /\ Len(NoRequest.victims) = 0
  BY NoRequestTyped
<1>3. StoreTyped
  <2>1. NoEntry \in Entries
    BY DEF NoEntry, Entries, Pins
  <2> QED
    BY <1>2, <2>1 DEF CacheInit, StoreTyped
<1>4. CountsTyped
  BY DEF CacheInit, CountsTyped
<1>5. Present = {}
  BY DEF CacheInit, Present, NoEntry
<1>6. Ordered
  <2>1. order = <<>> /\ order \in Seq(Keys) /\ Len(order) = 0
    BY DEF CacheInit
  <2>2. OnceEach(order) /\ Elements(order) = {}
    BY <2>1 DEF OnceEach, Elements
  <2>3. IsFiniteSet({}) /\ Cardinality({}) = 0
    BY FS_EmptySet
  <2> QED
    BY <1>5, <2>1, <2>2, <2>3 DEF Ordered
<1>7. ASSUME NEW a \in Actors PROVE RequestOK(a)
  <2>1. Placed(a)
    BY <1>1, <1>2 DEF Placed, Sweeping, Looking, WithTemp
  <2>2. Truthful(a) /\ Excused(a)
    BY <1>1, <1>2 DEF Truthful, Excused, WithTemp
  <2> QED
    BY <2>1, <2>2 DEF RequestOK
<1>8. \A f \in Keys : cache[f].at = "none"
  BY DEF CacheInit, NoEntry
<1>9. WreckOwned /\ Owned /\ Genuine
  BY <1>8 DEF CacheInit, WreckOwned, Damaged, Owned, Genuine
<1>10. VerdictHasCause
  BY DEF CacheInit, NotDone, VerdictHasCause, NotBlamedOnCode, EnvFailureHasCause
<1> QED
  BY <1>3, <1>4, <1>6, <1>7, <1>9, <1>10 DEF CacheInv

LEMMA EnsureKeeps ==
  ASSUME CacheAssumption, CacheInv, NEW a \in Actors, Ensure(a)
  PROVE  CacheInv'
<1>1. CASE Lookup(a)
  BY <1>1, PeekKeeps
<1>2. CASE Validate(a)
  BY <1>2, ValidateKeeps
<1>3. CASE Sweep(a)
  BY <1>3, SweepKeeps
<1>4. CASE BeginRemoval(a)
  BY <1>4, BeginRemovalKeeps
<1>5. CASE EndRemoval(a)
  BY <1>5, EndRemovalKeeps
<1>6. CASE CopyManifests(a)
  BY <1>6, CopyKeeps
<1>7. CASE Build(a)
  BY <1>7, BuildKeeps
<1>8. CASE Publish(a)
  BY <1>8, PublishKeeps
<1> QED
  BY <1>1, <1>2, <1>3, <1>4, <1>5, <1>6, <1>7, <1>8 DEF Ensure

LEMMA NextCache == CacheInv /\ [CacheNext]_cacheVars => CacheInv'
<1> SUFFICES ASSUME CacheInv, [CacheNext]_cacheVars PROVE CacheInv'
  OBVIOUS
<1>1. ASSUME NEW a \in Actors, Verify(a) \/ Check(a) \/ Rebuild(a) \/ Cleanup(a) PROVE CacheInv'
  BY <1>1, BeginsKeep
<1>2. ASSUME NEW a \in Actors, Resolve(a) PROVE CacheInv'
  BY <1>2, ResolveKeeps
<1>3. ASSUME NEW a \in Actors, CheckDocker(a) PROVE CacheInv'
  BY <1>3, DockerKeeps
<1>4. ASSUME NEW a \in Actors, PeekCache(a) \/ CheckRegistryPackage(a) PROVE CacheInv'
  BY <1>4, PeekKeeps
<1>5. ASSUME NEW a \in Actors, ClearEntry(a) PROVE CacheInv'
  BY <1>5, ClearKeeps
<1>6. ASSUME NEW a \in Actors, Ensure(a) PROVE CacheInv'
  BY <1>6, EnsureKeeps, CacheAssumption
<1>7. ASSUME NEW a \in Actors, StartContainer(a) PROVE CacheInv'
  BY <1>7, StartKeeps
<1>8. ASSUME NEW a \in Actors, EndContainer(a) \/ TimeOut(a) PROVE CacheInv'
  BY <1>8, EndKeeps
<1>9. ASSUME NEW a \in Actors, EditManifest(a) PROVE CacheInv'
  BY <1>9, EditKeeps
<1>10. ASSUME NEW a \in Actors, Die(a) PROVE CacheInv'
  BY <1>10, DieKeeps
<1>11. CASE RemoveImage
  <2>1. /\ UNCHANGED <<cache, order, call, done, temps, containers, messy, wrecks, requests, edits>>
        /\ images' \subseteq Runtimes
    BY <1>11 DEF RemoveImage
  <2> QED
    BY <2>1, ImagesKeep
<1>12. CASE UNCHANGED cacheVars
  <2>1. images' \subseteq Runtimes
    BY <1>12 DEF cacheVars, CacheInv, CountsTyped
  <2> QED
    BY <1>12, <2>1, ImagesKeep DEF cacheVars
<1> QED
  BY <1>1, <1>2, <1>3, <1>4, <1>5, <1>6, <1>7, <1>8, <1>9, <1>10, <1>11, <1>12 DEF CacheNext

LEMMA CacheHolds == CacheSpec => []CacheInv
<1>1. CacheInit => CacheInv
  BY InitCache
<1>2. CacheInv /\ [CacheNext]_cacheVars => CacheInv'
  BY NextCache
<1> QED
  BY <1>1, <1>2, PTL DEF CacheSpec

\* MountMatchesManifest, for any processes, workspaces, limits and faults: a
\* verification command runs against the packages that its workspace declared
\* when ProjectAwareVerificationRunner resolved it, however many processes
\* build, share and remove entries of DependencyEnvironmentManager's cache,
\* unless a manifest is edited while it is in use.
THEOREM MountTheorem == CacheSpec => []MountMatchesManifest
<1>1. CacheInv => MountMatchesManifest
  <2> SUFFICES ASSUME CacheInv, edits = 0, NEW a \in Actors, call[a].f # Nothing, cache[call[a].f].at = "whole"
               PROVE  cache[call[a].f].pin = call[a].declared
    BY DEF MountMatchesManifest
  <2>1. call[a].f \in Keys
    BY DEF CacheInv, StoreTyped, Requests
  <2>2. call[a].declared = call[a].f.pin
    BY DEF CacheInv, RequestOK, Truthful
  <2> QED
    BY <2>1, <2>2 DEF CacheInv, Genuine
<1> QED
  BY <1>1, CacheHolds, PTL

\* VerdictHasCause, likewise: DockerSandboxRunner's TEST_FAILURE is not caused
\* by missing packages unless somebody removed the entry during the request, and
\* no request fails for want of an environment, or with an exception that nobody
\* handles, without having met a fault, a removal, its remains, an edit or
\* manifests that cannot be resolved.
THEOREM VerdictTheorem == CacheSpec => []VerdictHasCause
<1>1. CacheInv => VerdictHasCause
  BY DEF CacheInv
<1> QED
  BY <1>1, CacheHolds, PTL

\* EverythingOwned, likewise: a damaged entry is being removed or its removal was
\* cut off, and the temporary directories and containers on the host belong to
\* requests in flight or to ones that died or timed out.
THEOREM OwnedTheorem == CacheSpec => []EverythingOwned
<1>1. CacheInv => EverythingOwned
  <2> SUFFICES ASSUME CacheInv PROVE EverythingOwned
    OBVIOUS
  <2>1. WreckOwned
    BY DEF CacheInv
  <2>2. NothingLeftBehind
    BY DEF CacheInv, Owned, NothingLeftBehind, WithTemp
  <2>3. CacheTypeOK
    <3>1. cache \in [Keys -> [at : {"none", "whole", "hollow", "torn"}, pin : {t.pin : t \in Trees} \cup {"none"}]]
      BY DEF CacheInv, StoreTyped, Entries, Pins
    <3>2. \A f \in Keys : cache[f].at # "none" <=> \E i \in DOMAIN order : order[i] = f
      <4>1. DOMAIN order = 1..Len(order) /\ {order[i] : i \in 1..Len(order)} = Present
        BY DEF CacheInv, Ordered, Elements
      <4> QED
        BY <4>1 DEF Present
    <3>3. Len(order) = Cardinality({f \in Keys : cache[f].at # "none"})
      BY DEF CacheInv, Ordered, Present
    <3>4. ASSUME NEW a \in Actors
          PROVE  /\ call[a].f \in Keys \cup {Nothing}
                 /\ call[a].at \in {"remove", "removing"} <=> call[a].victims # <<>>
                 /\ call[a].at \in {"lookup", "validate", "build", "downloading", "installing", "publish"}
                      => call[a].f # Nothing
      <4>1. call[a].f \in Keys \cup {Nothing}
        BY DEF CacheInv, StoreTyped, Requests
      <4>2. Placed(a)
        BY DEF CacheInv, RequestOK
      <4> QED
        BY <4>1, <4>2 DEF Placed, Looking, WithTemp
    <3>5. /\ temps \subseteq 1..requests /\ containers \subseteq 1..requests /\ messy \subseteq 1..requests
          /\ images \subseteq Runtimes
      BY DEF CacheInv, CountsTyped
    <3> QED
      BY <3>1, <3>2, <3>3, <3>4, <3>5 DEF CacheTypeOK
  <2> QED
    BY <2>1, <2>2, <2>3 DEF EverythingOwned
<1> QED
  BY <1>1, CacheHolds, PTL

=============================================================================
