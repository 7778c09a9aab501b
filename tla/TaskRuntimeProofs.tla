-------------------------- MODULE TaskRuntimeProofs --------------------------
(***************************************************************************)
(* Proofs about TaskRuntime, for any paths, contents, commands and limits: *)
(* what a task commits is what was verified and reviewed and lies within   *)
(* its write scope, and the orchestrator stays within its state machine    *)
(* and its limits and reports the progress of repairs truthfully.          *)
(*                                                                         *)
(* The invariant ties the place of the worker to the state of its machine, *)
(* the trees of the gates to the worktree as long as no tool thread was    *)
(* abandoned, and the last repair to the last verification.                *)
(*                                                                         *)
(* The second part is about the token ledgers, TokenBudget, from which the *)
(* calls of the agents are paid.                                           *)
(***************************************************************************)
EXTENDS TaskRuntime, TokenBudget, FiniteSetTheorems, WellFoundedInduction, TLAPS

Agents == [iter : 0..(MaxIterations + MaxRepairIterations), left : 0..MaxToolCalls,
           error : ToolErrors \cup {"none"}, instr : BOOLEAN, used : BOOLEAN, big : 0..1, idle : 0..1,
           start : Trees, stop : RepairStops \cup {"none"}]

Checks == [passed : BOOLEAN, reports : SUBSET Reports, tree : Trees]
Reviews == [pass : BOOLEAN, paths : SUBSET Paths, tree : Trees]
Repairs == [status : Progress, before : SUBSET Reports]
Slices == [index : 1..MaxSlices, previous : SUBSET (Paths \cup {"unset"}), resume : BOOLEAN,
           repeats : 0..MaxRepeatedFiles]
Execs == [status : {"NONE", "SUCCEEDED", "FAILED"},
          reason : BoundedStops \cup {"none", "VERIFICATION_FAILURE", "RUN_TOKEN_BUDGET_EXHAUSTED"},
          changed : SUBSET Paths, tree : Trees]

DeveloperPCs == {"develop", "developTool"}
RepairPCs == {"repair", "repairTool"}

\* Files, and the threads that may still write them.
TreesHold ==
  /\ base \in Trees /\ head \in Trees /\ work \in Trees
  /\ \A p \in Protected : head[p] = base[p] /\ work[p] = base[p]
  /\ late \subseteq Writable \X Contents /\ IsFiniteSet(late) /\ Cardinality(late) <= MaxLate
  /\ ran \in BOOLEAN /\ (~ran => late = {})

\* The agent at work: turns and calls within limits, one recovery turn.
AgentHolds ==
  /\ agent \in Agents
  /\ agent.big = (IF agent.used THEN 1 ELSE 0) /\ (agent.instr => ~agent.used)
  /\ pc \in DeveloperPCs => agent.iter \in 1..MaxIterations
  /\ pc \in RepairPCs => agent.iter \in 1..MaxRepairIterations
  /\ pc \in {"developTool", "repairTool"} => agent.left # 0
  /\ devStop \in DeveloperStops \cup {"none"}

\* The state of the machine at each place.
ControlHolds ==
  \/ pc = "begin" /\ state = "PENDING"
  \/ pc \in DeveloperPCs /\ state = "RUNNING"
  \/ pc = "verify" /\ state = "VERIFYING"
  \/ pc = "review" /\ state = "REVIEWING"
  \/ pc = "repairing" /\ state \in {"VERIFYING", "REVIEWING", "REPAIRING"}
  \/ pc \in RepairPCs \cup {"repaired"} /\ state = "REPAIRING"
  \/ pc = "result" /\ state \in {"SUCCEEDED", "FAILED"}
  \/ pc \in {"sliced", "done"} /\ state \in {"PENDING", "SUCCEEDED", "FAILED"}

\* The gates, and what they leave to the repair agent.
GatesHold ==
  /\ check \in Checks /\ review \in Reviews /\ cause \subseteq Reports
  /\ check.passed => check.reports = {}

LastTruthful(r) ==
  /\ r.status = "PATCH_PRODUCED" <=> pc = "verify"
  /\ r.status = "REPAIRED" => check.passed
  /\ r.status = "REPAIR_INEFFECTIVE" => check.reports = r.before
  /\ r.status = "PROGRESS_MADE" => ~check.passed /\ check.reports # r.before

RepairsHold ==
  /\ repairs \in Seq(Repairs) /\ Len(repairs) <= RepairBudget
  /\ pc \in RepairPCs \cup {"repaired"} => Len(repairs) < RepairBudget
  /\ pc \in DeveloperPCs \cup {"begin"} => repairs = <<>>
  /\ repairs # <<>> => LastTruthful(repairs[Len(repairs)])

SliceHolds == slice \in Slices /\ exec \in Execs /\ \A p \in Protected : exec.tree[p] = base[p]

\* A tree passed both gates.
Evidenced(tree) == check.passed /\ review.pass /\ (~ran => tree = check.tree /\ tree = review.tree)

EvidenceHolds ==
  /\ pc = "review" => check.passed /\ (~ran => work = check.tree)
  /\ pc = "result" /\ state = "SUCCEEDED" => Evidenced(work)
  /\ exec.status = "SUCCEEDED" => pc \in {"sliced", "done"} /\ Evidenced(exec.tree)

Inv == TreesHold /\ AgentHolds /\ ControlHolds /\ GatesHold /\ RepairsHold /\ SliceHolds /\ EvidenceHolds

-----------------------------------------------------------------------------
(* The initial state.                                                      *)

LEMMA Limits ==
  /\ MaxIterations \in Nat \ {0} /\ MaxRepairIterations \in Nat \ {0} /\ MaxToolCalls \in Nat \ {0}
  /\ MaxSlices \in Nat \ {0} /\ RepairBudget \in Nat /\ MaxRepeatedFiles \in Nat /\ MaxLate \in Nat
  BY RuntimeAssumption

LEMMA InitInv == Init => Inv
<1> SUFFICES ASSUME Init PROVE Inv
  OBVIOUS
<1>1. base \in Trees
  BY RuntimeAssumption DEF Init, Trees
<1>2. TreesHold
  <2>1. head \in Trees /\ work = head /\ \A p \in Protected : head[p] = base[p]
    BY DEF Init
  <2>2. late = {} /\ ran = FALSE /\ IsFiniteSet(late) /\ Cardinality(late) = 0
    BY FS_EmptySet DEF Init
  <2> QED
    <3>1. late \subseteq Writable \X Contents /\ Cardinality(late) <= MaxLate
      BY <2>2, Limits
    <3>2. ran \in BOOLEAN /\ (~ran => late = {})
      BY <2>2
    <3> QED
      BY <1>1, <2>1, <2>2, <3>1, <3>2, Zenon DEF TreesHold
<1>3. AgentHolds
  BY <1>1, RuntimeAssumption DEF Init, AgentHolds, Agents, NoAgent, DeveloperPCs, RepairPCs
<1>4. GatesHold
  BY <1>1 DEF Init, GatesHold, NoCheck, NoReview, Checks, Reviews
<1>5. SliceHolds
  BY <1>1, RuntimeAssumption DEF Init, SliceHolds, NoExec, Slices, Execs, Paths
<1>6. RepairsHold
  BY Limits DEF Init, RepairsHold, RepairPCs
<1>7. ControlHolds /\ EvidenceHolds
  BY DEF Init, ControlHolds, EvidenceHolds, NoExec
<1> QED
  BY <1>2, <1>3, <1>4, <1>5, <1>6, <1>7 DEF Inv

-----------------------------------------------------------------------------
(* The worktree.                                                           *)

LEMMA ToolStep ==
  ASSUME Inv, NEW error, ToolOutcome(error)
  PROVE  work' \in Trees /\ \A p \in Protected : work'[p] = work[p]
<1>1. work \in Trees
  BY DEF Inv, TreesHold
<1>2. CASE UNCHANGED work
  BY <1>1, <1>2
<1>3. CASE WriteTool
  <2>1. PICK p \in Writable, c \in Contents : work' = [work EXCEPT ![p] = c]
    BY <1>3 DEF WriteTool, MayWrite, ScopePassed
  <2> QED
    BY <1>1, <2>1, RuntimeAssumption DEF Trees, Paths
<1> QED
  BY <1>2, <1>3 DEF ToolOutcome, ReadTool

LEMMA AbandonStep ==
  ASSUME Inv, AbandonTool
  PROVE  /\ late' \subseteq Writable \X Contents /\ IsFiniteSet(late') /\ Cardinality(late') <= MaxLate
         /\ ran' \in BOOLEAN /\ (~ran' => late' = {}) /\ (~ran' => ~ran)
<1>1. late \subseteq Writable \X Contents /\ IsFiniteSet(late) /\ Cardinality(late) <= MaxLate
  BY DEF Inv, TreesHold
<1>2. CASE UNCHANGED threadVars
  BY <1>1, <1>2 DEF Inv, TreesHold, threadVars
<1>3. CASE ~UNCHANGED threadVars
  <2>1. PICK p \in Writable, c \in Contents : late' = late \cup {<<p, c>>} /\ ran' = TRUE /\ Cardinality(late) < MaxLate
    BY <1>3 DEF AbandonTool, MayWrite, ScopePassed
  <2>2. IsFiniteSet(late') /\ Cardinality(late') <= Cardinality(late) + 1
    <3>1. PICK w : w = <<p, c>> /\ late' = late \cup {w}
      BY <2>1
    <3>2. /\ IsFiniteSet(late \cup {w}) /\ Cardinality(late) \in Nat
          /\ Cardinality(late \cup {w}) = IF w \in late THEN Cardinality(late) ELSE Cardinality(late) + 1
      BY <1>1, FS_AddElement, FS_CardinalityType
    <3> QED
      BY <3>1, <3>2
  <2>3. Cardinality(late) \in Nat /\ Cardinality(late') \in Nat
    BY <1>1, <2>2, FS_CardinalityType
  <2> QED
    BY <1>1, <2>1, <2>2, <2>3, RuntimeAssumption
<1> QED
  BY <1>2, <1>3

\* A step either leaves files and threads alone, or is one of these.
LEMMA TreeWriters ==
  ASSUME [Next]_vars
  PROVE  UNCHANGED <<treeVars, threadVars>> \/ DeveloperTool \/ RepairTool \/ LateWrite \/ ContinueSlice
<1>1. StartSlice \/ DeveloperTurn \/ Verify \/ Review \/ StartRepair \/ RepairTurn \/ JudgeRepair \/ CommitSlice
        \/ BackendFails \/ FinishTask \/ UNCHANGED vars => UNCHANGED <<treeVars, threadVars>>
  BY DEF StartSlice, DeveloperTurn, Verify, Review, StartRepair, RepairTurn, JudgeRepair, CommitSlice,
         BackendFails, FinishTask, vars
<1> QED
  BY <1>1 DEF Next, Step

LEMMA TreeStep ==
  ASSUME Inv, [Next]_vars
  PROVE  /\ TreesHold' /\ base' = base /\ (~ran' => ~ran)
         /\ UNCHANGED work \/ DeveloperTool \/ RepairTool \/ (LateWrite /\ ran) \/ ContinueSlice
<1>t. TreesHold
  BY DEF Inv
<1>1. CASE UNCHANGED <<treeVars, threadVars>>
  BY <1>1, <1>t DEF TreesHold, treeVars, threadVars
<1>2. CASE DeveloperTool \/ RepairTool
  <2>1. UNCHANGED <<base, head>>
    BY <1>2 DEF DeveloperTool, RepairTool
  <2>2. CASE AbandonTool /\ UNCHANGED work
    BY <1>2, <1>t, <2>1, <2>2, AbandonStep DEF TreesHold
  <2>3. ASSUME NEW error, ToolOutcome(error), UNCHANGED threadVars PROVE TreesHold' /\ ran' = ran
    BY <1>t, <2>1, <2>3, ToolStep DEF TreesHold, threadVars
  <2> QED
    BY <1>2, <2>1, <2>2, <2>3, AbandonStep DEF DeveloperTool, RepairTool
<1>3. CASE LateWrite
  <2>1. PICK w \in late : late' = late \ {w} /\ work' = [work EXCEPT ![w[1]] = w[2]]
    BY <1>3 DEF LateWrite
  <2>2. w[1] \in Writable /\ w[2] \in Contents
    BY <1>t, <2>1 DEF TreesHold
  <2>3. work' \in Trees /\ \A p \in Protected : work'[p] = work[p]
    BY <1>t, <2>1, <2>2, RuntimeAssumption DEF TreesHold, Trees, Paths
  <2>4. IsFiniteSet(late') /\ Cardinality(late') = Cardinality(late) - 1 /\ Cardinality(late) \in Nat
    BY <1>t, <2>1, FS_RemoveElement, FS_CardinalityType DEF TreesHold
  <2>5. UNCHANGED <<base, head, ran>> /\ ran
    BY <1>3, <1>t, <2>1 DEF LateWrite, TreesHold
  <2> QED
    BY <1>3, <1>t, <2>1, <2>3, <2>4, <2>5, RuntimeAssumption DEF TreesHold
<1>4. CASE ContinueSlice
  <2>1. exec.tree \in Trees /\ \A p \in Protected : exec.tree[p] = base[p]
    BY DEF Inv, SliceHolds, Execs
  <2>2. head' = exec.tree /\ work' = exec.tree /\ late' = {} /\ UNCHANGED <<base, ran>>
    BY <1>4 DEF ContinueSlice
  <2> QED
    BY <1>4, <1>t, <2>1, <2>2, FS_EmptySet, RuntimeAssumption DEF TreesHold
<1> QED
  BY <1>1, <1>2, <1>3, <1>4, TreeWriters DEF treeVars

-----------------------------------------------------------------------------
(* Control.                                                                *)

\* A transition of the table is taken; the others are not asked for.
LEMMA GoStep ==
  ASSUME NEW to, NEW where, Go(to, where), to \in AllowedTransitions(state), to # "ILLEGAL"
  PROVE  state' = to /\ pc' = where
  BY DEF Go, Transition

LEMMA FailStep ==
  ASSUME NEW types, Fail(types), state \in {"PENDING", "RUNNING", "VERIFYING", "REVIEWING", "REPAIRING"}
  PROVE  state' = "FAILED" /\ pc' = "result"
<1>1. "FAILED" \in AllowedTransitions(state)
  BY DEF AllowedTransitions
<1> QED
  BY <1>1, GoStep DEF Fail

LEMMA DeveloperReturnsStep ==
  ASSUME Inv, pc \in DeveloperPCs, NEW stop \in DeveloperStops, DeveloperReturns(stop), base' = base
  PROVE  ControlHolds' /\ AgentHolds' /\ (pc' = "verify" \/ (pc' = "result" /\ state' = "FAILED"))
<1>1. state = "RUNNING"
  BY DEF Inv, ControlHolds, DeveloperPCs, RepairPCs
<1>2. (state' = "FAILED" /\ pc' = "result") \/ (state' = "VERIFYING" /\ pc' = "verify")
  BY <1>1, FailStep, GoStep DEF DeveloperReturns, AllowedTransitions
<1>3. agent' = NoAgent /\ devStop' = stop /\ base \in Trees
  BY DEF DeveloperReturns, Inv, TreesHold
<1> QED
  BY <1>2, <1>3, Limits DEF ControlHolds, AgentHolds, NoAgent, Agents, DeveloperPCs, RepairPCs

\* StartSlice and the Developer.
LEMMA StartSliceStep ==
  ASSUME Inv, StartSlice
  PROVE  ControlHolds' /\ AgentHolds' /\ state' # "SUCCEEDED" /\ pc' \notin {"review"}
<1>1. (state' = "VERIFYING" /\ pc' = "verify") \/ (state' = "RUNNING" /\ pc' = "develop")
        \/ (state' = "FAILED" /\ pc' = "result")
  BY DEF StartSlice, Transition, AllowedTransitions
<1>2. agent' = [NoAgent EXCEPT !.iter = 1] /\ UNCHANGED devStop /\ base \in Trees
  BY DEF StartSlice, Inv, TreesHold
<1>3. devStop \in DeveloperStops \cup {"none"}
  BY DEF Inv, AgentHolds
<1>4. agent' = [iter |-> 1, left |-> 0, error |-> "none", instr |-> FALSE, used |-> FALSE, big |-> 0, idle |-> 0,
                start |-> base, stop |-> "none"]
  BY <1>2 DEF NoAgent
<1>5. agent' \in Agents
  <2>1. 1 \in 0..(MaxIterations + MaxRepairIterations) /\ 0 \in 0..MaxToolCalls
    BY Limits
  <2>2. base \in Trees
    BY <1>2
  <2> QED
    BY <1>4, <2>1, <2>2 DEF Agents
<1> QED
  BY <1>1, <1>2, <1>3, <1>4, <1>5, Limits DEF ControlHolds, AgentHolds, DeveloperPCs, RepairPCs

LEMMA DeveloperTurnStep ==
  ASSUME Inv, DeveloperTurn
  PROVE  ControlHolds' /\ AgentHolds' /\ state' # "SUCCEEDED" /\ pc' # "review"
<1>t. pc = "develop" /\ state = "RUNNING" /\ base' = base /\ AgentHolds /\ base \in Trees
  BY DEF DeveloperTurn, Inv, ControlHolds, DeveloperPCs, RepairPCs, treeVars, TreesHold
<1>1. ASSUME NEW stop \in DeveloperStops, DeveloperReturns(stop)
      PROVE  ControlHolds' /\ AgentHolds' /\ state' # "SUCCEEDED" /\ pc' # "review"
  <2>1. ControlHolds' /\ AgentHolds' /\ (pc' = "verify" \/ (pc' = "result" /\ state' = "FAILED"))
    BY <1>1, <1>t, DeveloperReturnsStep DEF DeveloperPCs
  <2> QED
    BY <2>1 DEF ControlHolds, DeveloperPCs, RepairPCs
<1>2. ASSUME NEW types, Fail(types), agent' = NoAgent, UNCHANGED devStop
      PROVE  ControlHolds' /\ AgentHolds' /\ state' # "SUCCEEDED" /\ pc' # "review"
  <2>1. state' = "FAILED" /\ pc' = "result"
    BY <1>2, <1>t, FailStep
  <2> QED
    BY <1>2, <1>t, <2>1, Limits DEF ControlHolds, AgentHolds, NoAgent, Agents, DeveloperPCs, RepairPCs
<1>3. ASSUME NEW n \in 1..MaxToolCalls, agent' = [TurnSent(agent) EXCEPT !.left = n], pc' = "developTool",
             UNCHANGED <<state, devStop>>
      PROVE  ControlHolds' /\ AgentHolds' /\ state' # "SUCCEEDED" /\ pc' # "review"
  <2>1. agent \in Agents /\ agent.big = (IF agent.used THEN 1 ELSE 0) /\ (agent.instr => ~agent.used)
        /\ agent.iter \in 1..MaxIterations /\ devStop \in DeveloperStops \cup {"none"}
    BY <1>t DEF AgentHolds, DeveloperPCs
  <2>2. /\ agent'.iter = agent.iter /\ agent'.left = n /\ agent'.instr = FALSE
        /\ agent'.used = (agent.used \/ agent.instr)
        /\ agent'.big = agent.big + (IF agent.instr THEN 1 ELSE 0)
    BY <1>3, <2>1 DEF TurnSent, Agents
  <2>3. agent'.big = (IF agent'.used THEN 1 ELSE 0) /\ agent'.big \in 0..1 /\ agent'.used \in BOOLEAN
    BY <2>1, <2>2 DEF Agents
  <2>4. agent' = [agent EXCEPT !.instr = FALSE, !.used = agent'.used, !.big = agent'.big, !.left = n]
    BY <1>3, <2>1, <2>2 DEF TurnSent, Agents
  <2>5. agent' \in Agents
    <3>1. n \in 0..MaxToolCalls
      BY Limits
    <3> QED
      BY <2>1, <2>3, <2>4, <3>1 DEF Agents
  <2> QED
    BY <1>3, <1>t, <2>1, <2>2, <2>3, <2>5, Limits DEF ControlHolds, AgentHolds, DeveloperPCs, RepairPCs
<1> QED
  BY <1>1, <1>2, <1>3 DEF DeveloperTurn, DeveloperStops, BoundedStops

LEMMA NoteStep ==
  ASSUME Inv, pc = "developTool", NEW error \in ToolErrors \cup {"none"}, NEW a, a = NoteToolError(agent, error)
  PROVE  /\ a \in Agents /\ a.iter = agent.iter
         /\ a.big = (IF a.used THEN 1 ELSE 0) /\ (a.instr => ~a.used)
<1>1. agent \in Agents /\ agent.big = (IF agent.used THEN 1 ELSE 0) /\ (agent.instr => ~agent.used) /\ agent.left # 0
  BY DEF Inv, AgentHolds
<1>2. PICK i \in BOOLEAN : i = (agent.instr \/ (error \in RecoverableErrors /\ ~agent.used))
  OBVIOUS
<1>3. a = [agent EXCEPT !.left = @ - 1, !.error = error, !.instr = i]
  BY <1>2 DEF NoteToolError
<1>4. agent.left - 1 \in 0..MaxToolCalls
  BY <1>1, Limits DEF Agents
<1> QED
  BY <1>1, <1>2, <1>3, <1>4 DEF Agents

LEMMA DeveloperToolStep ==
  ASSUME Inv, DeveloperTool
  PROVE  ControlHolds' /\ AgentHolds' /\ state' # "SUCCEEDED" /\ pc' # "review"
<1>t. pc = "developTool" /\ state = "RUNNING" /\ base' = base /\ AgentHolds
  BY DEF DeveloperTool, Inv, ControlHolds, DeveloperPCs, RepairPCs
<1>i. agent.iter \in 1..MaxIterations /\ devStop \in DeveloperStops \cup {"none"}
  BY <1>t DEF AgentHolds, DeveloperPCs
<1>1. ASSUME NEW stop \in DeveloperStops, DeveloperReturns(stop)
      PROVE  ControlHolds' /\ AgentHolds' /\ state' # "SUCCEEDED" /\ pc' # "review"
  <2>1. ControlHolds' /\ AgentHolds' /\ (pc' = "verify" \/ (pc' = "result" /\ state' = "FAILED"))
    BY <1>1, <1>t, DeveloperReturnsStep DEF DeveloperPCs
  <2> QED
    BY <2>1 DEF ControlHolds, DeveloperPCs, RepairPCs
<1>s. {"TIME_LIMIT", "REPEATED_TOOL_FAILURE", "ITERATION_LIMIT"} \subseteq DeveloperStops
  BY DEF DeveloperStops, BoundedStops
<1>2. ASSUME NEW error \in ToolErrors \cup {"none"}, NEW a, a = NoteToolError(agent, error),
             \/ agent' = a /\ a.left > 0 /\ UNCHANGED <<pc, state, devStop>>
             \/ agent' = [a EXCEPT !.iter = @ + 1] /\ a.iter < MaxIterations /\ pc' = "develop"
                /\ UNCHANGED <<state, devStop>>
      PROVE  ControlHolds' /\ AgentHolds' /\ state' # "SUCCEEDED" /\ pc' # "review"
  <2>1. /\ a \in Agents /\ a.iter = agent.iter
        /\ a.big = (IF a.used THEN 1 ELSE 0) /\ (a.instr => ~a.used)
    BY <1>2, <1>t, NoteStep
  <2>2. CASE agent' = a
    BY <1>2, <1>i, <1>t, <2>1, <2>2 DEF ControlHolds, AgentHolds, DeveloperPCs, RepairPCs, Agents
  <2>3. CASE agent' = [a EXCEPT !.iter = @ + 1] /\ a.iter < MaxIterations /\ pc' = "develop" /\ UNCHANGED <<state, devStop>>
    <3>1. /\ agent' \in Agents /\ agent'.iter \in 1..MaxIterations
          /\ agent'.big = a.big /\ agent'.used = a.used /\ agent'.instr = a.instr
      BY <1>i, <2>1, <2>3, Limits DEF Agents
    <3> QED
      BY <1>i, <1>t, <2>1, <2>3, <3>1 DEF ControlHolds, AgentHolds, DeveloperPCs, RepairPCs
  <2> QED
    BY <1>2, <2>2, <2>3
<1>3. ASSUME NEW error \in ToolErrors \cup {"none"}, NEW a, a = NoteToolError(agent, error),
             IF error # "none" /\ agent.error = error
             THEN DeveloperReturns("REPEATED_TOOL_FAILURE")
             ELSE IF a.left > 0
             THEN agent' = a /\ UNCHANGED <<pc, state, devStop, failed>>
             ELSE AfterDeveloperTools(a)
      PROVE  ControlHolds' /\ AgentHolds' /\ state' # "SUCCEEDED" /\ pc' # "review"
  BY <1>1, <1>2, <1>3, <1>s DEF AfterDeveloperTools
<1> QED
  BY <1>1, <1>3, <1>s DEF DeveloperTool

\* The gates.
LEMMA VerifyStep ==
  ASSUME Inv, Verify
  PROVE  /\ ControlHolds' /\ AgentHolds'
         /\ pc' \in {"review", "repairing"} \/ (pc' = "result" /\ state' = "FAILED")
<1>t. pc = "verify" /\ state = "VERIFYING" /\ UNCHANGED <<agent, devStop>> /\ AgentHolds
  BY DEF Verify, Inv, ControlHolds, DeveloperPCs, RepairPCs
<1>1. PICK reports \in VerifyReports :
        \/ Go("REVIEWING", "review")
        \/ pc' = "repairing" /\ state' = state
        \/ Fail({r[2] : r \in reports})
  BY DEF Verify
<1>2. \/ pc' = "review" /\ state' = "REVIEWING"
      \/ pc' = "repairing" /\ state' = "VERIFYING"
      \/ pc' = "result" /\ state' = "FAILED"
  BY <1>1, <1>t, FailStep, GoStep DEF AllowedTransitions
<1> QED
  BY <1>2, <1>t DEF ControlHolds, AgentHolds, DeveloperPCs, RepairPCs

LEMMA ReviewStep ==
  ASSUME Inv, Review
  PROVE  /\ ControlHolds' /\ AgentHolds'
         /\ \/ pc' = "result" /\ state' = "FAILED"
            \/ pc' = "result" /\ state' = "SUCCEEDED" /\ review' = [pass |-> TRUE, paths |-> ChangedFiles, tree |-> work]
            \/ pc' = "repairing"
<1>t. pc = "review" /\ state = "REVIEWING" /\ UNCHANGED <<agent, devStop>> /\ AgentHolds
  BY DEF Review, Inv, ControlHolds, DeveloperPCs, RepairPCs
<1>1. \/ \E t : Fail({t})
      \/ Go("SUCCEEDED", "result") /\ review' = [pass |-> TRUE, paths |-> ChangedFiles, tree |-> work]
      \/ pc' = "repairing" /\ state' = state
  BY DEF Review
<1>2. \/ pc' = "result" /\ state' = "FAILED"
      \/ pc' = "result" /\ state' = "SUCCEEDED" /\ review' = [pass |-> TRUE, paths |-> ChangedFiles, tree |-> work]
      \/ pc' = "repairing" /\ state' = "REVIEWING"
  BY <1>1, <1>t, FailStep, GoStep DEF AllowedTransitions
<1> QED
  BY <1>2, <1>t DEF ControlHolds, AgentHolds, DeveloperPCs, RepairPCs

\* The repair agent.
LEMMA GiveUpStep ==
  ASSUME GiveUp, state \in {"VERIFYING", "REVIEWING", "REPAIRING"}
  PROVE  pc' = "result" /\ state' = "FAILED"
  BY FailStep DEF GiveUp

LEMMA StartRepairStep ==
  ASSUME Inv, StartRepair
  PROVE  /\ ControlHolds' /\ AgentHolds'
         /\ (pc' = "repair" /\ BudgetLeft) \/ (pc' = "result" /\ state' = "FAILED")
<1>t. /\ pc = "repairing" /\ state \in {"VERIFYING", "REVIEWING", "REPAIRING"} /\ UNCHANGED devStop
      /\ AgentHolds /\ base \in Trees /\ work \in Trees
  BY DEF StartRepair, Inv, ControlHolds, DeveloperPCs, RepairPCs, TreesHold
<1>1. CASE BudgetLeft
  <2>1. pc' = "repair" /\ state' = "REPAIRING"
    BY <1>1, <1>t, GoStep DEF StartRepair, AllowedTransitions
  <2>2. agent' = [iter |-> 1, left |-> 0, error |-> "none", instr |-> FALSE, used |-> FALSE, big |-> 0, idle |-> 0,
                  start |-> work, stop |-> "none"]
    BY <1>1 DEF StartRepair, FreshRepairSession, NoAgent
  <2>3. 1 \in 0..(MaxIterations + MaxRepairIterations) /\ 0 \in 0..MaxToolCalls /\ 1 \in 1..MaxRepairIterations
    BY Limits
  <2>4. work \in Trees
    BY <1>t
  <2>5. agent' \in Agents
    BY <2>2, <2>3, <2>4 DEF Agents
  <2>6. devStop' \in DeveloperStops \cup {"none"}
    BY <1>t DEF AgentHolds
  <2> QED
    BY <1>1, <2>1, <2>2, <2>3, <2>5, <2>6 DEF ControlHolds, AgentHolds, DeveloperPCs, RepairPCs
<1>2. CASE ~BudgetLeft
  <2>1. pc' = "result" /\ state' = "FAILED" /\ UNCHANGED agent
    BY <1>2, <1>t, GiveUpStep DEF StartRepair
  <2> QED
    BY <1>t, <2>1 DEF ControlHolds, AgentHolds, DeveloperPCs, RepairPCs
<1> QED
  BY <1>1, <1>2

LEMMA RepairReturnsStep ==
  ASSUME Inv, state = "REPAIRING", NEW stop \in RepairStops, NEW a \in Agents, RepairReturns(stop, a),
         a.big = (IF a.used THEN 1 ELSE 0) /\ (a.instr => ~a.used), UNCHANGED devStop
  PROVE  ControlHolds' /\ AgentHolds' /\ pc' = "repaired"
<1>1. agent' = [a EXCEPT !.stop = stop] /\ pc' = "repaired" /\ state' = "REPAIRING"
  BY DEF RepairReturns
<1>2. agent' \in Agents /\ agent'.big = a.big /\ agent'.used = a.used /\ agent'.instr = a.instr
  BY <1>1 DEF Agents
<1>3. devStop' \in DeveloperStops \cup {"none"}
  BY DEF Inv, AgentHolds
<1> QED
  BY <1>1, <1>2, <1>3 DEF ControlHolds, AgentHolds, DeveloperPCs, RepairPCs

\* A step of the session that is no return.
LEMMA RepairGoesOn ==
  ASSUME Inv, state = "REPAIRING", UNCHANGED <<state, devStop>>, agent' \in Agents,
         agent'.big = agent.big /\ agent'.used = agent.used /\ agent'.instr = agent.instr,
         agent'.iter \in 1..MaxRepairIterations,
         pc' = "repair" \/ (pc' = "repairTool" /\ agent'.left # 0)
  PROVE  ControlHolds' /\ AgentHolds'
<1>1. devStop' \in DeveloperStops \cup {"none"} /\ agent'.big = (IF agent'.used THEN 1 ELSE 0)
      /\ (agent'.instr => ~agent'.used)
  BY DEF Inv, AgentHolds
<1> QED
  BY <1>1 DEF ControlHolds, AgentHolds, DeveloperPCs, RepairPCs

LEMMA RepairTurnStep ==
  ASSUME Inv, RepairTurn
  PROVE  /\ ControlHolds' /\ AgentHolds'
         /\ pc' \in RepairPCs \cup {"repaired"} \/ (pc' = "result" /\ state' = "FAILED")
<1>t. /\ pc = "repair" /\ state = "REPAIRING" /\ UNCHANGED devStop /\ agent \in Agents /\ base \in Trees
      /\ agent.big = (IF agent.used THEN 1 ELSE 0) /\ (agent.instr => ~agent.used)
      /\ agent.iter \in 1..MaxRepairIterations /\ devStop \in DeveloperStops \cup {"none"}
  BY DEF RepairTurn, Inv, ControlHolds, DeveloperPCs, RepairPCs, AgentHolds, TreesHold
<1>1. ASSUME NEW stop \in RepairStops, RepairReturns(stop, agent)
      PROVE  ControlHolds' /\ AgentHolds' /\ pc' = "repaired"
  BY <1>1, <1>t, RepairReturnsStep
<1>2. ASSUME RepairReturns("TOOL_CALL_LIMIT", [agent EXCEPT !.idle = 0])
      PROVE  ControlHolds' /\ AgentHolds' /\ pc' = "repaired"
  <2>1. PICK a : a = [agent EXCEPT !.idle = 0]
    OBVIOUS
  <2>2. a \in Agents /\ a.big = agent.big /\ a.used = agent.used /\ a.instr = agent.instr
    BY <1>t, <2>1 DEF Agents
  <2>3. RepairReturns("TOOL_CALL_LIMIT", a) /\ "TOOL_CALL_LIMIT" \in RepairStops
    BY <1>2, <2>1 DEF RepairStops, BoundedStops
  <2> QED
    BY <1>t, <2>2, <2>3, RepairReturnsStep
<1>3. ASSUME NEW types, Fail(types), agent' = NoAgent
      PROVE  ControlHolds' /\ AgentHolds' /\ pc' = "result" /\ state' = "FAILED"
  <2>1. state' = "FAILED" /\ pc' = "result"
    BY <1>3, <1>t, FailStep
  <2> QED
    BY <1>3, <1>t, <2>1, Limits DEF ControlHolds, AgentHolds, NoAgent, Agents, DeveloperPCs, RepairPCs
<1>4. ASSUME agent' = Reprompt(agent), agent.idle + 1 < 2, agent.iter < MaxRepairIterations, UNCHANGED <<pc, state>>
      PROVE  ControlHolds' /\ AgentHolds' /\ pc' = "repair"
  <2>1. agent' = [agent EXCEPT !.iter = @ + 1, !.idle = @ + 1]
    BY <1>4 DEF Reprompt
  <2>2. /\ agent.iter + 1 \in 1..MaxRepairIterations /\ agent.idle + 1 \in 0..1
        /\ agent.iter + 1 \in 0..(MaxIterations + MaxRepairIterations)
    BY <1>4, <1>t, Limits DEF Agents
  <2>3. /\ agent' \in Agents /\ agent'.big = agent.big /\ agent'.used = agent.used /\ agent'.instr = agent.instr
        /\ agent'.iter = agent.iter + 1
    BY <1>t, <2>1, <2>2 DEF Agents
  <2> QED
    BY <1>4, <1>t, <2>2, <2>3, RepairGoesOn
<1>5. ASSUME NEW n \in 1..MaxToolCalls, agent' = [agent EXCEPT !.idle = 0, !.left = n], pc' = "repairTool", UNCHANGED state
      PROVE  ControlHolds' /\ AgentHolds'
  <2>1. n \in 0..MaxToolCalls /\ n # 0
    BY Limits
  <2>2. /\ agent' \in Agents /\ agent'.big = agent.big /\ agent'.used = agent.used /\ agent'.instr = agent.instr
        /\ agent'.iter = agent.iter /\ agent'.left = n
    <3>1. agent \in Agents /\ agent' = [agent EXCEPT !.idle = 0, !.left = n]
      BY <1>5, <1>t
    <3>2. PICK a : a = [agent EXCEPT !.idle = 0]
      OBVIOUS
    <3>3. a \in Agents /\ a.big = agent.big /\ a.used = agent.used /\ a.instr = agent.instr /\ a.iter = agent.iter
      BY <3>1, <3>2 DEF Agents
    <3>4. agent' = [a EXCEPT !.left = n]
      BY <3>1, <3>2
    <3>5. /\ agent' \in Agents /\ agent'.big = a.big /\ agent'.used = a.used /\ agent'.instr = a.instr
          /\ agent'.iter = a.iter /\ agent'.left = n
      BY <2>1, <3>3, <3>4 DEF Agents
    <3> QED
      BY <3>3, <3>5
  <2> QED
    BY <1>5, <1>t, <2>1, <2>2, RepairGoesOn
<1>s. {"TIME_LIMIT", "MODEL_STOP", "EXPLICIT_BLOCKER", "NO_PROGRESS"} \subseteq RepairStops
  BY DEF RepairStops, BoundedStops
<1>6. CASE /\ work = agent.start
           /\ IF agent.idle + 1 >= 2 \/ agent.iter >= MaxRepairIterations
              THEN RepairReturns("NO_PROGRESS", agent)
              ELSE agent' = Reprompt(agent) /\ UNCHANGED <<pc, state, failed>>
  <2>1. agent.idle \in Int /\ agent.iter \in Int /\ MaxRepairIterations \in Int
    BY <1>t, Limits DEF Agents
  <2> QED
    BY <1>1, <1>4, <1>6, <1>s, <2>1 DEF RepairPCs
<1> QED
  BY <1>1, <1>2, <1>3, <1>5, <1>6, <1>s DEF RepairTurn, RepairPCs

LEMMA RepairToolStep ==
  ASSUME Inv, RepairTool
  PROVE  ControlHolds' /\ AgentHolds' /\ pc' \in RepairPCs \cup {"repaired"}
<1>t. /\ pc = "repairTool" /\ state = "REPAIRING" /\ UNCHANGED devStop /\ agent \in Agents /\ agent.left # 0
      /\ agent.big = (IF agent.used THEN 1 ELSE 0) /\ (agent.instr => ~agent.used)
      /\ agent.iter \in 1..MaxRepairIterations
  BY DEF RepairTool, Inv, ControlHolds, DeveloperPCs, RepairPCs, AgentHolds
<1>1. PICK a : a = [agent EXCEPT !.left = @ - 1]
  OBVIOUS
<1>2. agent.left - 1 \in 0..MaxToolCalls
  BY <1>t, Limits DEF Agents
<1>3. /\ a \in Agents /\ a.big = agent.big /\ a.used = agent.used /\ a.instr = agent.instr
      /\ a.iter = agent.iter
  BY <1>1, <1>2, <1>t DEF Agents
<1>s. {"TIME_LIMIT", "ITERATION_LIMIT"} \subseteq RepairStops
  BY DEF RepairStops, BoundedStops
<1>4. ASSUME NEW stop \in RepairStops, RepairReturns(stop, agent) \/ RepairReturns(stop, a)
      PROVE  ControlHolds' /\ AgentHolds' /\ pc' = "repaired"
  BY <1>3, <1>4, <1>t, RepairReturnsStep
<1>5. ASSUME agent' = a, a.left > 0, UNCHANGED <<pc, state>> PROVE ControlHolds' /\ AgentHolds' /\ pc' = "repairTool"
  <2>1. agent'.left # 0
    BY <1>3, <1>5 DEF Agents
  <2> QED
    BY <1>3, <1>5, <1>t, <2>1, RepairGoesOn
<1>6. ASSUME agent' = [a EXCEPT !.iter = @ + 1], a.iter < MaxRepairIterations, pc' = "repair", UNCHANGED state
      PROVE  ControlHolds' /\ AgentHolds'
  <2>1. a.iter + 1 \in 1..MaxRepairIterations /\ a.iter + 1 \in 0..(MaxIterations + MaxRepairIterations)
    BY <1>3, <1>6, <1>t, Limits
  <2>2. /\ agent' \in Agents /\ agent'.big = agent.big /\ agent'.used = agent.used /\ agent'.instr = agent.instr
        /\ agent'.iter = a.iter + 1
    BY <1>3, <1>6, <2>1 DEF Agents
  <2> QED
    BY <1>6, <1>t, <2>1, <2>2, RepairGoesOn
<1>7. \/ RepairReturns("TIME_LIMIT", agent)
      \/ IF a.left > 0 THEN agent' = a /\ UNCHANGED <<pc, state, failed>> ELSE AfterRepairTools(a)
  BY <1>1 DEF RepairTool
<1> QED
  BY <1>4, <1>5, <1>6, <1>7, <1>s DEF AfterRepairTools, RepairPCs

LEMMA JudgeRepairStep ==
  ASSUME Inv, JudgeRepair
  PROVE  /\ ControlHolds' /\ AgentHolds'
         /\ \/ pc' = "verify" /\ work # agent.start
            \/ pc' = "repairing" /\ work = agent.start
            \/ pc' = "result" /\ state' = "FAILED" /\ work = agent.start
<1>t. pc = "repaired" /\ state = "REPAIRING" /\ base \in Trees /\ devStop' \in DeveloperStops \cup {"none"}
      /\ agent' = NoAgent
  BY DEF JudgeRepair, Inv, ControlHolds, DeveloperPCs, RepairPCs, AgentHolds, TreesHold
<1>1. \/ Go("VERIFYING", "verify") /\ work # agent.start
      \/ GiveUp /\ work = agent.start
      \/ pc' = "repairing" /\ state' = state /\ work = agent.start
  BY DEF JudgeRepair, RepairUntilPatch
<1>2. \/ pc' = "verify" /\ state' = "VERIFYING" /\ work # agent.start
      \/ pc' = "result" /\ state' = "FAILED" /\ work = agent.start
      \/ pc' = "repairing" /\ state' = "REPAIRING" /\ work = agent.start
  BY <1>1, <1>t, GiveUpStep, GoStep DEF AllowedTransitions
<1> QED
  BY <1>2, <1>t, Limits DEF ControlHolds, AgentHolds, NoAgent, Agents, DeveloperPCs, RepairPCs

\* Every step: where the worker goes, and how its agent fares.
LEMMA ControlStep ==
  ASSUME Inv, [Next]_vars
  PROVE  ControlHolds' /\ AgentHolds'
<1>t. ControlHolds /\ AgentHolds
  BY DEF Inv
<1>1. CASE CommitSlice \/ BackendFails \/ FinishTask
  <2>1. UNCHANGED <<state, agent, devStop>> /\ pc' \in {"sliced", "done"}
    BY <1>1 DEF CommitSlice, BackendFails, FinishTask
  <2>2. state \in {"PENDING", "SUCCEEDED", "FAILED"}
    BY <1>1, <1>t DEF CommitSlice, BackendFails, FinishTask, ControlHolds, DeveloperPCs, RepairPCs
  <2> QED
    BY <1>t, <2>1, <2>2 DEF ControlHolds, AgentHolds, DeveloperPCs, RepairPCs
<1>2. CASE ContinueSlice
  <2>1. pc' = "begin" /\ state' = "PENDING" /\ UNCHANGED agent /\ devStop' = "none"
    BY <1>2 DEF ContinueSlice
  <2> QED
    BY <1>t, <2>1 DEF ControlHolds, AgentHolds, DeveloperPCs, RepairPCs
<1>3. CASE LateWrite \/ UNCHANGED vars
  <2>1. UNCHANGED <<pc, state, agent, devStop>>
    BY <1>3 DEF LateWrite, vars
  <2> QED
    BY <1>t, <2>1 DEF ControlHolds, AgentHolds
<1> QED
  BY <1>1, <1>2, <1>3, StartSliceStep, DeveloperTurnStep, DeveloperToolStep, VerifyStep, ReviewStep,
     StartRepairStep, RepairTurnStep, RepairToolStep, JudgeRepairStep DEF Next, Step

-----------------------------------------------------------------------------
(* Gates, repairs and slices.                                              *)

LEMMA VerifyReportsType ==
  ASSUME NEW reports \in VerifyReports
  PROVE  reports \subseteq Reports
<1>1. CASE ~ScopePassed(ChangedFiles)
  BY <1>1 DEF VerifyReports, Reports
<1>2. CASE ScopePassed(ChangedFiles)
  <2>1. PICK results \in [Commands -> CommandOutcomes] : reports \in CommandReports(results)
    BY <1>2 DEF VerifyReports
  <2> DEFINE failing(S) == {<<c, results[c]>> : c \in {d \in S : results[d] \notin {"PASSED", "UNSUPPORTED"}}}
             refused == {<<c, "TOOL_FAILURE">> : c \in {d \in Commands : results[d] = "UNSUPPORTED"}}
  <2>2. refused \subseteq Reports
    BY DEF Reports
  <2>3. ASSUME NEW S \in SUBSET Commands PROVE failing(S) \subseteq Reports
    <3>1. ASSUME NEW c \in S, results[c] \notin {"PASSED", "UNSUPPORTED"} PROVE <<c, results[c]>> \in Reports
      <4>1. results[c] \in {"TEST_FAILURE", "TOOL_FAILURE"}
        BY <2>1, <3>1 DEF CommandOutcomes
      <4> QED
        BY <4>1 DEF Reports
    <3> QED
      BY <3>1
  <2>4. failing(Fast) \subseteq Reports /\ failing(Full) \subseteq Reports
    BY <2>3 DEF Commands
  <2>5. reports = refused \cup failing(Full) \/ \E r \in failing(Fast) : reports = refused \cup {r}
    BY <2>1 DEF CommandReports
  <2> HIDE DEF failing, refused
  <2> QED
    BY <2>2, <2>4, <2>5
<1> QED
  BY <1>1, <1>2

LEMMA GateWriters ==
  ASSUME [Next]_vars
  PROVE  UNCHANGED <<gateVars, repairVars>> \/ Verify \/ Review \/ JudgeRepair \/ ContinueSlice
<1>1. StartSlice \/ DeveloperTurn \/ DeveloperTool \/ StartRepair \/ RepairTurn \/ RepairTool \/ CommitSlice
        \/ BackendFails \/ FinishTask \/ LateWrite \/ UNCHANGED vars => UNCHANGED <<gateVars, repairVars>>
  BY DEF StartSlice, DeveloperTurn, DeveloperTool, StartRepair, RepairTurn, RepairTool, CommitSlice,
         BackendFails, FinishTask, LateWrite, vars
<1> QED
  BY <1>1 DEF Next, Step

LEMMA GateStep ==
  ASSUME Inv, [Next]_vars
  PROVE  GatesHold'
<1>t. GatesHold /\ base \in Trees /\ work \in Trees
  BY DEF Inv, TreesHold
<1>1. CASE UNCHANGED <<gateVars, repairVars>>
  BY <1>1, <1>t DEF GatesHold, gateVars, repairVars
<1>2. CASE Verify
  <2>1. PICK reports \in VerifyReports :
          /\ check' = [passed |-> reports = {}, reports |-> reports, tree |-> work]
          /\ cause' \in {cause, reports}
    BY <1>2 DEF Verify
  <2>2. reports \subseteq Reports /\ UNCHANGED review
    BY <1>2, VerifyReportsType DEF Verify
  <2>3. check' \in Checks /\ (check'.passed => check'.reports = {})
    BY <1>t, <2>1, <2>2 DEF Checks
  <2> QED
    BY <1>t, <2>1, <2>2, <2>3 DEF GatesHold
<1>3. CASE Review
  <2>1. \/ UNCHANGED <<review, cause>>
        \/ \E pass \in BOOLEAN : /\ review' = [pass |-> pass, paths |-> ChangedFiles, tree |-> work]
                                 /\ cause' \in {cause, {<<"review", "REVIEW_REJECTED">>}}
    BY <1>3 DEF Review
  <2>2. ChangedFiles \subseteq Paths /\ {<<"review", "REVIEW_REJECTED">>} \subseteq Reports
    BY DEF ChangedFiles, Reports
  <2>3. UNCHANGED check
    BY <1>3 DEF Review
  <2> QED
    BY <1>t, <2>1, <2>2, <2>3 DEF GatesHold, Reviews
<1>4. CASE JudgeRepair
  BY <1>4, <1>t DEF JudgeRepair, GatesHold, gateVars
<1>5. CASE ContinueSlice
  BY <1>5, <1>t DEF ContinueSlice, GatesHold, NoCheck, NoReview, Checks, Reviews
<1> QED
  BY <1>1, <1>2, <1>3, <1>4, <1>5, GateWriters

LEMMA RepairsStep ==
  ASSUME Inv, [Next]_vars
  PROVE  RepairsHold'
<1>t. RepairsHold /\ GatesHold /\ ControlHolds /\ Len(repairs) \in Nat
  BY DEF Inv, RepairsHold
<1>1. ASSUME UNCHANGED <<repairs, check>>, pc' # "verify" \/ repairs = <<>>, pc # "verify" \/ repairs = <<>>,
             pc' \in RepairPCs \cup {"repaired"} => Len(repairs) < RepairBudget,
             pc' \in DeveloperPCs \cup {"begin"} => repairs = <<>>
      PROVE  RepairsHold'
  BY <1>1, <1>t DEF RepairsHold, LastTruthful
<1>2. CASE StartSlice \/ DeveloperTurn \/ DeveloperTool
  <2>1. pc \in DeveloperPCs \cup {"begin"} /\ UNCHANGED <<repairs, check>>
    BY <1>2 DEF StartSlice, DeveloperTurn, DeveloperTool, DeveloperPCs, gateVars, repairVars
  <2>2. repairs = <<>>
    BY <1>t, <2>1 DEF RepairsHold
  <2>3. pc' \notin RepairPCs \cup {"repaired"}
    <3>1. state' # "REPAIRING"
      BY <1>2, <1>t, FailStep, GoStep DEF StartSlice, DeveloperTurn, DeveloperTool, DeveloperReturns, AfterDeveloperTools, ControlHolds, Transition,
             AllowedTransitions, DeveloperPCs, RepairPCs
    <3> QED
      BY <3>1, ControlStep DEF ControlHolds, RepairPCs, DeveloperPCs
  <2> QED
    BY <1>1, <2>1, <2>2, <2>3
<1>3. CASE Verify
  <2>1. PICK reports \in VerifyReports :
          /\ check' = [passed |-> reports = {}, reports |-> reports, tree |-> work]
          /\ repairs' = RecordRepairVerification(reports)
    BY <1>3 DEF Verify
  <2>2. pc = "verify" /\ pc' \in {"review", "repairing", "result"}
    BY <1>3, VerifyStep DEF Verify
  <2>3. CASE repairs = <<>>
    BY <1>t, <2>1, <2>2, <2>3 DEF RecordRepairVerification, RepairsHold, DeveloperPCs, RepairPCs
  <2>4. CASE repairs # <<>>
    <3>1. PICK n \in Nat : n = Len(repairs) /\ n # 0 /\ repairs \in Seq(Repairs) /\ n <= RepairBudget
      BY <1>t, <2>4 DEF RepairsHold
    <3>2. repairs[n].status = "PATCH_PRODUCED" /\ repairs[n] \in Repairs
      BY <1>t, <2>2, <2>4, <3>1 DEF RepairsHold, LastTruthful
    <3>3. PICK r : r = [repairs[n] EXCEPT !.status = IF reports = {} THEN "REPAIRED"
                          ELSE IF reports = repairs[n].before THEN "REPAIR_INEFFECTIVE"
                          ELSE "PROGRESS_MADE"]
      OBVIOUS
    <3>4. repairs' = [repairs EXCEPT ![n] = r]
      BY <2>1, <3>1, <3>2, <3>3 DEF RecordRepairVerification
    <3>5. r \in Repairs /\ r.before = repairs[n].before
          /\ r.status = (IF reports = {} THEN "REPAIRED"
                         ELSE IF reports = repairs[n].before THEN "REPAIR_INEFFECTIVE" ELSE "PROGRESS_MADE")
      BY <3>2, <3>3 DEF Repairs, Progress
    <3>6. repairs' \in Seq(Repairs) /\ Len(repairs') = n /\ repairs'[n] = r
      BY <3>1, <3>4, <3>5
    <3>7. LastTruthful(r)'
      BY <2>1, <2>2, <3>5 DEF LastTruthful
    <3> QED
      BY <2>2, <3>1, <3>6, <3>7 DEF RepairsHold, DeveloperPCs, RepairPCs
  <2> QED
    BY <2>3, <2>4
<1>4. CASE Review \/ StartRepair \/ RepairTurn \/ RepairTool \/ CommitSlice \/ BackendFails \/ FinishTask
  <2>1. UNCHANGED <<repairs, check>> /\ pc # "verify"
    BY <1>4 DEF Review, StartRepair, RepairTurn, RepairTool, CommitSlice, BackendFails, FinishTask, gateVars, repairVars
  <2>2. CASE Review \/ CommitSlice \/ BackendFails \/ FinishTask
    <3>1. pc' \in {"result", "repairing", "sliced", "done"}
      BY <2>2, ReviewStep DEF CommitSlice, BackendFails, FinishTask
    <3> QED
      BY <1>1, <2>1, <3>1 DEF RepairPCs, DeveloperPCs
  <2>3. CASE StartRepair
    <3>1. (pc' = "repair" /\ Len(repairs) + 1 <= RepairBudget) \/ pc' = "result"
      BY <2>3, StartRepairStep DEF BudgetLeft
    <3> QED
      BY <1>1, <1>t, <2>1, <3>1, Limits DEF RepairPCs, DeveloperPCs
  <2>4. CASE RepairTurn \/ RepairTool
    <3>1. pc' \in RepairPCs \cup {"repaired", "result"} /\ pc \in RepairPCs
      BY <2>4, RepairTurnStep, RepairToolStep DEF RepairTurn, RepairTool, RepairPCs
    <3>2. Len(repairs) < RepairBudget
      BY <1>t, <3>1 DEF RepairsHold
    <3> QED
      BY <1>1, <2>1, <3>1, <3>2 DEF RepairPCs, DeveloperPCs
  <2> QED
    BY <1>4, <2>2, <2>3, <2>4
<1>5. CASE JudgeRepair
  <2>1. PICK r : r = [before |-> cause, status |-> IF work # agent.start THEN "PATCH_PRODUCED" ELSE "NO_PATCH_PRODUCED"]
    OBVIOUS
  <2>2. r \in Repairs /\ r.status = (IF work # agent.start THEN "PATCH_PRODUCED" ELSE "NO_PATCH_PRODUCED")
    BY <1>t, <2>1 DEF Repairs, Progress, GatesHold
  <2>3. repairs' = Append(repairs, r)
    BY <1>5, <2>1 DEF JudgeRepair, CountAttempt
  <2>4. Len(repairs) < RepairBudget /\ repairs \in Seq(Repairs)
    BY <1>5, <1>t DEF JudgeRepair, RepairsHold
  <2>5. repairs' \in Seq(Repairs) /\ Len(repairs') = Len(repairs) + 1 /\ repairs'[Len(repairs')] = r
    BY <2>2, <2>3, <2>4
  <2>6. LastTruthful(r)' /\ pc' \in {"verify", "repairing", "result"}
    BY <1>5, <2>2, JudgeRepairStep DEF LastTruthful
  <2> QED
    BY <1>t, <2>4, <2>5, <2>6, Limits DEF RepairsHold, DeveloperPCs, RepairPCs
<1>6. CASE ContinueSlice
  <2>1. repairs' = <<>> /\ pc' = "begin"
    BY <1>6 DEF ContinueSlice
  <2> QED
    BY <2>1, Limits DEF RepairsHold, DeveloperPCs, RepairPCs
<1>7. CASE LateWrite \/ UNCHANGED vars
  BY <1>7, <1>t DEF LateWrite, vars, gateVars, repairVars, RepairsHold, LastTruthful
<1> QED
  BY <1>2, <1>3, <1>4, <1>5, <1>6, <1>7 DEF Next, Step

LEMMA SliceWriters ==
  ASSUME [Next]_vars
  PROVE  UNCHANGED <<slice, exec>> \/ CommitSlice \/ BackendFails \/ ContinueSlice
<1>1. StartSlice \/ DeveloperTurn \/ DeveloperTool \/ Verify \/ Review \/ StartRepair \/ RepairTurn \/ RepairTool
        \/ JudgeRepair \/ FinishTask \/ LateWrite \/ UNCHANGED vars => UNCHANGED <<slice, exec>>
  BY DEF StartSlice, DeveloperTurn, DeveloperTool, Verify, Review, StartRepair, RepairTurn, RepairTool,
         JudgeRepair, FinishTask, LateWrite, vars
<1> QED
  BY <1>1 DEF Next, Step

LEMMA NoExecType ==
  ASSUME Inv
  PROVE  /\ NoExec \in Execs /\ [NoExec EXCEPT !.status = "FAILED"] \in Execs
         /\ NoExec.tree = base /\ [NoExec EXCEPT !.status = "FAILED"].tree = base
         /\ NoExec.status = "NONE" /\ [NoExec EXCEPT !.status = "FAILED"].status = "FAILED"
<1>1. base \in Trees
  BY DEF Inv, TreesHold
<1> QED
  BY <1>1 DEF NoExec, Execs

\* The commit holds the worktree, or nothing was there to commit.
LEMMA CommitStep ==
  ASSUME Inv, NEW status \in {"SUCCEEDED", "FAILED"}, NEW reason,
         reason \in BoundedStops \cup {"none", "VERIFICATION_FAILURE", "RUN_TOKEN_BUDGET_EXHAUSTED"},
         exec' = CommitChanges(status, reason)
  PROVE  /\ exec' \in Execs /\ exec'.tree \in {work, base}
         /\ exec'.status = "SUCCEEDED" => exec'.tree = work /\ status = "SUCCEEDED"
<1>t. work \in Trees /\ ChangedFiles \subseteq Paths
  BY DEF Inv, TreesHold, ChangedFiles
<1>1. CASE ChangedFiles = {}
  BY <1>1, NoExecType DEF CommitChanges
<1>2. CASE ChangedFiles # {}
  BY <1>2, <1>t DEF CommitChanges, Execs
<1> QED
  BY <1>1, <1>2

LEMMA SliceStep ==
  ASSUME Inv, [Next]_vars
  PROVE  /\ SliceHolds'
         /\ UNCHANGED exec \/ exec'.status # "SUCCEEDED"
              \/ (pc = "result" /\ state = "SUCCEEDED" /\ exec'.tree = work /\ CommitSlice)
<1>t. SliceHolds /\ base' = base /\ \A p \in Protected : work[p] = base[p]
  BY TreeStep DEF Inv, TreesHold
<1>1. CASE UNCHANGED <<slice, exec>>
  BY <1>1, <1>t DEF SliceHolds
<1>2. CASE CommitSlice
  <2>1. PICK status \in {"SUCCEEDED", "FAILED"},
             reason \in BoundedStops \cup {"none", "VERIFICATION_FAILURE", "RUN_TOKEN_BUDGET_EXHAUSTED"} :
          exec' = CommitChanges(status, reason) /\ (status = "SUCCEEDED" => state = "SUCCEEDED")
    <3>1. CASE state = "SUCCEEDED"
      BY <1>2, <3>1 DEF CommitSlice
    <3>2. CASE state # "SUCCEEDED"
      <4>1. CheckpointReason \in BoundedStops \cup {"none", "VERIFICATION_FAILURE", "RUN_TOKEN_BUDGET_EXHAUSTED"}
        BY DEF CheckpointReason
      <4> QED
        BY <1>2, <3>2, <4>1 DEF CommitSlice
    <3> QED
      BY <3>1, <3>2
  <2>2. /\ exec' \in Execs /\ exec'.tree \in {work, base}
        /\ exec'.status = "SUCCEEDED" => exec'.tree = work /\ status = "SUCCEEDED"
    BY <2>1, CommitStep
  <2>3. UNCHANGED slice /\ pc = "result"
    BY <1>2 DEF CommitSlice
  <2> QED
    BY <1>2, <1>t, <2>1, <2>2, <2>3 DEF SliceHolds
<1>3. CASE BackendFails
  <2>1. exec' \in Execs /\ exec'.tree = base /\ exec'.status = "FAILED" /\ UNCHANGED slice
    BY <1>3, NoExecType DEF BackendFails
  <2> QED
    BY <1>t, <2>1 DEF SliceHolds
<1>4. CASE ContinueSlice
  <2>1. exec' \in Execs /\ exec'.tree = base /\ exec'.status = "NONE"
    BY <1>4, NoExecType DEF ContinueSlice
  <2>2. /\ slice' = [index |-> slice.index + 1, previous |-> exec.changed, resume |-> FALSE,
                     repeats |-> IF exec.changed = slice.previous THEN slice.repeats + 1 ELSE 0]
        /\ slice.index < MaxSlices /\ (exec.changed = slice.previous => slice.repeats < MaxRepeatedFiles)
    BY <1>4 DEF ContinueSlice, CanContinue
  <2>3. exec.changed \in SUBSET (Paths \cup {"unset"}) /\ slice \in Slices
    BY <1>t DEF SliceHolds, Execs
  <2>4. slice.index + 1 \in 1..MaxSlices
    BY <2>2, <2>3, Limits DEF Slices
  <2>5. (IF exec.changed = slice.previous THEN slice.repeats + 1 ELSE 0) \in 0..MaxRepeatedFiles
    BY <2>2, <2>3, Limits DEF Slices
  <2>6. slice' \in Slices
    BY <2>2, <2>3, <2>4, <2>5 DEF Slices
  <2> QED
    BY <1>t, <2>1, <2>6 DEF SliceHolds
<1> QED
  BY <1>1, <1>2, <1>3, <1>4, SliceWriters

-----------------------------------------------------------------------------
(* Evidence.                                                               *)

LEMMA EvidenceStep ==
  ASSUME Inv, [Next]_vars
  PROVE  EvidenceHolds'
<1>t. EvidenceHolds /\ ControlHolds /\ ControlHolds' /\ (~ran' => ~ran)
  BY TreeStep, ControlStep DEF Inv
\* Steps before the gates, and back from them.
<1>1. ASSUME pc' # "review", ~(pc' = "result" /\ state' = "SUCCEEDED"), pc \notin {"sliced", "done"}, UNCHANGED exec
      PROVE  EvidenceHolds'
  BY <1>1, <1>t DEF EvidenceHolds
<1>2. CASE StartSlice \/ DeveloperTurn \/ DeveloperTool \/ StartRepair \/ RepairTurn \/ RepairTool \/ JudgeRepair
  <2>1. pc \notin {"sliced", "done"} /\ UNCHANGED exec
    BY <1>2 DEF StartSlice, DeveloperTurn, DeveloperTool, StartRepair, RepairTurn, RepairTool, JudgeRepair
  <2>2. pc' # "review" /\ ~(pc' = "result" /\ state' = "SUCCEEDED")
    BY <1>2, StartSliceStep, DeveloperTurnStep, DeveloperToolStep, StartRepairStep, RepairTurnStep, RepairToolStep,
       JudgeRepairStep DEF RepairPCs
  <2> QED
    BY <1>1, <2>1, <2>2
<1>3. CASE Verify
  <2>1. PICK reports \in VerifyReports :
          /\ check' = [passed |-> reports = {}, reports |-> reports, tree |-> work]
          /\ \/ reports = {}
             \/ pc' = "repairing"
             \/ Fail({r[2] : r \in reports})
    BY <1>3 DEF Verify
  <2>2. pc = "verify" /\ state = "VERIFYING" /\ UNCHANGED <<exec, work>>
    BY <1>3, <1>t DEF Verify, ControlHolds, DeveloperPCs, RepairPCs, treeVars
  <2>3. CASE pc' = "review"
    <3>1. reports = {}
      BY <2>1, <2>2, <2>3, FailStep
    <3> QED
      BY <1>t, <2>1, <2>2, <2>3, <3>1 DEF EvidenceHolds
  <2>4. CASE pc' # "review"
    BY <1>1, <1>3, <2>2, <2>4, VerifyStep
  <2> QED
    BY <2>3, <2>4
<1>4. CASE Review
  <2>1. pc = "review" /\ UNCHANGED <<exec, work, check, ran>>
    BY <1>4 DEF Review, treeVars, threadVars
  <2>2. check.passed /\ (~ran => work = check.tree)
    BY <1>t, <2>1 DEF EvidenceHolds
  <2>3. CASE pc' = "result" /\ state' = "SUCCEEDED" /\ review' = [pass |-> TRUE, paths |-> ChangedFiles, tree |-> work]
    <3>1. Evidenced(work)'
      BY <2>1, <2>2, <2>3 DEF Evidenced
    <3> QED
      BY <1>t, <2>1, <2>3, <3>1 DEF EvidenceHolds
  <2>4. CASE pc' = "repairing" \/ (pc' = "result" /\ state' = "FAILED")
    BY <1>1, <2>1, <2>4
  <2> QED
    BY <1>4, <2>3, <2>4, ReviewStep
<1>5. CASE CommitSlice \/ BackendFails \/ ContinueSlice
  <2>1. CASE exec'.status # "SUCCEEDED" /\ pc' \in {"sliced", "begin"}
    BY <2>1 DEF EvidenceHolds
  <2>2. CASE pc = "result" /\ state = "SUCCEEDED" /\ exec'.tree = work /\ CommitSlice
    <3>1. Evidenced(work) /\ UNCHANGED <<check, review, ran>> /\ pc' = "sliced"
      BY <1>t, <2>2 DEF EvidenceHolds, CommitSlice, gateVars, threadVars
    <3> QED
      BY <2>2, <3>1 DEF EvidenceHolds, Evidenced
  <2>3. CASE UNCHANGED exec /\ exec'.status = "SUCCEEDED"
    BY <1>5, <1>t, <2>3 DEF EvidenceHolds, CommitSlice, BackendFails, ContinueSlice, CanContinue
  <2>4. pc' \in {"sliced", "begin"}
    BY <1>5 DEF CommitSlice, BackendFails, ContinueSlice
  <2> QED
    BY <2>1, <2>2, <2>3, <2>4, SliceStep
<1>6. CASE FinishTask
  BY <1>6, <1>t DEF FinishTask, EvidenceHolds, Evidenced, gateVars, threadVars
<1>7. CASE LateWrite
  <2>1. UNCHANGED <<pc, state, ran, check, review, exec>> /\ ran
    BY <1>7 DEF LateWrite, gateVars, Inv, TreesHold
  <2> QED
    BY <1>t, <2>1 DEF EvidenceHolds, Evidenced
<1>8. CASE UNCHANGED vars
  BY <1>8, <1>t DEF vars, treeVars, threadVars, gateVars, EvidenceHolds, Evidenced
<1> QED
  BY <1>2, <1>3, <1>4, <1>5, <1>6, <1>7, <1>8 DEF Next, Step

-----------------------------------------------------------------------------
(* Theorems.                                                               *)

LEMMA InvHolds == Spec => []Inv
<1>1. Inv /\ [Next]_vars => Inv'
  BY TreeStep, ControlStep, GateStep, RepairsStep, SliceStep, EvidenceStep DEF Inv
<1> QED
  BY <1>1, InitInv, PTL DEF Spec

\* Whatever the agents answer, fail or repair, a task commit is the tree that
\* the verifier passed and the reviewer accepted after it, unless a tool thread
\* outlived its time limit; and no commit, checkpoints included, changes a path
\* outside the write scope.
THEOREM CommitsTheorem == Spec => []CommitsSound
<1>1. Inv => CommitsSound
  BY DEF Inv, EvidenceHolds, Evidenced, SliceHolds, CommitsSound, SuccessIsEvidenced, CommitsInScope
<1> QED
  BY <1>1, InvHolds, PTL

\* The orchestrator never asks its state machine for a transition that is not
\* in the table, keeps turns, calls, repairs and slices within their limits,
\* grants one recovery turn, and records for the last repair what the gate
\* found.
THEOREM ReportsTheorem == Spec => []ReportsSound
<1>1. Inv => ReportsSound
  <2> SUFFICES ASSUME Inv PROVE ReportsSound
    OBVIOUS
  <2>1. NoIllegalTransition /\ pc # "raised"
    BY DEF Inv, ControlHolds, NoIllegalTransition, DeveloperPCs, RepairPCs
  <2>2. OneRecoveryTurn
    BY DEF Inv, AgentHolds, OneRecoveryTurn
  <2>3. ProgressTruthful
    BY DEF Inv, RepairsHold, LastTruthful, ProgressTruthful
  <2>4. TypeOK
    <3>1. pc \in {"begin", "develop", "developTool", "verify", "review", "repairing", "repair",
                  "repairTool", "repaired", "result", "raised", "sliced", "done"}
          /\ state \in {"PENDING", "RUNNING", "VERIFYING", "REVIEWING", "REPAIRING",
                        "SUCCEEDED", "FAILED", "ILLEGAL"}
      BY DEF Inv, ControlHolds, DeveloperPCs, RepairPCs
    <3>2. {base, head, work, check.tree, review.tree, exec.tree, agent.start} \subseteq Trees
      BY DEF Inv, TreesHold, GatesHold, Checks, Reviews, SliceHolds, Execs, AgentHolds, Agents
    <3>3. late \subseteq Paths \X Contents /\ Cardinality(late) <= MaxLate /\ ran \in BOOLEAN
      BY DEF Inv, TreesHold, Paths
    <3>4. /\ agent.iter \in 0..(MaxIterations + MaxRepairIterations)
          /\ agent.left \in 0..MaxToolCalls /\ agent.idle \in 0..1
          /\ devStop \in DeveloperStops \cup {"none"}
          /\ agent.stop \in RepairStops \cup {"none"}
      BY DEF Inv, AgentHolds, Agents
    <3>5. check.reports \subseteq Reports /\ cause \subseteq Reports
      BY DEF Inv, GatesHold, Checks
    <3>6. repairs \in Seq([status : Progress, before : SUBSET Reports]) /\ Len(repairs) <= RepairBudget
      BY DEF Inv, RepairsHold, Repairs
    <3>7. /\ slice.index \in 1..MaxSlices /\ slice.repeats \in 0..MaxRepeatedFiles
          /\ exec.reason \in BoundedStops \cup {"none", "VERIFICATION_FAILURE", "RUN_TOKEN_BUDGET_EXHAUSTED"}
      BY DEF Inv, SliceHolds, Slices, Execs
    <3> QED
      BY <3>1, <3>2, <3>3, <3>4, <3>5, <3>6, <3>7 DEF TypeOK
  <2> QED
    BY <2>1, <2>2, <2>3, <2>4 DEF ReportsSound
<1> QED
  BY <1>1, InvHolds, PTL

-----------------------------------------------------------------------------
(* The token ledgers, from which the calls of the agents are paid: for any *)
(* calls, packages, estimates and limits they agree, and their limits      *)
(* hold.                                                                   *)
(*                                                                         *)
(* The invariant says more than the properties: every stage has reserved   *)
(* exactly what its own calls have, so that no clamp at zero takes effect; *)
(* a call's rows follow its place; planning is charged before the first    *)
(* call; and a launch holds what ensure_launch_capacity compared.  Sums    *)
(* are functions on the subsets of the calls, which do not depend on the   *)
(* order in which the elements are taken.                                  *)

\* A set of numbers has a least one.
LEMMA NatLess == IsWellFoundedOn({ss \in Nat \X Nat : ss[1] < ss[2]}, Nat)
  BY NatLessThanWellFounded DEF OpToRel

LEMMA LeastNat ==
  ASSUME NEW S \in SUBSET Nat, S # {}
  PROVE  \E n \in S : \A k \in S : n <= k
<1> DEFINE R == {ss \in Nat \X Nat : ss[1] < ss[2]}
<1>1. IsWellFoundedOn(R, Nat)
  BY NatLess
<1> HIDE DEF R
<1>2. PICK n \in S : \A k \in S : ~(<<k, n>> \in R)
  BY <1>1, WFMin
<1>3. ASSUME NEW k \in S PROVE n <= k
  <2>1. k \in Nat /\ n \in Nat /\ ~(<<k, n>> \in R)
    BY <1>2
  <2>2. ~(k < n)
    BY <2>1 DEF R
  <2> QED
    BY <2>1, <2>2
<1> QED
  BY <1>3

(* Sums.                                                                   *)
Pick(s) == CHOOSE x \in s : TRUE

\* One round of a sum of f over the subsets of D, with g for what is left.
Rec(f, D, g) == [s \in SUBSET D |-> IF s = {} THEN 0 ELSE f[Pick(s)] + g[s \ {Pick(s)}]]
Small(D, n) == {s \in SUBSET D : Cardinality(s) <= n}
RecTo(f, D, n, g) == [s \in Small(D, n) |-> IF s = {} THEN 0 ELSE f[Pick(s)] + g[s \ {Pick(s)}]]

LEMMA PickIn == ASSUME NEW s, s # {} PROVE Pick(s) \in s
  BY DEF Pick

LEMMA SizeOf ==
  ASSUME NEW D, IsFiniteSet(D), NEW s \in SUBSET D
  PROVE  IsFiniteSet(s) /\ Cardinality(s) \in Nat /\ Cardinality(s) <= Cardinality(D)
  BY FS_Subset, FS_CardinalityType

LEMMA SizeLess ==
  ASSUME NEW D, IsFiniteSet(D), NEW s \in SUBSET D, NEW x \in s
  PROVE  s \ {x} \in SUBSET D /\ Cardinality(s \ {x}) \in Nat /\ Cardinality(s \ {x}) + 1 = Cardinality(s)
<1>1. IsFiniteSet(s) /\ Cardinality(s) \in Nat
  BY SizeOf
<1>2. Cardinality(s \ {x}) = Cardinality(s) - 1
  BY <1>1, FS_RemoveElement
<1>3. s \ {x} \in SUBSET D
  OBVIOUS
<1>4. Cardinality(s \ {x}) \in Nat
  BY <1>3, SizeOf
<1> QED
  BY <1>1, <1>2, <1>3, <1>4

LEMMA RecExtends ==
  ASSUME NEW f, NEW D, IsFiniteSet(D), NEW n \in Nat, NEW g, g = RecTo(f, D, n, g)
  PROVE  \E h : h = RecTo(f, D, n + 1, h)
<1> DEFINE h == RecTo(f, D, n + 1, g)
<1>1. ASSUME NEW s \in Small(D, n) PROVE s \in Small(D, n + 1) /\ h[s] = g[s]
  <2>1. s \in SUBSET D /\ Cardinality(s) <= n /\ Cardinality(s) \in Nat
    BY SizeOf DEF Small
  <2>2. s \in Small(D, n + 1)
    BY <2>1 DEF Small
  <2>3. g[s] = IF s = {} THEN 0 ELSE f[Pick(s)] + g[s \ {Pick(s)}]
    BY DEF RecTo
  <2> QED
    BY <2>2, <2>3 DEF RecTo
<1>2. ASSUME NEW s \in Small(D, n + 1), s # {} PROVE h[s \ {Pick(s)}] = g[s \ {Pick(s)}]
  <2>1. s \in SUBSET D /\ Cardinality(s) <= n + 1
    BY DEF Small
  <2>2. Pick(s) \in s
    BY <1>2, PickIn
  <2>3. s \ {Pick(s)} \in SUBSET D /\ Cardinality(s \ {Pick(s)}) \in Nat /\ Cardinality(s \ {Pick(s)}) + 1 = Cardinality(s)
    BY <2>1, <2>2, SizeLess
  <2>4. Cardinality(s \ {Pick(s)}) <= n
    BY <2>1, <2>3
  <2>5. s \ {Pick(s)} \in Small(D, n)
    BY <2>3, <2>4 DEF Small
  <2> QED
    BY <2>5, <1>1
<1>3. h = RecTo(f, D, n + 1, h)
  BY <1>2 DEF RecTo
<1> QED
  BY <1>3

LEMMA RecExists ==
  ASSUME NEW f, NEW D, IsFiniteSet(D)
  PROVE  \E g : g = Rec(f, D, g)
<1> DEFINE Bad == {n \in Nat : ~(\E g : g = RecTo(f, D, n, g))}
<1>1. \E g : g = RecTo(f, D, 0, g)
  <2> DEFINE g == [s \in Small(D, 0) |-> 0]
  <2>1. ASSUME NEW s \in Small(D, 0) PROVE s = {}
    <3>1. s \in SUBSET D /\ Cardinality(s) <= 0
      BY DEF Small
    <3>2. IsFiniteSet(s) /\ Cardinality(s) = 0
      BY <3>1, SizeOf
    <3> QED
      BY <3>2, FS_EmptySet
  <2>2. g = RecTo(f, D, 0, g)
    BY <2>1 DEF RecTo
  <2> QED
    BY <2>2
<1>2. Bad = {}
  <2> SUFFICES ASSUME Bad # {} PROVE FALSE
    OBVIOUS
  <2>1. PICK n \in Bad : \A k \in Bad : n <= k
    BY LeastNat
  <2>2. n # 0
    BY <1>1, <2>1
  <2>3. n - 1 \in Nat /\ n - 1 \notin Bad /\ n \in Nat /\ (n - 1) + 1 = n
    <3>1. n \in Nat /\ n - 1 \in Nat /\ ~(n <= n - 1) /\ (n - 1) + 1 = n
      BY <2>1, <2>2
    <3> QED
      BY <2>1, <3>1
  <2>4. PICK g : g = RecTo(f, D, n - 1, g)
    BY <2>3
  <2>5. \E h : h = RecTo(f, D, (n - 1) + 1, h)
    BY <2>3, <2>4, RecExtends
  <2> QED
    BY <2>1, <2>3, <2>5
<1>3. Cardinality(D) \in Nat
  BY FS_CardinalityType
<1>4. PICK g : g = RecTo(f, D, Cardinality(D), g)
  BY <1>2, <1>3
<1>5. Small(D, Cardinality(D)) = SUBSET D
  BY SizeOf DEF Small
<1>6. g = Rec(f, D, g)
  BY <1>4, <1>5 DEF Rec, RecTo
<1> QED
  BY <1>6

LEMMA RecAgree ==
  ASSUME NEW f, NEW D, NEW E, IsFiniteSet(D), IsFiniteSet(E),
         NEW g, g = Rec(f, D, g), NEW h, h = Rec(f, E, h), NEW r \in (SUBSET D) \cap (SUBSET E)
  PROVE  g[r] = h[r]
<1> DEFINE Bad == {s \in (SUBSET D) \cap (SUBSET E) : g[s] # h[s]}
           Sizes == {Cardinality(s) : s \in Bad}
<1>1. ASSUME NEW s \in (SUBSET D) \cap (SUBSET E)
      PROVE  /\ g[s] = IF s = {} THEN 0 ELSE f[Pick(s)] + g[s \ {Pick(s)}]
             /\ h[s] = IF s = {} THEN 0 ELSE f[Pick(s)] + h[s \ {Pick(s)}]
  <2>1. Rec(f, D, g)[s] = IF s = {} THEN 0 ELSE f[Pick(s)] + g[s \ {Pick(s)}]
    BY DEF Rec
  <2>2. Rec(f, E, h)[s] = IF s = {} THEN 0 ELSE f[Pick(s)] + h[s \ {Pick(s)}]
    BY DEF Rec
  <2> QED
    BY <2>1, <2>2
<1>2. Bad = {}
  <2> SUFFICES ASSUME Bad # {} PROVE FALSE
    OBVIOUS
  <2>1. Sizes \in SUBSET Nat /\ Sizes # {}
    BY SizeOf
  <2>2. PICK n \in Sizes : \A k \in Sizes : n <= k
    BY <2>1, LeastNat
  <2>3. PICK s \in Bad : n = Cardinality(s)
    BY <2>2
  <2>4. s # {}
    BY <2>3, <1>1
  <2>5. Pick(s) \in s /\ s \in SUBSET D /\ s \in SUBSET E
    BY <2>3, <2>4, PickIn
  <2>6. Cardinality(s \ {Pick(s)}) \in Nat /\ Cardinality(s \ {Pick(s)}) + 1 = n
    BY <2>3, <2>5, SizeLess
  <2>7. s \ {Pick(s)} \notin Bad
    <3>1. ~(n <= Cardinality(s \ {Pick(s)}))
      BY <2>6
    <3> QED
      BY <2>2, <3>1
  <2>8. g[s \ {Pick(s)}] = h[s \ {Pick(s)}]
    BY <2>5, <2>7
  <2> QED
    BY <2>3, <2>4, <2>8, <1>1
<1> QED
  BY <1>2

\* The sum of f over S, in whatever order the elements are taken.
Sum(f, S) == (CHOOSE g : g = Rec(f, S, g))[S]

LEMMA SumIs ==
  ASSUME NEW f, NEW D, IsFiniteSet(D), NEW g, g = Rec(f, D, g), NEW s \in SUBSET D
  PROVE  g[s] = Sum(f, s)
<1> DEFINE h == CHOOSE k : k = Rec(f, s, k)
<1>1. IsFiniteSet(s)
  BY FS_Subset
<1>2. \E k : k = Rec(f, s, k)
  BY <1>1, RecExists
<1>3. h = Rec(f, s, h)
  BY <1>2, Zenon
<1>4. Sum(f, s) = h[s]
  BY DEF Sum
<1> HIDE DEF h
<1> QED
  BY <1>1, <1>3, <1>4, RecAgree

LEMMA SumUnfolds ==
  ASSUME NEW f, NEW S, IsFiniteSet(S)
  PROVE  /\ S = {} => Sum(f, S) = 0
         /\ S # {} => Sum(f, S) = f[Pick(S)] + Sum(f, S \ {Pick(S)})
<1>1. PICK g : g = Rec(f, S, g)
  BY RecExists
<1>2. Rec(f, S, g)[S] = IF S = {} THEN 0 ELSE f[Pick(S)] + g[S \ {Pick(S)}]
  BY DEF Rec
<1>3. g[S] = Sum(f, S) /\ g[S \ {Pick(S)}] = Sum(f, S \ {Pick(S)})
  <2>1. S \in SUBSET S /\ S \ {Pick(S)} \in SUBSET S
    OBVIOUS
  <2> QED
    BY <1>1, <2>1, SumIs
<1> QED
  BY <1>1, <1>2, <1>3

\* A property of sums by the size of the set: the least set without it.
LEMMA SumType ==
  ASSUME NEW D, IsFiniteSet(D), NEW f \in [D -> Nat], NEW r \in SUBSET D
  PROVE  Sum(f, r) \in Nat
<1> DEFINE Bad == {s \in SUBSET D : Sum(f, s) \notin Nat}
           Sizes == {Cardinality(s) : s \in Bad}
<1>1. Bad = {}
  <2> SUFFICES ASSUME Bad # {} PROVE FALSE
    OBVIOUS
  <2>1. Sizes \in SUBSET Nat /\ Sizes # {}
    BY SizeOf
  <2>2. PICK n \in Sizes : \A k \in Sizes : n <= k
    BY <2>1, LeastNat
  <2>3. PICK s \in Bad : n = Cardinality(s)
    BY <2>2
  <2>4. IsFiniteSet(s) /\ s \in SUBSET D
    BY <2>3, SizeOf
  <2>5. s # {}
    <3>1. Sum(f, s) # 0
      BY <2>3
    <3> QED
      BY <2>4, <3>1, SumUnfolds
  <2>6. Pick(s) \in s
    BY <2>5, PickIn
  <2>7. s \ {Pick(s)} \in SUBSET D /\ Cardinality(s \ {Pick(s)}) \in Nat /\ Cardinality(s \ {Pick(s)}) + 1 = n
    BY <2>3, <2>4, <2>6, SizeLess
  <2>8. s \ {Pick(s)} \notin Bad
    <3>1. ~(n <= Cardinality(s \ {Pick(s)}))
      BY <2>7
    <3> QED
      BY <2>2, <3>1
  <2>9. Sum(f, s \ {Pick(s)}) \in Nat /\ f[Pick(s)] \in Nat
    BY <2>4, <2>6, <2>7, <2>8
  <2>10. Sum(f, s) = f[Pick(s)] + Sum(f, s \ {Pick(s)})
    BY <2>4, <2>5, SumUnfolds
  <2>11. Sum(f, s) \in Nat
    BY <2>9, <2>10
  <2> QED
    BY <2>3, <2>11
<1> QED
  BY <1>1

LEMMA SumSplit ==
  ASSUME NEW D, IsFiniteSet(D), NEW f \in [D -> Nat], NEW r \in SUBSET D, NEW e \in r
  PROVE  Sum(f, r) = f[e] + Sum(f, r \ {e})
<1> DEFINE Bad == {s \in SUBSET D : \E x \in s : Sum(f, s) # f[x] + Sum(f, s \ {x})}
           Sizes == {Cardinality(s) : s \in Bad}
<1>1. Bad = {}
  <2> SUFFICES ASSUME Bad # {} PROVE FALSE
    OBVIOUS
  <2>1. Sizes \in SUBSET Nat /\ Sizes # {}
    BY SizeOf
  <2>2. PICK n \in Sizes : \A k \in Sizes : n <= k
    BY <2>1, LeastNat
  <2>3. PICK s \in Bad : n = Cardinality(s)
    BY <2>2
  <2>4. PICK x \in s : Sum(f, s) # f[x] + Sum(f, s \ {x})
    BY <2>3
  <2> DEFINE y == Pick(s)
  <2>5. IsFiniteSet(s) /\ s \in SUBSET D /\ y \in s
    BY <2>3, <2>4, SizeOf, PickIn
  <2>6. Sum(f, s) = f[y] + Sum(f, s \ {y})
    BY <2>4, <2>5, SumUnfolds
  <2> HIDE DEF y
  <2>7. ASSUME NEW z \in s PROVE s \ {z} \in SUBSET D /\ s \ {z} \notin Bad
    <3>1. s \ {z} \in SUBSET D /\ Cardinality(s \ {z}) \in Nat /\ Cardinality(s \ {z}) + 1 = n
      BY <2>3, <2>5, SizeLess
    <3>2. ~(n <= Cardinality(s \ {z}))
      BY <3>1
    <3> QED
      BY <2>2, <3>1, <3>2
  <2>8. x # y
    BY <2>4, <2>6
  <2>9. Sum(f, s \ {y}) = f[x] + Sum(f, (s \ {y}) \ {x})
    <3>1. x \in s \ {y} /\ s \ {y} \in SUBSET D /\ s \ {y} \notin Bad
      BY <2>5, <2>7, <2>8
    <3> QED
      BY <3>1
  <2>10. Sum(f, s \ {x}) = f[y] + Sum(f, (s \ {x}) \ {y})
    <3>1. y \in s \ {x} /\ s \ {x} \in SUBSET D /\ s \ {x} \notin Bad
      BY <2>5, <2>7, <2>8
    <3> QED
      BY <3>1
  <2>11. (s \ {x}) \ {y} = (s \ {y}) \ {x} /\ (s \ {x}) \ {y} \in SUBSET D
    BY <2>5
  <2>12. f[x] \in Nat /\ f[y] \in Nat /\ Sum(f, (s \ {x}) \ {y}) \in Nat
    BY <2>5, <2>11, SumType
  <2>13. f[y] + (f[x] + Sum(f, (s \ {x}) \ {y})) = f[x] + (f[y] + Sum(f, (s \ {x}) \ {y}))
    BY <2>12
  <2> QED
    BY <2>4, <2>6, <2>9, <2>10, <2>11, <2>13
<1> QED
  BY <1>1

LEMMA SumSame ==
  ASSUME NEW S, IsFiniteSet(S), NEW f, NEW g, \A x \in S : f[x] = g[x]
  PROVE  Sum(f, S) = Sum(g, S)
<1>1. PICK h : h = Rec(f, S, h)
  BY RecExists
<1>2. ASSUME NEW s \in SUBSET S, s # {} PROVE f[Pick(s)] = g[Pick(s)]
  BY <1>2, PickIn
<1>3. h = Rec(g, S, h)
  BY <1>1, <1>2 DEF Rec
<1>4. h[S] = Sum(f, S) /\ h[S] = Sum(g, S)
  <2>1. S \in SUBSET S
    OBVIOUS
  <2>2. h[S] = Sum(f, S)
    BY <1>1, <2>1, SumIs
  <2>3. h[S] = Sum(g, S)
    BY <1>3, <2>1, SumIs
  <2> QED
    BY <2>2, <2>3
<1> QED
  BY <1>4

LEMMA SumUpdate ==
  ASSUME NEW D, IsFiniteSet(D), NEW f \in [D -> Nat], NEW g \in [D -> Nat],
         NEW S \in SUBSET D, NEW e \in S, \A x \in S \ {e} : f[x] = g[x]
  PROVE  /\ f[e] \in Nat /\ g[e] \in Nat /\ Sum(f, S) \in Nat /\ Sum(g, S) \in Nat
         /\ f[e] <= Sum(f, S) /\ Sum(g, S) = (Sum(f, S) - f[e]) + g[e]
<1>1. S \ {e} \in SUBSET D /\ IsFiniteSet(S \ {e})
  <2>1. S \ {e} \in SUBSET D
    OBVIOUS
  <2> QED
    BY <2>1, FS_Subset
<1>2. Sum(f, S \ {e}) = Sum(g, S \ {e}) /\ Sum(f, S \ {e}) \in Nat
  BY <1>1, SumSame, SumType
<1>3. Sum(f, S) = f[e] + Sum(f, S \ {e}) /\ Sum(g, S) = g[e] + Sum(g, S \ {e})
  BY SumSplit
<1>4. f[e] \in Nat /\ g[e] \in Nat
  OBVIOUS
<1> QED
  BY <1>2, <1>3, <1>4

LEMMA SumZero ==
  ASSUME NEW S, IsFiniteSet(S), NEW f, \A x \in S : f[x] = 0
  PROVE  Sum(f, S) = 0
<1> DEFINE h == [s \in SUBSET S |-> 0]
<1>1. ASSUME NEW s \in SUBSET S, s # {} PROVE f[Pick(s)] + h[s \ {Pick(s)}] = 0
  <2>1. Pick(s) \in S
    BY <1>1, PickIn
  <2>2. f[Pick(s)] = 0 /\ h[s \ {Pick(s)}] = 0
    BY <2>1
  <2> QED
    BY <2>2
<1>2. h = Rec(f, S, h)
  BY <1>1 DEF Rec
<1>3. h[S] = Sum(f, S)
  <2> HIDE DEF h
  <2> QED
    BY <1>2, SumIs
<1> QED
  BY <1>3

-----------------------------------------------------------------------------
(* Arithmetic.                                                             *)

LEMMA MaxTwo ==
  ASSUME NEW a \in Int, NEW b \in Int
  PROVE  Max({a, b}) = IF a >= b THEN a ELSE b
<1>1. \E x \in {a, b} : \A y \in {a, b} : x >= y
  OBVIOUS
<1>2. Max({a, b}) \in {a, b} /\ \A y \in {a, b} : Max({a, b}) >= y
  BY <1>1 DEF Max
<1> QED
  BY <1>2

LEMMA MaxNat ==
  ASSUME NEW a \in Nat, NEW b \in Nat
  PROVE  Max({a, b}) \in Nat
  BY MaxTwo

LEMMA MaxThree ==
  ASSUME NEW a \in Nat, NEW b \in Nat, NEW c \in Nat
  PROVE  Max({a, b, c}) \in Nat
<1>1. \E x \in {a, b, c} : \A y \in {a, b, c} : x >= y
  OBVIOUS
<1>2. Max({a, b, c}) \in {a, b, c}
  BY <1>1 DEF Max
<1> QED
  BY <1>2

LEMMA CeilType ==
  ASSUME BudgetAssumption, NEW n \in Nat
  PROVE  CeilFactor(n) \in Nat
<1>1. Factor \in Nat
  BY DEF BudgetAssumption
<1>2. n * Factor \in Nat
  BY <1>1
<1>3. ASSUME NEW m \in Nat PROVE (m + 99) \div 100 \in Nat
  OBVIOUS
<1> QED
  BY <1>2, <1>3 DEF CeilFactor

LEMMA RankOf == ASSUME NEW i \in 1..4 PROVE StatusRank(Levels[i]) = i
<1>1. i \in {1, 2, 3, 4}
  OBVIOUS
<1>2. \A j, k \in {1, 2, 3, 4} : Levels[j] = Levels[k] => j = k
  BY DEF Levels
<1>3. 1..4 = {1, 2, 3, 4}
  OBVIOUS
<1>4. \E j \in 1..4 : Levels[j] = Levels[i]
  OBVIOUS
<1>5. StatusRank(Levels[i]) \in 1..4 /\ Levels[StatusRank(Levels[i])] = Levels[i]
  BY <1>4 DEF StatusRank
<1> QED
  BY <1>2, <1>3, <1>5

\* Which of the four levels an amount is.
Grade(amount, total) ==
  IF amount >= total THEN 4
  ELSE IF amount * 100 >= total * 90 THEN 3
  ELSE IF amount * 100 >= total * 70 THEN 2 ELSE 1

LEMMA StatusIs ==
  ASSUME NEW n \in Nat, NEW t \in Nat
  PROVE  /\ Grade(n, t) \in 1..4 /\ StatusFor(n, t) = Levels[Grade(n, t)]
         /\ StatusRank(StatusFor(n, t)) = Grade(n, t)
         /\ StatusFor(n, t) \in {Levels[i] : i \in 1..4}
<1>1. Grade(n, t) \in 1..4
  BY DEF Grade
<1>2. StatusFor(n, t) = Levels[Grade(n, t)]
  BY DEF StatusFor, Grade
<1> QED
  BY <1>1, <1>2, RankOf

LEMMA GradeGrows ==
  ASSUME NEW m \in Nat, NEW n \in Nat, NEW t \in Nat, m <= n
  PROVE  Grade(m, t) <= Grade(n, t)
  BY DEF Grade

-----------------------------------------------------------------------------
(* The invariant.                                                          *)

Promised == [c \in Calls |-> Amount(rows[c])]
Spent == [c \in Calls |-> log[c].used]
Excess == [c \in Calls |-> Max({0, log[c].used - log[c].reserved})]
StageCalls(s) == {c \in Calls : StageFor(RoleOf[c]) = s}

PlanTyped ==
  /\ plan \in [used : Nat, row : Reservations, attempts : 0..MaxAttempts,
               status : {Levels[i] : i \in 1..4}, linked : BOOLEAN]
  /\ planner \in {"new", "checked", "calling1", "recover", "calling2", "planned",
                  "failed", "denied", "linked", "running"}
  /\ planLog \in [first : Nat, over : Nat, denied : Nat]

LedgersTyped ==
  /\ run \in [used : Nat, reserved : Nat, status : {Levels[i] : i \in 1..4}]
  /\ stage \in [Stages -> Totals]
  /\ share \in [Tasks -> [Roles -> [used : Nat, reserved : Nat, observed : Nat]]]
  /\ rows \in [Calls -> Reservations]
  /\ log \in [Calls -> Totals]

CallsTyped ==
  /\ obs \in [Tasks -> [Roles -> [prompt : Nat, growth : Nat, tools : Nat, set : BOOLEAN]]]
  /\ want \in [Calls -> Reservations]
  /\ point \in [Calls -> {"idle", "reserving", "refused", "denied", "calling", "settling", "cancelling",
                       "settle2", "cancel2", "observing", "tools", "done", "lost"}]
  /\ runLock \in Calls \cup {Free} /\ taskLock \in [Tasks -> Calls \cup {Free}]

\* The Run row: the sum of its calls, and the sum of its stages.
RunAgrees ==
  /\ run.reserved = Sum(Promised, Calls)
  /\ run.used = Sum(Spent, Calls) + stage["PLANNING"].used
  /\ run.reserved = stage["PLANNING"].reserved + stage["DEVELOPMENT"].reserved
                    + stage["VERIFICATION_REPAIR"].reserved + stage["REVIEW_PUBLICATION"].reserved
  /\ run.used = stage["PLANNING"].used + stage["DEVELOPMENT"].used
                + stage["VERIFICATION_REPAIR"].used + stage["REVIEW_PUBLICATION"].used

\* A stage holds at least what a call of it takes off again.
StagesAgree == \A s \in Stages : stage[s].reserved = Sum(Promised, StageCalls(s))

SharesAgree ==
  \A t \in Tasks, r \in PackageRoles :
    /\ share[t][r].reserved = Sum(Promised, CallsOf(t, r))
    /\ share[t][r].used = Sum(Spent, CallsOf(t, r))

Bounded == run.used + run.reserved <= Max({Total, stage["PLANNING"].used}) + Sum(Excess, Calls)

\* A call has no reservation before reserve, and is in the log once it is settled.
Open == {"calling", "settling", "cancelling", "settle2", "cancel2"}
CallsFollow ==
  \A c \in Calls :
    /\ point[c] \in {"idle", "reserving"} => rows[c] = None
    /\ point[c] \in {"idle", "reserving"} \cup Open => log[c] = [reserved |-> 0, used |-> 0]

\* No call before the Run is running, and no planning charged.
PlanningFirst ==
  /\ planner # "running" => stage["PLANNING"].used = 0 /\ \A c \in Calls : point[c] = "idle"
  /\ stage["PLANNING"].used \in {0, plan.used}

\* What ensure_launch_capacity found out, and what is left of it.
Affordable == 2 <= MaxAttempts /\ RequiredTokens(planLog.first) <= PlanTotal
LaunchHolds ==
  /\ planner = "new" => plan.used = 0 /\ plan.row = None /\ plan.attempts = 0
  /\ planner = "checked" => Affordable /\ plan.used = 0 /\ plan.row = None /\ plan.attempts = 0
  /\ planner = "calling1" => /\ Affordable /\ plan.used = 0 /\ plan.attempts = 1
                             /\ plan.row = [in |-> planLog.first, out |-> MaxOutput]
  /\ planner = "recover" => /\ Affordable /\ plan.row = None /\ plan.attempts = 1
                            /\ plan.used <= planLog.first + MaxOutput + planLog.over

Launch == PlanTyped /\ LaunchHolds /\ EnvelopeSuffices
Ledgers == LedgersTyped /\ RunAgrees /\ StagesAgree /\ SharesAgree /\ Bounded /\ StatusNotUnderstated
BudgetInv == Launch /\ Ledgers /\ CallsTyped /\ CallsFollow /\ PlanningFirst

-----------------------------------------------------------------------------
(* The launch.                                                             *)

LEMMA BudgetConstants ==
  ASSUME BudgetAssumption
  PROVE  /\ IsFiniteSet(Calls) /\ TaskOf \in [Calls -> Tasks] /\ RoleOf \in [Calls -> Roles]
         /\ Total \in Nat /\ PlanTotal \in Nat /\ MaxAttempts \in Nat /\ MaxOutput \in Nat /\ Envelope \in Nat
         /\ MaxOutput >= 1
         /\ Estimates \subseteq Nat /\ ToolTokens \subseteq Nat
         /\ Usages \subseteq [prompt : Nat, completion : Nat]
  BY DEF BudgetAssumption

LEMMA Usage ==
  ASSUME BudgetAssumption, NEW u \in Usages, NEW r \in Reservations
  PROVE  ActualUsage(u, r) \in [prompt : Nat, completion : Nat]
  BY BudgetConstants DEF ActualUsage, Reservations

LEMMA EnsureCapacityStep ==
  ASSUME BudgetAssumption, Launch, EnsureCapacity
  PROVE  Launch' /\ plan' = plan /\ planner' \in {"checked", "denied"}
<1>1. PICK e \in Estimates :
        /\ planLog' = [planLog EXCEPT !.first = e]
        /\ planner' = IF CapacityFor(RequiredTokens(e), 2) THEN "checked" ELSE "denied"
  BY DEF EnsureCapacity
<1>2. e \in Nat /\ PlanTotal \in Nat /\ MaxOutput \in Nat /\ Envelope \in Nat /\ MaxOutput >= 1
      /\ MaxAttempts \in Nat
  BY BudgetConstants
<1>3. plan' = plan /\ planner = "new"
  BY DEF EnsureCapacity
<1>4. PlanTyped' /\ planLog'.first = e /\ planLog'.over = planLog.over /\ planLog'.denied = planLog.denied
  BY <1>1, <1>2, <1>3 DEF Launch, PlanTyped
<1>5. EnvelopeSuffices'
  BY <1>4 DEF Launch, EnvelopeSuffices
<1>6. plan.used = 0 /\ plan.row = None /\ plan.attempts = 0
  BY <1>3 DEF Launch, LaunchHolds
<1>7. CapacityFor(RequiredTokens(e), 2) => 2 <= MaxAttempts /\ RequiredTokens(e) <= PlanTotal
  <2>1. Amount(plan.row) = 0
    BY <1>6 DEF Amount, None
  <2>2. PlanAvailable = PlanTotal
    <3>1. PlanTotal - 0 - 0 = PlanTotal /\ Max({0, PlanTotal}) = PlanTotal
      BY <1>2, MaxTwo
    <3> QED
      BY <1>6, <2>1, <3>1 DEF PlanAvailable
  <2> QED
    BY <1>2, <1>6, <2>2 DEF CapacityFor
<1>8. LaunchHolds'
  BY <1>1, <1>3, <1>4, <1>6, <1>7 DEF LaunchHolds, Affordable, RequiredTokens
<1> QED
  BY <1>1, <1>3, <1>4, <1>5, <1>8 DEF Launch

LEMMA PlanReserveStep ==
  ASSUME BudgetAssumption, Launch, PlanReserve
  PROVE  Launch' /\ plan'.used = plan.used /\ planner' \in {"calling1", "calling2", "denied"}
<1>1. PICK e \in IF planner = "checked" THEN {planLog.first} ELSE Estimates :
       IF PlanRefusal(e)
       THEN /\ planner' = "denied"
            /\ planLog' = [planLog EXCEPT !.denied = e + MaxOutput]
            /\ UNCHANGED plan
       ELSE /\ plan' = [plan EXCEPT !.row = [in |-> e, out |-> MaxOutput], !.attempts = @ + 1,
                          !.status = StatusFor(plan.used + e + MaxOutput, PlanTotal)]
            /\ planner' = IF planner = "checked" THEN "calling1" ELSE "calling2"
            /\ UNCHANGED planLog
  BY DEF PlanReserve
<1>2. planner \in {"checked", "recover"} /\ PlanTyped /\ LaunchHolds
  BY DEF PlanReserve, Launch
<1>3. e \in Nat /\ PlanTotal \in Nat /\ MaxOutput \in Nat /\ Envelope \in Nat /\ MaxAttempts \in Nat
      /\ MaxOutput >= 1
  BY <1>1, <1>2, BudgetConstants DEF PlanTyped
<1>4. plan.used \in Nat /\ plan.attempts \in 0..MaxAttempts /\ plan.row = None /\ Amount(plan.row) = 0
      /\ planLog.first \in Nat /\ planLog.over \in Nat
  BY <1>2 DEF PlanTyped, LaunchHolds, None, Amount
<1>5. Affordable
  BY <1>2 DEF LaunchHolds
<1>6. CASE PlanRefusal(e)
  <2>1. planner' = "denied" /\ planLog' = [planLog EXCEPT !.denied = e + MaxOutput] /\ plan' = plan
    BY <1>1, <1>6
  <2>2. PlanTyped' /\ planLog'.denied = e + MaxOutput /\ planLog'.over = planLog.over
    BY <1>2, <1>3, <2>1 DEF PlanTyped
  <2>3. plan.used + 0 + e + MaxOutput > PlanTotal
    BY <1>2, <1>3, <1>4, <1>5, <1>6 DEF PlanRefusal, LaunchHolds, Affordable
  <2>4. planner = "recover" /\ plan.used <= planLog.first + MaxOutput + planLog.over
    <3>1. planner = "checked" => e = planLog.first /\ plan.used = 0
      BY <1>1, <1>2 DEF LaunchHolds
    <3>2. planLog.first + MaxOutput + Envelope + MaxOutput <= PlanTotal
      BY <1>5 DEF Affordable, RequiredTokens
    <3> QED
      BY <1>2, <1>3, <1>4, <2>3, <3>1, <3>2 DEF LaunchHolds
  <2>5. planLog.over > 0 \/ e > Envelope
    BY <1>3, <1>4, <1>5, <2>3, <2>4 DEF Affordable, RequiredTokens
  <2>6. EnvelopeSuffices'
    BY <1>3, <1>4, <2>2, <2>5 DEF EnvelopeSuffices
  <2> QED
    BY <2>1, <2>2, <2>6 DEF Launch, LaunchHolds
<1>7. CASE ~PlanRefusal(e)
  <2>1. /\ plan' = [plan EXCEPT !.row = [in |-> e, out |-> MaxOutput], !.attempts = @ + 1,
                          !.status = StatusFor(plan.used + e + MaxOutput, PlanTotal)]
        /\ planner' = (IF planner = "checked" THEN "calling1" ELSE "calling2")
        /\ planLog' = planLog
    BY <1>1, <1>7
  <2>2. StatusFor(plan.used + e + MaxOutput, PlanTotal) \in {Levels[i] : i \in 1..4}
    <3>1. plan.used + e + MaxOutput \in Nat
      BY <1>3, <1>4
    <3> QED
      BY <1>3, <3>1, StatusIs
  <2>3. plan.attempts + 1 \in 0..MaxAttempts
    BY <1>3, <1>4, <1>7 DEF PlanRefusal
  <2>4. [in |-> e, out |-> MaxOutput] \in Reservations
    BY <1>3 DEF Reservations
  <2>5. PlanTyped'
    BY <1>2, <2>1, <2>2, <2>3, <2>4 DEF PlanTyped
  <2>6. plan'.used = plan.used /\ plan'.row = [in |-> e, out |-> MaxOutput]
        /\ plan'.attempts = plan.attempts + 1
    BY <1>2, <2>1 DEF PlanTyped
  <2>7. LaunchHolds'
    BY <1>1, <1>2, <1>5, <2>1, <2>6 DEF LaunchHolds, Affordable, RequiredTokens
  <2>8. EnvelopeSuffices'
    BY <2>1 DEF Launch, EnvelopeSuffices
  <2> QED
    BY <2>1, <2>5, <2>6, <2>7, <2>8 DEF Launch
<1> QED
  BY <1>6, <1>7

LEMMA PlanFinishType ==
  ASSUME BudgetAssumption, PlanTyped, NEW n \in Nat, PlanFinish(n)
  PROVE  /\ plan' \in [used : Nat, row : Reservations, attempts : 0..MaxAttempts,
                       status : {Levels[i] : i \in 1..4}, linked : BOOLEAN]
         /\ plan'.used = plan.used + n /\ plan'.row = None /\ plan'.attempts = plan.attempts
<1>1. plan.used + n \in Nat /\ PlanTotal \in Nat
  BY BudgetConstants DEF PlanTyped
<1>2. StatusFor(plan.used + n, PlanTotal) \in {Levels[i] : i \in 1..4}
  BY <1>1, StatusIs
<1>3. None \in Reservations
  BY DEF None, Reservations
<1> QED
  BY <1>1, <1>2, <1>3 DEF PlanFinish, PlanTyped

LEMMA PlanSettleStep ==
  ASSUME BudgetAssumption, Launch, PlanSettle
  PROVE  Launch' /\ planner' \in {"planned", "recover", "failed"}
<1>1. PICK u \in Usages, good \in BOOLEAN :
        LET actual == ActualUsage(u, plan.row) IN
        /\ PlanFinish(actual.prompt + actual.completion)
        /\ planLog' = [planLog EXCEPT !.over =
             @ + Max({0, actual.prompt + actual.completion - Amount(plan.row)})]
        /\ planner' = IF good THEN "planned" ELSE IF planner = "calling1" THEN "recover" ELSE "failed"
  BY DEF PlanSettle
<1> DEFINE actual == ActualUsage(u, plan.row)
           n == actual.prompt + actual.completion
           m == Amount(plan.row)
           x == Max({0, actual.prompt + actual.completion - m})
<1>2. planner \in {"calling1", "calling2"} /\ PlanTyped /\ LaunchHolds /\ EnvelopeSuffices
  BY DEF PlanSettle, Launch
<1>3. n \in Nat /\ m \in Nat /\ x \in Nat /\ n <= m + x
  <2>1. plan.row \in Reservations
    BY <1>2 DEF PlanTyped
  <2>2. actual.prompt \in Nat /\ actual.completion \in Nat /\ m \in Nat
    BY <2>1, Usage DEF Reservations, Amount
  <2> HIDE DEF actual, m
  <2>3. actual.prompt + actual.completion - m \in Int /\ n \in Nat
    BY <2>2
  <2>4. x = IF 0 >= actual.prompt + actual.completion - m THEN 0 ELSE actual.prompt + actual.completion - m
    BY <2>3, MaxTwo
  <2> QED
    BY <2>2, <2>3, <2>4
<1>4. /\ PlanFinish(n) /\ planLog' = [planLog EXCEPT !.over = @ + x]
      /\ planner' \in {"planned", "recover", "failed"} /\ (planner' = "recover" => planner = "calling1")
  <2>1. PlanFinish(n) /\ planLog' = [planLog EXCEPT !.over = @ + x]
    BY <1>1
  <2>2. planner' = IF good THEN "planned" ELSE IF planner = "calling1" THEN "recover" ELSE "failed"
    BY <1>1
  <2> QED
    BY <2>2, <2>1
<1>5. planner = "calling1" => m = planLog.first + MaxOutput
  BY <1>2 DEF LaunchHolds, Amount
<1> HIDE DEF actual, n, m, x
<1>6. /\ plan' \in [used : Nat, row : Reservations, attempts : 0..MaxAttempts,
                       status : {Levels[i] : i \in 1..4}, linked : BOOLEAN]
      /\ plan'.used = plan.used + n /\ plan'.row = None /\ plan'.attempts = plan.attempts
  BY <1>2, <1>3, <1>4, PlanFinishType
<1>7. /\ planLog' \in [first : Nat, over : Nat, denied : Nat]
      /\ planLog'.first = planLog.first /\ planLog'.over = planLog.over + x /\ planLog'.denied = planLog.denied
  BY <1>2, <1>3, <1>4 DEF PlanTyped
<1>8. PlanTyped'
  BY <1>2, <1>4, <1>6, <1>7 DEF PlanTyped
<1>9. EnvelopeSuffices'
  <2>1. planLog.over \in Nat /\ planLog.denied \in Nat
    BY <1>2 DEF PlanTyped
  <2> QED
    BY <1>2, <1>3, <1>7, <2>1 DEF EnvelopeSuffices
<1>10. LaunchHolds'
  <2>1. CASE planner' = "recover"
    <3>1. planner = "calling1" /\ Affordable /\ plan.used = 0 /\ plan.attempts = 1
      BY <1>2, <1>4, <2>1 DEF LaunchHolds
    <3>2. n <= planLog.first + MaxOutput + (planLog.over + x)
      <4>1. planLog.first \in Nat /\ MaxOutput \in Nat /\ planLog.over \in Nat
        BY <1>2, BudgetConstants DEF PlanTyped
      <4> QED
        BY <1>3, <1>5, <3>1, <4>1
    <3>3. Affordable'
      BY <1>7, <3>1 DEF Affordable, RequiredTokens
    <3>4. plan'.used <= planLog'.first + MaxOutput + planLog'.over
      BY <1>3, <1>6, <1>7, <3>1, <3>2
    <3> QED
      BY <1>6, <2>1, <3>1, <3>3, <3>4 DEF LaunchHolds
  <2>2. CASE planner' # "recover"
    BY <1>2, <1>4, <2>2 DEF LaunchHolds
  <2> QED
    BY <2>1, <2>2
<1> QED
  BY <1>4, <1>8, <1>9, <1>10 DEF Launch

LEMMA PlanEndsStep ==
  ASSUME BudgetAssumption, Launch, PlanCancel \/ PlanLost
  PROVE  Launch' /\ planner' = "failed"
<1>1. planner' = "failed" /\ planLog' = planLog /\ PlanTyped /\ EnvelopeSuffices
  BY DEF PlanCancel, PlanLost, Launch
<1>2. plan' \in [used : Nat, row : Reservations, attempts : 0..MaxAttempts,
                 status : {Levels[i] : i \in 1..4}, linked : BOOLEAN]
  <2>1. CASE PlanCancel
    BY <1>1, <2>1, PlanFinishType DEF PlanCancel
  <2>2. CASE PlanLost
    BY <1>1, <2>2 DEF PlanLost, PlanTyped
  <2> QED
    BY <2>1, <2>2
<1> QED
  BY <1>1, <1>2 DEF Launch, PlanTyped, LaunchHolds, EnvelopeSuffices

LEMMA LinkToRunStep ==
  ASSUME Launch, LinkToRun
  PROVE  Launch' /\ plan'.used = plan.used /\ planner' \in {"linked", "running"}
<1>1. plan' = [plan EXCEPT !.linked = TRUE] /\ planner' \in {"linked", "running"}
      /\ planLog' = [first |-> 0, over |-> 0, denied |-> 0] /\ PlanTyped
  BY DEF LinkToRun, Launch
<1>2. PlanTyped' /\ plan'.used = plan.used
  BY <1>1 DEF PlanTyped
<1> QED
  BY <1>1, <1>2 DEF Launch, LaunchHolds, EnvelopeSuffices

LEMMA TransferStep ==
  ASSUME Launch, RecordUsage \/ TransferLost
  PROVE  Launch' /\ plan' = plan /\ planner = "linked" /\ planner' = "running"
  BY DEF RecordUsage, TransferLost, Launch, PlanTyped, LaunchHolds, EnvelopeSuffices

-----------------------------------------------------------------------------
(* The ledgers.                                                            *)

LEMMA SumsTyped ==
  ASSUME BudgetAssumption, LedgersTyped
  PROVE  /\ Promised \in [Calls -> Nat] /\ Spent \in [Calls -> Nat] /\ Excess \in [Calls -> Nat]
         /\ \A S \in SUBSET Calls : Sum(Promised, S) \in Nat /\ Sum(Spent, S) \in Nat /\ Sum(Excess, S) \in Nat
<1>1. IsFiniteSet(Calls)
  BY BudgetConstants
<1>2. Promised \in [Calls -> Nat]
  BY DEF Promised, LedgersTyped, Reservations, Amount
<1>3. Spent \in [Calls -> Nat]
  BY DEF Spent, LedgersTyped, Totals
<1>4. Excess \in [Calls -> Nat]
  <2> SUFFICES ASSUME NEW c \in Calls PROVE Max({0, log[c].used - log[c].reserved}) \in Nat
    BY DEF Excess
  <2>1. log[c].used \in Nat /\ log[c].reserved \in Nat
    BY DEF LedgersTyped, Totals
  <2>2. log[c].used - log[c].reserved \in Int
    BY <2>1
  <2> QED
    BY <2>2, MaxTwo
<1> QED
  BY <1>1, <1>2, <1>3, <1>4, SumType

LEMMA SumMoves ==
  ASSUME NEW D, IsFiniteSet(D), NEW f \in [D -> Nat], NEW g \in [D -> Nat], NEW c \in D,
         \A x \in D \ {c} : f[x] = g[x], NEW S \in SUBSET D
  PROVE  /\ Sum(f, S) \in Nat /\ Sum(g, S) \in Nat /\ f[c] \in Nat /\ g[c] \in Nat
         /\ c \in S => f[c] <= Sum(f, S) /\ Sum(g, S) = (Sum(f, S) - f[c]) + g[c]
         /\ c \notin S => Sum(g, S) = Sum(f, S)
<1>1. c \in S => f[c] <= Sum(f, S) /\ Sum(g, S) = (Sum(f, S) - f[c]) + g[c]
  <2> HAVE c \in S
  <2>1. \A x \in S \ {c} : f[x] = g[x]
    OBVIOUS
  <2> QED
    BY <2>1, SumUpdate
<1>2. c \notin S => Sum(g, S) = Sum(f, S)
  <2> HAVE c \notin S
  <2>1. \A x \in S : f[x] = g[x]
    OBVIOUS
  <2>2. IsFiniteSet(S)
    BY FS_Subset
  <2> QED
    BY <2>1, <2>2, SumSame
<1>3. Sum(f, S) \in Nat /\ Sum(g, S) \in Nat /\ f[c] \in Nat /\ g[c] \in Nat
  BY SumType
<1> QED
  BY <1>1, <1>2, <1>3

\* The stage of a call of the Run.
LEMMA StageOfCall ==
  ASSUME BudgetAssumption, NEW c \in Calls
  PROVE  StageFor(RoleOf[c]) \in Stages \ {"PLANNING"} /\ TaskOf[c] \in Tasks /\ RoleOf[c] \in Roles
<1>1. RoleOf[c] \in {"DEVELOPER", "REPAIR", "REVIEWER"} /\ TaskOf[c] \in Tasks /\ RoleOf[c] \in Roles
  BY BudgetConstants DEF Roles, PackageRoles
<1> QED
  BY <1>1 DEF StageFor, Stages

\* A step of one call that changes what it promises to p and what it spent by w.
Moves(c, p, w) ==
  LET old == Promised[c]
      of(s) == s = StageFor(RoleOf[c])
      at(t, r) == RoleOf[c] \in PackageRoles /\ t = TaskOf[c] /\ r = RoleOf[c]
  IN /\ p \in Nat /\ w \in Nat
     /\ run'.reserved = (run.reserved - old) + p /\ run'.used = run.used + w
     /\ \A s \in Stages : /\ of(s) => stage'[s].reserved = (stage[s].reserved - old) + p
                                      /\ stage'[s].used = stage[s].used + w
                          /\ ~of(s) => stage'[s] = stage[s]
     /\ \A t \in Tasks, r \in PackageRoles :
          /\ at(t, r) => share'[t][r].reserved = (share[t][r].reserved - old) + p
                         /\ share'[t][r].used = share[t][r].used + w
          /\ ~at(t, r) => share'[t][r] = share[t][r]
     /\ \A x \in Calls \ {c} : Promised'[x] = Promised[x] /\ Spent'[x] = Spent[x]
     /\ Promised'[c] = p /\ Spent[c] = 0 /\ Spent'[c] = w

LEMMA LedgersMove ==
  ASSUME BudgetAssumption, Ledgers, LedgersTyped', NEW c \in Calls, NEW p, NEW w, Moves(c, p, w)
  PROVE  RunAgrees' /\ StagesAgree' /\ SharesAgree'
<1> DEFINE old == Promised[c]
           k == StageFor(RoleOf[c])
<1>1. IsFiniteSet(Calls) /\ p \in Nat /\ w \in Nat /\ k \in Stages /\ k # "PLANNING"
  BY BudgetConstants, StageOfCall DEF Moves
<1>2. /\ Promised \in [Calls -> Nat] /\ Spent \in [Calls -> Nat]
      /\ Promised' \in [Calls -> Nat] /\ Spent' \in [Calls -> Nat]
  <2>1. LedgersTyped
    BY DEF Ledgers
  <2>2. Promised \in [Calls -> Nat] /\ Spent \in [Calls -> Nat]
    BY <2>1, SumsTyped
  <2>3. Promised' \in [Calls -> Nat]
    BY DEF Promised, LedgersTyped, Reservations, Amount
  <2>4. Spent' \in [Calls -> Nat]
    BY DEF Spent, LedgersTyped, Totals
  <2> QED
    BY <2>2, <2>3, <2>4
<1>3. ASSUME NEW S \in SUBSET Calls
      PROVE  /\ Sum(Promised, S) \in Nat /\ Sum(Spent, S) \in Nat /\ old \in Nat
             /\ c \in S => old <= Sum(Promised, S) /\ Sum(Promised', S) = (Sum(Promised, S) - old) + p
                           /\ Sum(Spent', S) = Sum(Spent, S) + w
             /\ c \notin S => Sum(Promised', S) = Sum(Promised, S) /\ Sum(Spent', S) = Sum(Spent, S)
  <2>1. \A x \in Calls \ {c} : Promised[x] = Promised'[x] /\ Spent[x] = Spent'[x]
    BY DEF Moves
  <2>2. Promised'[c] = p /\ Spent[c] = 0 /\ Spent'[c] = w
    BY DEF Moves
  <2>3. /\ Sum(Promised, S) \in Nat /\ Promised[c] \in Nat
        /\ c \in S => Promised[c] <= Sum(Promised, S) /\ Sum(Promised', S) = (Sum(Promised, S) - Promised[c]) + p
        /\ c \notin S => Sum(Promised', S) = Sum(Promised, S)
    BY <1>1, <1>2, <2>1, <2>2, SumMoves
  <2>4. /\ Sum(Spent, S) \in Nat
        /\ c \in S => Sum(Spent', S) = (Sum(Spent, S) - 0) + w
        /\ c \notin S => Sum(Spent', S) = Sum(Spent, S)
    BY <1>1, <1>2, <2>1, <2>2, SumMoves
  <2> QED
    BY <2>3, <2>4, <1>1
<1>4. StagesAgree'
  <2> SUFFICES ASSUME NEW s \in Stages PROVE stage'[s].reserved = Sum(Promised', StageCalls(s))
    BY DEF StagesAgree
  <2>1. StageCalls(s) \in SUBSET Calls /\ (c \in StageCalls(s) <=> s = k)
    BY DEF StageCalls
  <2>2. stage[s].reserved = Sum(Promised, StageCalls(s))
    BY DEF Ledgers, StagesAgree
  <2>3. CASE s = k
    <3>1. stage'[s].reserved = (stage[s].reserved - old) + p
      <4>1. \A x \in Stages : x = StageFor(RoleOf[c]) => stage'[x].reserved = (stage[x].reserved - Promised[c]) + p
        BY DEF Moves
      <4> QED
        BY <2>3, <4>1
    <3> HIDE DEF old, k
    <3> QED
      BY <1>3, <2>1, <2>2, <2>3, <3>1
  <2>4. CASE s # k
    <3>1. stage'[s] = stage[s]
      BY <2>4 DEF Moves
    <3> HIDE DEF old, k
    <3> QED
      BY <1>3, <2>1, <2>2, <2>4, <3>1
  <2> QED
    BY <2>3, <2>4
<1>5. SharesAgree'
  <2> SUFFICES ASSUME NEW t \in Tasks, NEW r \in PackageRoles
               PROVE  /\ share'[t][r].reserved = Sum(Promised', CallsOf(t, r))
                      /\ share'[t][r].used = Sum(Spent', CallsOf(t, r))
    BY DEF SharesAgree
  <2>1. CallsOf(t, r) \in SUBSET Calls /\ (c \in CallsOf(t, r) <=> t = TaskOf[c] /\ r = RoleOf[c])
    BY DEF CallsOf
  <2>2. share[t][r].reserved = Sum(Promised, CallsOf(t, r)) /\ share[t][r].used = Sum(Spent, CallsOf(t, r))
    BY DEF Ledgers, SharesAgree
  <2>3. CASE t = TaskOf[c] /\ r = RoleOf[c]
    <3>1. share'[t][r].reserved = (share[t][r].reserved - old) + p /\ share'[t][r].used = share[t][r].used + w
      BY <2>3 DEF Moves
    <3> HIDE DEF old, k
    <3> QED
      BY <1>3, <2>1, <2>2, <2>3, <3>1
  <2>4. CASE ~(t = TaskOf[c] /\ r = RoleOf[c])
    <3>1. share'[t][r] = share[t][r]
      BY <2>4 DEF Moves
    <3> HIDE DEF old, k
    <3> QED
      BY <1>3, <2>1, <2>2, <2>4, <3>1
  <2> QED
    BY <2>3, <2>4
<1>6. RunAgrees'
  <2>1. Calls \in SUBSET Calls /\ c \in Calls
    OBVIOUS
  <2>2. run'.reserved = (run.reserved - old) + p /\ run'.used = run.used + w
    BY DEF Moves
  <2>3. RunAgrees
    BY DEF Ledgers
  <2>4. stage["PLANNING"] = stage'["PLANNING"]
    <3>1. "PLANNING" \in Stages
      BY DEF Stages
    <3> QED
      BY <1>1, <3>1 DEF Moves
  <2>5. run'.reserved = Sum(Promised', Calls) /\ run'.used = Sum(Spent', Calls) + stage'["PLANNING"].used
    <3>1. stage["PLANNING"].used \in Nat
      BY DEF Ledgers, LedgersTyped, Totals, Stages
    <3>2. run.reserved = Sum(Promised, Calls) /\ run.used = Sum(Spent, Calls) + stage["PLANNING"].used
      BY <2>3 DEF RunAgrees
    <3> HIDE DEF old, k
    <3>3. /\ Sum(Promised', Calls) = (Sum(Promised, Calls) - old) + p
          /\ Sum(Spent', Calls) = Sum(Spent, Calls) + w /\ Sum(Spent, Calls) \in Nat
      BY <1>3, <2>1
    <3>4. run'.reserved = Sum(Promised', Calls)
      BY <2>2, <3>2, <3>3
    <3>5. (Sum(Spent, Calls) + stage["PLANNING"].used) + w = (Sum(Spent, Calls) + w) + stage["PLANNING"].used
      BY <1>1, <3>1, <3>3
    <3> QED
      BY <2>2, <2>4, <3>2, <3>3, <3>4, <3>5
  <2>6. \A s \in Stages : stage[s].reserved \in Nat /\ stage[s].used \in Nat
    BY DEF Ledgers, LedgersTyped, Totals
  <2>7. \A s \in Stages : /\ s = k => /\ stage'[s].reserved = (stage[s].reserved - old) + p
                                      /\ stage'[s].used = stage[s].used + w
                          /\ s # k => stage'[s] = stage[s]
    BY DEF Moves
  <2>8. old \in Nat
    BY <1>2
  <2> HIDE DEF old, k
  <2>9. /\ run'.reserved = stage'["PLANNING"].reserved + stage'["DEVELOPMENT"].reserved
              + stage'["VERIFICATION_REPAIR"].reserved + stage'["REVIEW_PUBLICATION"].reserved
        /\ run'.used = stage'["PLANNING"].used + stage'["DEVELOPMENT"].used
              + stage'["VERIFICATION_REPAIR"].used + stage'["REVIEW_PUBLICATION"].used
    <3>1. k \in {"DEVELOPMENT", "VERIFICATION_REPAIR", "REVIEW_PUBLICATION"}
      BY <1>1 DEF Stages
    <3>2. /\ run.reserved = stage["PLANNING"].reserved + stage["DEVELOPMENT"].reserved
                + stage["VERIFICATION_REPAIR"].reserved + stage["REVIEW_PUBLICATION"].reserved
          /\ run.used = stage["PLANNING"].used + stage["DEVELOPMENT"].used
                + stage["VERIFICATION_REPAIR"].used + stage["REVIEW_PUBLICATION"].used
      BY <2>3 DEF RunAgrees
    <3>3. CASE k = "DEVELOPMENT"
      BY <1>1, <2>2, <2>6, <2>7, <2>8, <3>2, <3>3 DEF Stages
    <3>4. CASE k = "VERIFICATION_REPAIR"
      BY <1>1, <2>2, <2>6, <2>7, <2>8, <3>2, <3>4 DEF Stages
    <3>5. CASE k = "REVIEW_PUBLICATION"
      BY <1>1, <2>2, <2>6, <2>7, <2>8, <3>2, <3>5 DEF Stages
    <3> QED
      BY <3>1, <3>3, <3>4, <3>5
  <2> QED
    BY <2>5, <2>9 DEF RunAgrees
<1> QED
  BY <1>4, <1>5, <1>6

LEMMA LedgersKept ==
  ASSUME Ledgers, UNCHANGED rowVars
  PROVE  Ledgers'
  BY DEF Ledgers, rowVars, LedgersTyped, RunAgrees, StagesAgree, SharesAgree, Bounded, StatusNotUnderstated,
         Promised, Spent, Excess

LEMMA CallWants ==
  ASSUME CallsTyped, NEW c \in Calls
  PROVE  want[c] \in Reservations /\ want[c].in \in Nat /\ want[c].out \in Nat /\ Amount(want[c]) \in Nat
  BY DEF CallsTyped, Reservations, Amount

LEMMA ReserveLedgers ==
  ASSUME BudgetAssumption, Ledgers, CallsTyped, CallsFollow, NEW c \in Calls, Reserve(c)
  PROVE  Ledgers'
<1> DEFINE p == Amount(want[c])
           k == StageFor(RoleOf[c])
<1>1. /\ point[c] = "reserving" /\ log' = log /\ rows' = [rows EXCEPT ![c] = want[c]]
      /\ run' = [run EXCEPT !.reserved = @ + p, !.status = StatusFor(run.used + run.reserved + p, Total)]
      /\ stage' = [stage EXCEPT ![k].reserved = @ + p]
      /\ share' = IF RoleOf[c] \in PackageRoles
                  THEN [share EXCEPT ![TaskOf[c]][RoleOf[c]].reserved = @ + p] ELSE share
      /\ run.used + run.reserved + p <= Total
  BY DEF Reserve, ReserveHierarchy, RecordSoftShare, Fits
<1>2. p \in Nat /\ want[c] \in Reservations /\ k \in Stages /\ TaskOf[c] \in Tasks /\ RoleOf[c] \in Roles
      /\ Total \in Nat
  BY CallWants, StageOfCall, BudgetConstants
<1>3. LedgersTyped /\ RunAgrees
  BY DEF Ledgers
<1>4. run.used \in Nat /\ run.reserved \in Nat
  BY <1>3 DEF LedgersTyped
<1>5. run.used + run.reserved + p \in Nat
  BY <1>2, <1>4
<1> HIDE DEF p, k
<1>6. LedgersTyped'
  <2>1. run' \in [used : Nat, reserved : Nat, status : {Levels[i] : i \in 1..4}]
    <3>1. StatusFor(run.used + run.reserved + p, Total) \in {Levels[i] : i \in 1..4}
      BY <1>2, <1>5, StatusIs
    <3>2. run.reserved + p \in Nat
      BY <1>2, <1>4
    <3> QED
      BY <1>1, <1>3, <3>1, <3>2 DEF LedgersTyped
  <2>2. stage' \in [Stages -> Totals]
    BY <1>1, <1>2, <1>3 DEF LedgersTyped, Totals
  <2>3. share' \in [Tasks -> [Roles -> [used : Nat, reserved : Nat, observed : Nat]]]
    <3> DEFINE x == [share[TaskOf[c]][RoleOf[c]] EXCEPT !.reserved = @ + p]
    <3>1. share[TaskOf[c]][RoleOf[c]] \in [used : Nat, reserved : Nat, observed : Nat]
      BY <1>2, <1>3 DEF LedgersTyped
    <3>2. x \in [used : Nat, reserved : Nat, observed : Nat]
      BY <1>2, <3>1
    <3>3. share' = IF RoleOf[c] \in PackageRoles THEN [share EXCEPT ![TaskOf[c]][RoleOf[c]] = x] ELSE share
      BY <1>1
    <3> HIDE DEF x
    <3> QED
      BY <1>2, <1>3, <3>2, <3>3 DEF LedgersTyped
  <2>4. rows' \in [Calls -> Reservations] /\ log' \in [Calls -> Totals]
    BY <1>1, <1>2, <1>3 DEF LedgersTyped
  <2> QED
    BY <2>1, <2>2, <2>3, <2>4 DEF LedgersTyped
<1>7. /\ Promised[c] = 0 /\ Promised'[c] = p /\ Spent' = Spent /\ Excess' = Excess /\ Spent[c] = 0
      /\ \A x \in Calls \ {c} : Promised'[x] = Promised[x]
  <2>1. rows[c] = None /\ log[c] = [reserved |-> 0, used |-> 0]
    BY <1>1 DEF CallsFollow
  <2>2. Promised[c] = 0 /\ Spent[c] = 0
    BY <2>1 DEF Promised, Spent, None, Amount
  <2>3. Spent' = Spent /\ Excess' = Excess
    BY <1>1 DEF Spent, Excess
  <2>4. Promised'[c] = p /\ \A x \in Calls \ {c} : Promised'[x] = Promised[x]
    BY <1>1, <1>3 DEF Promised, LedgersTyped, p
  <2> QED
    BY <2>2, <2>3, <2>4
<1>8. run'.reserved = run.reserved + p /\ run'.used = run.used
      /\ run'.status = StatusFor(run.used + run.reserved + p, Total)
  BY <1>1, <1>3 DEF LedgersTyped
<1>9. Moves(c, p, 0)
  <2>1. run'.reserved = (run.reserved - 0) + p /\ run'.used = run.used + 0
    BY <1>2, <1>4, <1>8
  <2>2. ASSUME NEW s \in Stages
        PROVE  /\ s = k => stage'[s].reserved = (stage[s].reserved - 0) + p /\ stage'[s].used = stage[s].used + 0
               /\ s # k => stage'[s] = stage[s]
    <3>1. stage[s] \in Totals
      BY <1>3 DEF LedgersTyped
    <3> QED
      BY <1>1, <1>2, <1>3, <3>1 DEF LedgersTyped, Totals
  <2>3. ASSUME NEW t \in Tasks, NEW r \in PackageRoles
        PROVE  /\ RoleOf[c] \in PackageRoles /\ t = TaskOf[c] /\ r = RoleOf[c] =>
                    /\ share'[t][r].reserved = (share[t][r].reserved - 0) + p
                    /\ share'[t][r].used = share[t][r].used + 0
               /\ ~(RoleOf[c] \in PackageRoles /\ t = TaskOf[c] /\ r = RoleOf[c]) => share'[t][r] = share[t][r]
    <3>1. share[t][r] \in [used : Nat, reserved : Nat, observed : Nat] /\ r \in Roles
      BY <1>3 DEF LedgersTyped, Roles
    <3> QED
      BY <1>1, <1>2, <1>3, <3>1 DEF LedgersTyped
  <2> QED
    BY <1>2, <1>7, <2>1, <2>2, <2>3 DEF Moves, k
<1>10. RunAgrees' /\ StagesAgree' /\ SharesAgree'
  BY <1>6, <1>9, LedgersMove
<1>11. Bounded'
  <2>1. stage'["PLANNING"].used = stage["PLANNING"].used /\ stage["PLANNING"].used \in Nat
    <3>1. "PLANNING" \in Stages
      BY DEF Stages
    <3> QED
      BY <1>1, <1>2, <1>3, <3>1 DEF LedgersTyped, Totals
  <2>2. Sum(Excess', Calls) \in Nat
    BY <1>3, <1>7, SumsTyped
  <2>3. Max({Total, stage'["PLANNING"].used}) \in Nat /\ Max({Total, stage'["PLANNING"].used}) >= Total
    BY <1>2, <2>1, MaxTwo
  <2>4. run'.used + run'.reserved <= Total
    BY <1>1, <1>2, <1>4, <1>8
  <2> QED
    BY <1>2, <1>4, <1>8, <2>2, <2>3, <2>4 DEF Bounded
<1>12. StatusNotUnderstated'
  <2>1. StatusRank(run'.status) = Grade(run.used + run.reserved + p, Total)
        /\ StatusRank(StatusFor(run'.used, Total)) = Grade(run.used, Total)
    BY <1>2, <1>4, <1>5, <1>8, StatusIs
  <2>2. Grade(run.used, Total) <= Grade(run.used + run.reserved + p, Total)
    <3>1. run.used <= run.used + run.reserved + p
      BY <1>2, <1>4
    <3> QED
      BY <1>2, <1>4, <1>5, <3>1, GradeGrows
  <2>3. Grade(run.used, Total) \in 1..4 /\ Grade(run.used + run.reserved + p, Total) \in 1..4
    BY <1>2, <1>4, <1>5, StatusIs
  <2> QED
    BY <2>1, <2>2, <2>3 DEF StatusNotUnderstated
<1> QED
  BY <1>6, <1>10, <1>11, <1>12 DEF Ledgers

LEMMA PersistLedgers ==
  ASSUME BudgetAssumption, Ledgers, NEW c \in Calls, PersistRunExhaustedStatus(c)
  PROVE  Ledgers'
<1>1. run' = [run EXCEPT !.status = "EXHAUSTED"] /\ UNCHANGED <<stage, share, rows, log>>
  BY DEF PersistRunExhaustedStatus
<1>2. LedgersTyped /\ Total \in Nat
  BY BudgetConstants DEF Ledgers
<1>3. "EXHAUSTED" = Levels[4] /\ 4 \in 1..4
  BY DEF Levels
<1>4. run'.used = run.used /\ run'.reserved = run.reserved /\ run'.status = Levels[4] /\ run.used \in Nat
  BY <1>1, <1>2, <1>3 DEF LedgersTyped
<1>5. LedgersTyped'
  <2>1. run' \in [used : Nat, reserved : Nat, status : {Levels[i] : i \in 1..4}]
    BY <1>1, <1>2, <1>3 DEF LedgersTyped
  <2> QED
    BY <1>1, <1>2, <2>1 DEF LedgersTyped
<1>6. StatusNotUnderstated'
  <2>1. StatusRank(run'.status) = 4 /\ StatusRank(StatusFor(run'.used, Total)) \in 1..4
    BY <1>2, <1>3, <1>4, RankOf, StatusIs
  <2> QED
    BY <2>1 DEF StatusNotUnderstated
<1>7. RunAgrees' /\ StagesAgree' /\ SharesAgree' /\ Bounded'
  BY <1>1, <1>4 DEF Ledgers, RunAgrees, StagesAgree, SharesAgree, Bounded, Promised, Spent, Excess
<1> QED
  BY <1>5, <1>6, <1>7 DEF Ledgers

\* A clamp does not bite where a sum holds the part that is taken off.
LEMMA ClampIdle ==
  ASSUME NEW n \in Nat, NEW m \in Nat, m <= n
  PROVE  Max({0, n - m}) = n - m /\ n - m \in Nat
<1>1. n - m \in Nat /\ n - m \in Int /\ n - m >= 0
  OBVIOUS
<1> QED
  BY <1>1, MaxTwo

LEMMA FinishLedgers ==
  ASSUME BudgetAssumption, Ledgers, CallsTyped, CallsFollow, NEW c \in Calls, FinishReservation(c)
  PROVE  Ledgers'
<1> DEFINE w == Amount(want[c])
           m == Amount(rows[c])
           k == StageFor(RoleOf[c])
           T == TaskOf[c]
           R == RoleOf[c]
           pays(row) == [row EXCEPT !.reserved = Max({0, @ - m}), !.used = @ + w]
           old == share[T][R]
           new == [pays(old) EXCEPT !.observed = Max({old.observed, want[c].in})]
<1>1. /\ point[c] \in {"settle2", "cancel2"}
      /\ log' = [log EXCEPT ![c] = [reserved |-> m, used |-> w]] /\ rows' = [rows EXCEPT ![c] = None]
      /\ run' = [run EXCEPT !.reserved = Max({0, @ - m}), !.used = @ + w, !.status = StatusFor(run.used + w, Total)]
      /\ stage' = [stage EXCEPT ![k] = pays(stage[k])]
      /\ share' = IF R \notin PackageRoles THEN share ELSE [share EXCEPT ![T][R] = new]
  BY DEF FinishReservation, SettleHierarchy
<1>2. w \in Nat /\ want[c].in \in Nat /\ k \in Stages /\ k # "PLANNING" /\ T \in Tasks /\ R \in Roles /\ Total \in Nat
      /\ IsFiniteSet(Calls)
  BY CallWants, StageOfCall, BudgetConstants
<1>3. LedgersTyped /\ RunAgrees /\ StagesAgree /\ SharesAgree /\ Bounded
  BY DEF Ledgers
<1>4. run.used \in Nat /\ run.reserved \in Nat /\ m \in Nat /\ run.used + w \in Nat
  <2>1. rows[c] \in Reservations
    BY <1>3 DEF LedgersTyped
  <2> QED
    BY <1>2, <1>3, <2>1 DEF LedgersTyped, Amount, Reservations
<1>5. /\ Promised \in [Calls -> Nat] /\ Promised[c] = m
      /\ Spent[c] = 0 /\ Excess[c] = 0 /\ Spent \in [Calls -> Nat] /\ Excess \in [Calls -> Nat]
  <2>1. log[c] = [reserved |-> 0, used |-> 0]
    BY <1>1 DEF CallsFollow, Open
  <2>2. Promised[c] = m /\ Spent[c] = 0
    BY <2>1 DEF Promised, Spent
  <2>3. Excess[c] = 0
    <3>1. Excess[c] = Max({0, log[c].used - log[c].reserved})
      BY DEF Excess
    <3>2. log[c].used - log[c].reserved = 0
      BY <2>1
    <3>3. Max({0, 0}) = 0
      BY MaxTwo
    <3> QED
      BY <3>1, <3>2, <3>3
  <2> QED
    BY <1>3, <2>2, <2>3, SumsTyped
<1> HIDE DEF w, m, k, T, R
<1>6. ASSUME NEW S \in SUBSET Calls, c \in S PROVE m <= Sum(Promised, S)
  BY <1>2, <1>5, <1>6, SumUpdate
<1>7. Max({0, run.reserved - m}) = run.reserved - m /\ run.reserved - m \in Nat
  <2>1. m <= run.reserved
    BY <1>3, <1>6 DEF RunAgrees
  <2> QED
    BY <1>4, <2>1, ClampIdle
<1>8. run'.reserved = run.reserved - m /\ run'.used = run.used + w /\ run'.status = StatusFor(run.used + w, Total)
      /\ run' \in [used : Nat, reserved : Nat, status : {Levels[i] : i \in 1..4}]
  <2>1. StatusFor(run.used + w, Total) \in {Levels[i] : i \in 1..4}
    BY <1>2, <1>4, StatusIs
  <2> QED
    BY <1>1, <1>3, <1>4, <1>7, <2>1 DEF LedgersTyped
<1>9. /\ stage[k] \in Totals /\ pays(stage[k]) \in Totals
      /\ pays(stage[k]).reserved = stage[k].reserved - m /\ pays(stage[k]).used = stage[k].used + w
  <2>1. stage[k] \in Totals /\ stage[k].reserved \in Nat /\ stage[k].used \in Nat
    BY <1>2, <1>3 DEF LedgersTyped, Totals
  <2>2. m <= stage[k].reserved
    <3>1. StageCalls(k) \in SUBSET Calls /\ c \in StageCalls(k)
      BY DEF StageCalls, k
    <3>2. stage[k].reserved = Sum(Promised, StageCalls(k))
      BY <1>2, <1>3 DEF StagesAgree
    <3> QED
      BY <1>6, <3>1, <3>2
  <2>3. Max({0, stage[k].reserved - m}) = stage[k].reserved - m /\ stage[k].reserved - m \in Nat
    BY <1>4, <2>1, <2>2, ClampIdle
  <2>4. stage[k].used + w \in Nat
    BY <1>2, <2>1
  <2> QED
    BY <2>1, <2>3, <2>4 DEF Totals
<1>10. R \in PackageRoles =>
         /\ new \in [used : Nat, reserved : Nat, observed : Nat]
         /\ new.reserved = old.reserved - m /\ new.used = old.used + w
  <2> HAVE R \in PackageRoles
  <2>1. old \in [used : Nat, reserved : Nat, observed : Nat]
    BY <1>2, <1>3 DEF LedgersTyped
  <2>2. m <= old.reserved
    <3>1. CallsOf(T, R) \in SUBSET Calls /\ c \in CallsOf(T, R)
      BY DEF CallsOf, T, R
    <3>2. old.reserved = Sum(Promised, CallsOf(T, R))
      BY <1>2, <1>3 DEF SharesAgree
    <3> QED
      BY <1>6, <3>1, <3>2
  <2>3. Max({0, old.reserved - m}) = old.reserved - m /\ old.reserved - m \in Nat
    BY <1>4, <2>1, <2>2, ClampIdle
  <2>4. Max({old.observed, want[c].in}) \in Nat /\ old.used + w \in Nat
    BY <1>2, <2>1, MaxTwo
  <2> HIDE DEF old
  <2>5. pays(old) \in [used : Nat, reserved : Nat, observed : Nat]
        /\ pays(old).reserved = old.reserved - m /\ pays(old).used = old.used + w /\ pays(old).observed = old.observed
    BY <2>1, <2>3, <2>4
  <2> HIDE DEF pays
  <2> QED
    BY <2>4, <2>5
<1>11. stage' = [stage EXCEPT ![k] = pays(stage[k])]
       /\ share' = IF R \notin PackageRoles THEN share ELSE [share EXCEPT ![T][R] = new]
  BY <1>1
<1> HIDE DEF pays, old, new
<1>12. LedgersTyped'
  <2>1. stage' \in [Stages -> Totals]
    BY <1>2, <1>3, <1>9, <1>11 DEF LedgersTyped
  <2>2. share' \in [Tasks -> [Roles -> [used : Nat, reserved : Nat, observed : Nat]]]
    BY <1>2, <1>3, <1>10, <1>11 DEF LedgersTyped
  <2>3. rows' \in [Calls -> Reservations] /\ log' \in [Calls -> Totals]
    <3>1. None \in Reservations /\ [reserved |-> m, used |-> w] \in Totals
      BY <1>2, <1>4 DEF None, Reservations, Totals
    <3> QED
      BY <1>1, <1>3, <3>1 DEF LedgersTyped
  <2> QED
    BY <1>8, <2>1, <2>2, <2>3 DEF LedgersTyped
<1>13. /\ Promised'[c] = 0 /\ Spent'[c] = w /\ Excess'[c] = Max({0, w - m})
       /\ \A x \in Calls \ {c} : Promised'[x] = Promised[x] /\ Spent'[x] = Spent[x] /\ Excess'[x] = Excess[x]
  <2>1. rows'[c] = None /\ log'[c] = [reserved |-> m, used |-> w]
        /\ \A x \in Calls \ {c} : rows'[x] = rows[x] /\ log'[x] = log[x]
    BY <1>1, <1>3 DEF LedgersTyped
  <2>2. Promised'[c] = 0
    BY <2>1 DEF Promised, None, Amount
  <2>3. Spent'[c] = w
    BY <2>1 DEF Spent
  <2>4. Excess'[c] = Max({0, w - m})
    <3>1. Excess'[c] = Max({0, log'[c].used - log'[c].reserved})
      BY DEF Excess
    <3>2. log'[c].used = w /\ log'[c].reserved = m
      BY <2>1
    <3> QED
      BY <3>1, <3>2
  <2>5. \A x \in Calls \ {c} : Promised'[x] = Promised[x] /\ Spent'[x] = Spent[x] /\ Excess'[x] = Excess[x]
    BY <2>1 DEF Promised, Spent, Excess
  <2> QED
    BY <2>2, <2>3, <2>4, <2>5
<1>14. Moves(c, 0, w)
  <2>1. run'.reserved = (run.reserved - m) + 0 /\ run'.used = run.used + w
    BY <1>4, <1>8
  <2>2. ASSUME NEW s \in Stages
        PROVE  /\ s = k => stage'[s].reserved = (stage[s].reserved - m) + 0 /\ stage'[s].used = stage[s].used + w
               /\ s # k => stage'[s] = stage[s]
    <3>1. stage[s] \in Totals /\ stage'[s] \in Totals
      BY <1>3, <1>12 DEF LedgersTyped
    <3>2. s = k => stage'[s] = pays(stage[k])
      BY <1>2, <1>3, <1>11 DEF LedgersTyped
    <3>3. s # k => stage'[s] = stage[s]
      BY <1>2, <1>3, <1>11 DEF LedgersTyped
    <3> QED
      BY <1>4, <1>9, <3>1, <3>2, <3>3 DEF Totals
  <2>3. ASSUME NEW t \in Tasks, NEW r \in PackageRoles
        PROVE  /\ R \in PackageRoles /\ t = T /\ r = R =>
                    /\ share'[t][r].reserved = (share[t][r].reserved - m) + 0
                    /\ share'[t][r].used = share[t][r].used + w
               /\ ~(R \in PackageRoles /\ t = T /\ r = R) => share'[t][r] = share[t][r]
    <3>1. r \in Roles
      BY DEF Roles
    <3>2. share[t][r].reserved \in Nat
      BY <1>3, <3>1 DEF LedgersTyped
    <3>3. R \in PackageRoles /\ t = T /\ r = R => share'[t][r] = new
      BY <1>2, <1>3, <1>11 DEF LedgersTyped
    <3>4. ~(R \in PackageRoles /\ t = T /\ r = R) => share'[t][r] = share[t][r]
      BY <1>2, <1>3, <1>11, <3>1 DEF LedgersTyped
    <3> QED
      BY <1>4, <1>10, <3>2, <3>3, <3>4 DEF old
  <2> QED
    BY <1>2, <1>5, <1>13, <2>1, <2>2, <2>3 DEF Moves, k, T, R
<1>15. RunAgrees' /\ StagesAgree' /\ SharesAgree'
  BY <1>12, <1>14, LedgersMove
<1>16. Bounded'
  <2> DEFINE x == Max({0, w - m})
             top == Max({Total, stage["PLANNING"].used})
  <2>1. x \in Nat /\ w <= m + x
    <3>1. w - m \in Int
      BY <1>2, <1>4
    <3> QED
      BY <1>2, <1>4, <3>1, MaxTwo
  <2>2. Excess' \in [Calls -> Nat]
    <3>1. \A y \in Calls : Excess'[y] \in Nat
      BY <1>5, <1>13, <2>1
    <3>2. Excess' = [y \in Calls |-> Excess'[y]]
      BY DEF Excess
    <3> QED
      BY <3>1, <3>2
  <2> HIDE DEF x
  <2>3. Sum(Excess', Calls) = (Sum(Excess, Calls) - 0) + x /\ Sum(Excess, Calls) \in Nat
    <3>1. Calls \in SUBSET Calls /\ \A y \in Calls \ {c} : Excess[y] = Excess'[y]
      BY <1>13
    <3>2. Excess'[c] = x
      BY <1>13 DEF x
    <3> QED
      BY <1>2, <1>5, <2>2, <3>1, <3>2, SumMoves
  <2>4. stage'["PLANNING"] = stage["PLANNING"] /\ stage["PLANNING"].used \in Nat
    <3>1. "PLANNING" \in Stages
      BY DEF Stages
    <3> QED
      BY <1>2, <1>3, <1>11, <3>1 DEF LedgersTyped, Totals
  <2>5. top \in Nat
    BY <1>2, <2>4, MaxNat
  <2>6. run.used + run.reserved <= top + Sum(Excess, Calls)
    BY <1>3 DEF Bounded
  <2> HIDE DEF top
  <2>7. run'.used + run'.reserved <= top + Sum(Excess', Calls)
    BY <1>2, <1>4, <1>8, <2>1, <2>3, <2>5, <2>6
  <2> QED
    BY <2>4, <2>7 DEF Bounded, top
<1>17. StatusNotUnderstated'
  <2>1. StatusRank(StatusFor(run.used + w, Total)) \in 1..4
    BY <1>2, <1>4, StatusIs
  <2> QED
    BY <1>8, <2>1 DEF StatusNotUnderstated
<1> QED
  BY <1>12, <1>15, <1>16, <1>17 DEF Ledgers

LEMMA RecordUsageLedgers ==
  ASSUME BudgetAssumption, BudgetInv, RecordUsage
  PROVE  Ledgers' /\ stage'["PLANNING"].used = plan.used
<1> DEFINE w == plan.used
<1>1. /\ planner = "linked" /\ UNCHANGED <<share, rows, log>>
      /\ run' = [run EXCEPT !.used = @ + w,
                   !.status = IF StatusRank(StatusFor(run.used + w, Total)) > 1
                              THEN StatusFor(run.used + w, Total) ELSE @]
      /\ stage' = [stage EXCEPT !["PLANNING"].used = @ + w]
  BY DEF RecordUsage, RecordStageUsage, StageFor
<1>2. LedgersTyped /\ RunAgrees /\ StagesAgree /\ SharesAgree /\ Bounded /\ CallsFollow /\ PlanTyped
      /\ StatusNotUnderstated
  BY DEF BudgetInv, Ledgers, Launch
<1>3. w \in Nat /\ run.used \in Nat /\ run.reserved \in Nat /\ Total \in Nat /\ run.used + w \in Nat
      /\ IsFiniteSet(Calls)
  BY <1>2, BudgetConstants DEF PlanTyped, LedgersTyped
<1>4. stage["PLANNING"].used = 0 /\ \A c \in Calls : point[c] = "idle"
  BY <1>1 DEF BudgetInv, PlanningFirst
<1>5. \A c \in Calls : rows[c] = None /\ log[c] = [reserved |-> 0, used |-> 0]
  BY <1>2, <1>4 DEF CallsFollow
<1>6. Sum(Promised, Calls) = 0 /\ Sum(Spent, Calls) = 0
  <2>1. \A c \in Calls : Promised[c] = 0 /\ Spent[c] = 0
    BY <1>5 DEF Promised, Spent, None, Amount
  <2> QED
    BY <1>3, <2>1, SumZero
<1>7. run.reserved = 0 /\ run.used = 0
  <2>1. run.reserved = Sum(Promised, Calls) /\ run.used = Sum(Spent, Calls) + stage["PLANNING"].used
    BY <1>2 DEF RunAgrees
  <2> QED
    BY <1>4, <1>6, <2>1
<1> HIDE DEF w
<1> DEFINE st == StatusFor(run.used + w, Total)
           new == IF StatusRank(st) > 1 THEN st ELSE run.status
<1>8. /\ st \in {Levels[i] : i \in 1..4} /\ StatusRank(st) \in 1..4
      /\ new \in {Levels[i] : i \in 1..4} /\ StatusRank(new) \in 1..4 /\ StatusRank(new) >= StatusRank(st)
  <2>1. st \in {Levels[i] : i \in 1..4} /\ StatusRank(st) \in 1..4
    BY <1>3, StatusIs
  <2>2. PICK i \in 1..4 : run.status = Levels[i]
    BY <1>2 DEF LedgersTyped
  <2>3. StatusRank(run.status) = i
    BY <2>2, RankOf
  <2> HIDE DEF st
  <2>4. CASE StatusRank(st) > 1
    BY <2>1, <2>4
  <2>5. CASE ~(StatusRank(st) > 1)
    BY <2>1, <2>2, <2>3, <2>5
  <2> QED
    BY <2>4, <2>5
<1>9. run' = [run EXCEPT !.used = @ + w, !.status = new]
  BY <1>1
<1> HIDE DEF new
<1>10. /\ run' \in [used : Nat, reserved : Nat, status : {Levels[i] : i \in 1..4}]
       /\ run'.used = w /\ run'.reserved = 0 /\ run'.status = new
  <2>1. run \in [used : Nat, reserved : Nat, status : {Levels[i] : i \in 1..4}]
    BY <1>2 DEF LedgersTyped
  <2>2. run.used + w = w
    BY <1>3, <1>7
  <2>3. run' = [run EXCEPT !.used = w, !.status = new]
    BY <1>9, <2>2
  <2> QED
    BY <1>3, <1>7, <1>8, <2>1, <2>3
<1>11. /\ stage' \in [Stages -> Totals] /\ stage'["PLANNING"].used = w
       /\ stage'["PLANNING"].reserved = stage["PLANNING"].reserved
       /\ \A s \in Stages : s # "PLANNING" => stage'[s] = stage[s]
  <2>1. "PLANNING" \in Stages /\ stage["PLANNING"] \in Totals
    BY <1>2 DEF LedgersTyped, Stages
  <2>2. [stage["PLANNING"] EXCEPT !.used = @ + w] \in Totals
        /\ [stage["PLANNING"] EXCEPT !.used = @ + w].used = w
        /\ [stage["PLANNING"] EXCEPT !.used = @ + w].reserved = stage["PLANNING"].reserved
    BY <1>3, <1>4, <2>1 DEF Totals
  <2>3. stage' = [stage EXCEPT !["PLANNING"] = [stage["PLANNING"] EXCEPT !.used = @ + w]]
    BY <1>1
  <2> DEFINE y == [stage["PLANNING"] EXCEPT !.used = @ + w]
  <2> HIDE DEF y
  <2>4. stage' = [stage EXCEPT !["PLANNING"] = y] /\ y \in Totals /\ y.used = w /\ y.reserved = stage["PLANNING"].reserved
    BY <2>2, <2>3 DEF y
  <2> QED
    BY <1>2, <2>1, <2>4 DEF LedgersTyped
<1>12. LedgersTyped'
  BY <1>1, <1>2, <1>10, <1>11 DEF LedgersTyped
<1>13. Promised' = Promised /\ Spent' = Spent /\ Excess' = Excess
  BY <1>1 DEF Promised, Spent, Excess
<1>14. StagesAgree' /\ SharesAgree'
  <2>1. \A s \in Stages : stage'[s].reserved = stage[s].reserved
    BY <1>11
  <2> QED
    BY <1>1, <1>2, <1>13, <2>1 DEF StagesAgree, SharesAgree
<1>15. RunAgrees'
  <2>1. \A s \in Stages : stage[s].used \in Nat /\ stage[s].reserved \in Nat
    BY <1>2 DEF LedgersTyped, Totals
  <2>2. \A s \in Stages : stage'[s].reserved = stage[s].reserved
    BY <1>11
  <2>3. \A s \in Stages : s # "PLANNING" => stage'[s].used = stage[s].used
    BY <1>11
  <2>4. /\ run.reserved = stage["PLANNING"].reserved + stage["DEVELOPMENT"].reserved
              + stage["VERIFICATION_REPAIR"].reserved + stage["REVIEW_PUBLICATION"].reserved
        /\ run.used = stage["PLANNING"].used + stage["DEVELOPMENT"].used
              + stage["VERIFICATION_REPAIR"].used + stage["REVIEW_PUBLICATION"].used
    BY <1>2 DEF RunAgrees
  <2>5. run'.reserved = Sum(Promised', Calls) /\ run'.used = Sum(Spent', Calls) + stage'["PLANNING"].used
    BY <1>3, <1>6, <1>10, <1>11, <1>13
  <2>6. run'.reserved = stage'["PLANNING"].reserved + stage'["DEVELOPMENT"].reserved
              + stage'["VERIFICATION_REPAIR"].reserved + stage'["REVIEW_PUBLICATION"].reserved
    BY <1>7, <1>10, <2>2, <2>4 DEF Stages
  <2>7. run'.used = stage'["PLANNING"].used + stage'["DEVELOPMENT"].used
              + stage'["VERIFICATION_REPAIR"].used + stage'["REVIEW_PUBLICATION"].used
    <3>1. /\ stage["DEVELOPMENT"].used \in Nat /\ stage["VERIFICATION_REPAIR"].used \in Nat
          /\ stage["REVIEW_PUBLICATION"].used \in Nat
          /\ stage'["DEVELOPMENT"].used = stage["DEVELOPMENT"].used
          /\ stage'["VERIFICATION_REPAIR"].used = stage["VERIFICATION_REPAIR"].used
          /\ stage'["REVIEW_PUBLICATION"].used = stage["REVIEW_PUBLICATION"].used
      BY <2>1, <2>3 DEF Stages
    <3>2. 0 = stage["DEVELOPMENT"].used + stage["VERIFICATION_REPAIR"].used + stage["REVIEW_PUBLICATION"].used
      BY <1>4, <1>7, <2>4, <3>1
    <3> QED
      BY <1>3, <1>10, <1>11, <3>1, <3>2
  <2> QED
    BY <2>5, <2>6, <2>7 DEF RunAgrees
<1>16. Bounded'
  <2>1. Sum(Excess', Calls) \in Nat
    BY <1>2, <1>13, SumsTyped
  <2>2. Max({Total, w}) \in Nat /\ Max({Total, w}) >= w
    BY <1>3, MaxTwo
  <2> QED
    BY <1>3, <1>10, <1>11, <2>1, <2>2 DEF Bounded
<1>17. StatusNotUnderstated'
  <2>1. run.used + w = w
    BY <1>3, <1>7
  <2> QED
    BY <1>8, <1>10, <2>1 DEF StatusNotUnderstated, st
<1> QED
  BY <1>11, <1>12, <1>14, <1>15, <1>16, <1>17 DEF Ledgers, w

-----------------------------------------------------------------------------
(* The calls.                                                              *)

LEMMA CalibratedType ==
  ASSUME BudgetAssumption, LedgersTyped, CallsTyped, NEW c \in Calls, NEW e \in Estimates
  PROVE  Calibrated(c, e) \in Nat
<1> DEFINE o == obs[TaskOf[c]][RoleOf[c]]
           seen == share[TaskOf[c]][RoleOf[c]].observed
<1>1. e \in Nat /\ TaskOf[c] \in Tasks /\ RoleOf[c] \in Roles
  BY BudgetConstants, StageOfCall
<1>2. o.prompt \in Nat /\ o.growth \in Nat /\ o.tools \in Nat /\ seen \in Nat
  BY <1>1 DEF LedgersTyped, CallsTyped
<1>3. Calibrated(c, e) \in {e, Max({e, CeilFactor(seen)}),
                            NextInputPrediction(e, Max({seen, o.prompt}), o.growth, o.tools)}
  BY DEF Calibrated
<1> HIDE DEF o, seen
<1>4. Max({e, CeilFactor(seen)}) \in Nat
  <2>1. CeilFactor(seen) \in Nat
    BY <1>2, CeilType
  <2> QED
    BY <1>1, <2>1, MaxNat
<1>5. NextInputPrediction(e, Max({seen, o.prompt}), o.growth, o.tools) \in Nat
  <2> DEFINE p == Max({seen, o.prompt})
             g == Max({o.growth, o.tools})
  <2>1. p \in Nat /\ g \in Nat
    BY <1>2, MaxNat
  <2>2. NextInputPrediction(e, p, o.growth, o.tools) = Max({e, CeilFactor(p), p + CeilFactor(g)})
    BY DEF NextInputPrediction
  <2> HIDE DEF p, g
  <2>3. CeilFactor(p) \in Nat /\ p + CeilFactor(g) \in Nat
    <3>1. CeilFactor(p) \in Nat /\ CeilFactor(g) \in Nat
      BY <2>1, CeilType
    <3> QED
      BY <2>1, <3>1
  <2>4. Max({e, CeilFactor(p), p + CeilFactor(g)}) \in Nat
    BY <1>1, <2>3, MaxThree
  <2> QED
    BY <2>2, <2>4 DEF p
<1> QED
  BY <1>1, <1>3, <1>4, <1>5

LEMMA ReleaseType ==
  ASSUME CallsTyped, NEW c \in Calls, Release(c)
  PROVE  runLock' \in Calls \cup {Free} /\ taskLock' \in [Tasks -> Calls \cup {Free}]
  BY DEF CallsTyped, Release

\* What a call's step does to the calls and to the rows that follow them.
CallsHold == CallsTyped /\ CallsFollow

LEMMA ReservingSteps ==
  ASSUME BudgetAssumption, LedgersTyped, CallsHold, NEW c \in Calls,
         BeginReserve(c) \/ Reserve(c) \/ Refuse(c) \/ PersistRunExhaustedStatus(c)
  PROVE  CallsHold'
<1> USE DEF CallsHold
<1>1. CASE BeginReserve(c)
  <2>1. PICK e \in Estimates : want' = [want EXCEPT ![c] = [in |-> Calibrated(c, e), out |-> MaxOutput]]
    BY <1>1 DEF BeginReserve
  <2>2. Calibrated(c, e) \in Nat /\ MaxOutput \in Nat /\ TaskOf[c] \in Tasks
    BY CalibratedType, BudgetConstants, StageOfCall
  <2>3. [in |-> Calibrated(c, e), out |-> MaxOutput] \in Reservations
    BY <2>2 DEF Reservations
  <2>4. want' \in [Calls -> Reservations]
    BY <2>1, <2>3 DEF CallsTyped
  <2>5. taskLock' \in [Tasks -> Calls \cup {Free}]
    BY <1>1, <2>2 DEF BeginReserve, CallsTyped
  <2>6. point' = [point EXCEPT ![c] = "reserving"] /\ point[c] = "idle" /\ UNCHANGED <<rows, log, obs, runLock>>
    BY <1>1 DEF BeginReserve, rowVars
  <2>7. CallsTyped'
    BY <2>4, <2>5, <2>6 DEF CallsTyped
  <2>8. CallsFollow'
    BY <2>6 DEF CallsFollow, CallsTyped
  <2> QED
    BY <2>7, <2>8
<1>2. CASE Reserve(c)
  <2>1. runLock' \in Calls \cup {Free} /\ taskLock' \in [Tasks -> Calls \cup {Free}]
    BY <1>2, ReleaseType DEF Reserve
  <2>2. point' = [point EXCEPT ![c] = "calling"] /\ point[c] = "reserving" /\ UNCHANGED <<log, obs, want>>
        /\ rows' = [rows EXCEPT ![c] = want[c]]
    BY <1>2 DEF Reserve
  <2>3. CallsTyped'
    BY <2>1, <2>2 DEF CallsTyped
  <2>4. CallsFollow'
    BY <2>2 DEF CallsFollow, CallsTyped, LedgersTyped, Open
  <2> QED
    BY <2>3, <2>4
<1>3. CASE Refuse(c)
  <2>1. runLock' \in Calls \cup {Free} /\ taskLock' \in [Tasks -> Calls \cup {Free}]
    BY <1>3, ReleaseType DEF Refuse
  <2>2. point' = [point EXCEPT ![c] = "refused"] /\ UNCHANGED <<rows, log, obs, want>>
    BY <1>3 DEF Refuse, rowVars
  <2>3. CallsTyped'
    BY <2>1, <2>2 DEF CallsTyped
  <2>4. CallsFollow'
    BY <2>2 DEF CallsFollow, CallsTyped, Open
  <2> QED
    BY <2>3, <2>4
<1>4. CASE PersistRunExhaustedStatus(c)
  <2>1. point' = [point EXCEPT ![c] = "denied"] /\ UNCHANGED <<rows, log, obs, want, runLock, taskLock>>
    BY <1>4 DEF PersistRunExhaustedStatus, lockVars
  <2>2. CallsTyped'
    BY <2>1 DEF CallsTyped
  <2>3. CallsFollow'
    BY <2>1 DEF CallsFollow, CallsTyped, Open
  <2> QED
    BY <2>2, <2>3
<1> QED
  BY <1>1, <1>2, <1>3, <1>4

LEMMA FinishingSteps ==
  ASSUME BudgetAssumption, LedgersTyped, CallsHold, NEW c \in Calls,
         ProviderAnswers(c) \/ ProviderFails(c) \/ BeginFinish(c) \/ FinishReservation(c)
  PROVE  CallsHold'
<1> USE DEF CallsHold
<1>1. CASE ProviderAnswers(c)
  <2>1. PICK u \in Usages :
          want' = [want EXCEPT ![c] = [in |-> ActualUsage(u, rows[c]).prompt,
                                       out |-> ActualUsage(u, rows[c]).completion]]
    BY <1>1 DEF ProviderAnswers
  <2>2. [in |-> ActualUsage(u, rows[c]).prompt, out |-> ActualUsage(u, rows[c]).completion] \in Reservations
    <3>1. rows[c] \in Reservations
      BY DEF LedgersTyped
    <3>2. ActualUsage(u, rows[c]) \in [prompt : Nat, completion : Nat]
      BY <3>1, Usage
    <3> QED
      BY <3>2 DEF Reservations
  <2>3. want' \in [Calls -> Reservations]
    BY <2>1, <2>2 DEF CallsTyped
  <2>4. point' = [point EXCEPT ![c] = "settling"] /\ point[c] = "calling" /\ UNCHANGED <<rows, log, obs, runLock, taskLock>>
    BY <1>1 DEF ProviderAnswers, rowVars, lockVars
  <2>5. CallsTyped'
    BY <2>3, <2>4 DEF CallsTyped
  <2>6. CallsFollow'
    BY <2>4 DEF CallsFollow, CallsTyped, Open
  <2> QED
    BY <2>5, <2>6
<1>2. CASE ProviderFails(c)
  <2>1. point' = [point EXCEPT ![c] = "cancelling"] /\ point[c] = "calling" /\ UNCHANGED <<rows, log, obs, runLock, taskLock>>
        /\ want' = [want EXCEPT ![c] = None]
    BY <1>2 DEF ProviderFails, rowVars, lockVars
  <2>2. None \in Reservations
    BY DEF None, Reservations
  <2>3. CallsTyped'
    BY <2>1, <2>2 DEF CallsTyped
  <2>4. CallsFollow'
    BY <2>1 DEF CallsFollow, CallsTyped, Open
  <2> QED
    BY <2>3, <2>4
<1>3. CASE BeginFinish(c)
  <2>1. point' = [point EXCEPT ![c] = IF point[c] = "settling" THEN "settle2" ELSE "cancel2"] /\ runLock' = c
        /\ point[c] \in {"settling", "cancelling"} /\ UNCHANGED <<rows, log, obs, want, taskLock>>
    BY <1>3 DEF BeginFinish, rowVars
  <2>2. CallsTyped'
    BY <2>1 DEF CallsTyped
  <2>3. CallsFollow'
    BY <2>1 DEF CallsFollow, CallsTyped, Open
  <2> QED
    BY <2>2, <2>3
<1>4. CASE FinishReservation(c)
  <2>1. runLock' \in Calls \cup {Free} /\ taskLock' \in [Tasks -> Calls \cup {Free}]
    BY <1>4, ReleaseType DEF FinishReservation
  <2>2. /\ point'[c] \in {"observing", "done"} /\ point' = [point EXCEPT ![c] = point'[c]] /\ UNCHANGED <<obs, want>>
        /\ \A d \in Calls \ {c} : rows'[d] = rows[d] /\ log'[d] = log[d]
    BY <1>4 DEF FinishReservation, CallsTyped, LedgersTyped
  <2>3. CallsTyped'
    BY <2>1, <2>2 DEF CallsTyped
  <2>4. CallsFollow'
    BY <2>2 DEF CallsFollow, CallsTyped, Open
  <2> QED
    BY <2>3, <2>4
<1> QED
  BY <1>1, <1>2, <1>3, <1>4

LEMMA ObservingSteps ==
  ASSUME BudgetAssumption, CallsHold, NEW c \in Calls, RecordTurnObservation(c) \/ RecordToolOutcome(c)
  PROVE  CallsHold'
<1> USE DEF CallsHold
<1> DEFINE T == TaskOf[c]
           R == RoleOf[c]
           Row == [prompt : Nat, growth : Nat, tools : Nat, set : BOOLEAN]
<1>1. T \in Tasks /\ R \in Roles /\ ToolTokens \subseteq Nat
  BY BudgetConstants, StageOfCall
<1>2. obs[T][R] \in Row /\ obs[T][R].prompt \in Nat
  BY <1>1 DEF CallsTyped
<1>3. want[c].in \in Nat
  BY CallWants
<1>4. \E row \in Row : obs' = [obs EXCEPT ![T][R] = row]
  <2>1. CASE RecordTurnObservation(c)
    <3>1. PICK n \in ToolTokens :
            obs' = [obs EXCEPT ![T][R] = [prompt |-> want[c].in, growth |-> Max({0, want[c].in - @.prompt}),
                                          tools |-> n, set |-> TRUE]]
      BY <2>1 DEF RecordTurnObservation
    <3> DEFINE g == Max({0, want[c].in - obs[T][R].prompt})
               row == [prompt |-> want[c].in, growth |-> g, tools |-> n, set |-> TRUE]
    <3>2. g \in Nat /\ n \in Nat
      <4>1. want[c].in - obs[T][R].prompt \in Int
        BY <1>2, <1>3
      <4>2. Max({0, want[c].in - obs[T][R].prompt})
              = IF 0 >= want[c].in - obs[T][R].prompt THEN 0 ELSE want[c].in - obs[T][R].prompt
        BY <4>1, MaxTwo
      <4>3. Max({0, want[c].in - obs[T][R].prompt}) \in Nat
        BY <4>1, <4>2
      <4> QED
        BY <1>1, <4>3
    <3>3. obs' = [obs EXCEPT ![T][R] = row]
      BY <3>1
    <3> HIDE DEF g
    <3>4. row \in Row
      BY <1>3, <3>2
    <3> QED
      BY <3>3, <3>4
  <2>2. CASE RecordToolOutcome(c)
    <3>1. PICK n \in ToolTokens : obs' = [obs EXCEPT ![T][R].tools = n]
      BY <2>2 DEF RecordToolOutcome
    <3> DEFINE row == [obs[T][R] EXCEPT !.tools = n]
    <3>2. row \in Row
      BY <1>1, <1>2
    <3>3. obs' = [obs EXCEPT ![T][R] = row]
      BY <3>1
    <3> QED
      BY <3>2, <3>3
  <2> QED
    BY <2>1, <2>2
<1>5. obs' \in [Tasks -> [Roles -> Row]]
  <2>1. PICK row \in Row : obs' = [obs EXCEPT ![T][R] = row]
    BY <1>4
  <2>2. obs \in [Tasks -> [Roles -> Row]]
    BY DEF CallsTyped
  <2> HIDE DEF Row, T, R
  <2> QED
    BY <1>1, <2>1, <2>2
<1>6. point'[c] \in {"tools", "done"} /\ point' = [point EXCEPT ![c] = point'[c]] /\ UNCHANGED <<rows, log, want, runLock, taskLock>>
  BY DEF RecordTurnObservation, RecordToolOutcome, rowVars, lockVars, CallsTyped
<1>7. CallsTyped'
  BY <1>5, <1>6 DEF CallsTyped
<1>8. CallsFollow'
  BY <1>6 DEF CallsFollow, CallsTyped, Open
<1> QED
  BY <1>7, <1>8

LEMMA RollbackSteps ==
  ASSUME CallsHold, NEW c \in Calls, Rollback(c)
  PROVE  CallsHold'
<1> USE DEF CallsHold
<1>1. runLock' \in Calls \cup {Free} /\ taskLock' \in [Tasks -> Calls \cup {Free}]
  BY ReleaseType DEF Rollback
<1>2. point' = [point EXCEPT ![c] = "lost"] /\ UNCHANGED <<rows, log, obs, want>>
  BY DEF Rollback, rowVars
<1>3. CallsTyped'
  BY <1>1, <1>2 DEF CallsTyped
<1>4. CallsFollow'
  BY <1>2 DEF CallsFollow, CallsTyped, Open
<1> QED
  BY <1>3, <1>4

-----------------------------------------------------------------------------
(* The invariant holds, and the properties follow.                         *)
LEMMA InitBudget == BudgetAssumption /\ BudgetInit => BudgetInv
<1> SUFFICES ASSUME BudgetAssumption, BudgetInit PROVE BudgetInv
  OBVIOUS
<1>1. IsFiniteSet(Calls) /\ Total \in Nat /\ MaxAttempts \in Nat
  BY BudgetConstants
<1>2. /\ plan = [used |-> 0, row |-> None, attempts |-> 0, status |-> "NORMAL", linked |-> FALSE]
      /\ run = [used |-> 0, reserved |-> 0, status |-> "NORMAL"]
      /\ stage = [s \in Stages |-> [used |-> 0, reserved |-> 0]]
      /\ share = [t \in Tasks |-> [r \in Roles |-> [used |-> 0, reserved |-> 0, observed |-> 0]]]
      /\ planner = "new" /\ planLog = [first |-> 0, over |-> 0, denied |-> 0]
      /\ rows = [c \in Calls |-> None] /\ log = [c \in Calls |-> [reserved |-> 0, used |-> 0]]
      /\ point = [c \in Calls |-> "idle"]
  BY DEF BudgetInit, InitPlan, InitRun, InitHierarchy
<1>3. "NORMAL" = Levels[1] /\ 1 \in 1..4 /\ None \in Reservations
  BY DEF Levels, None, Reservations
<1>4. PlanTyped
  BY <1>1, <1>2, <1>3 DEF PlanTyped
<1>5. LedgersTyped
  <2>1. run \in [used : Nat, reserved : Nat, status : {Levels[i] : i \in 1..4}]
    BY <1>2, <1>3
  <2>2. stage \in [Stages -> Totals] /\ log \in [Calls -> Totals] /\ rows \in [Calls -> Reservations]
    BY <1>2, <1>3 DEF Totals
  <2>3. share \in [Tasks -> [Roles -> [used : Nat, reserved : Nat, observed : Nat]]]
    BY <1>2
  <2> QED
    BY <2>1, <2>2, <2>3 DEF LedgersTyped
<1>6. CallsTyped
  <2>1. obs \in [Tasks -> [Roles -> [prompt : Nat, growth : Nat, tools : Nat, set : BOOLEAN]]]
    BY DEF BudgetInit, NoObservation
  <2>2. want \in [Calls -> Reservations] /\ runLock = Free /\ taskLock = [t \in Tasks |-> Free]
    BY <1>3 DEF BudgetInit
  <2> QED
    BY <1>2, <2>1, <2>2 DEF CallsTyped
<1>7. \A c \in Calls : Promised[c] = 0 /\ Spent[c] = 0
  BY <1>2 DEF Promised, Spent, None, Amount
<1>8. \A S \in SUBSET Calls : Sum(Promised, S) = 0 /\ Sum(Spent, S) = 0
  <2> SUFFICES ASSUME NEW S \in SUBSET Calls PROVE Sum(Promised, S) = 0 /\ Sum(Spent, S) = 0
    OBVIOUS
  <2>1. IsFiniteSet(S) /\ \A x \in S : Promised[x] = 0 /\ Spent[x] = 0
    BY <1>1, <1>7, FS_Subset
  <2> QED
    BY <2>1, SumZero
<1>9. \A s \in Stages : stage[s].used = 0 /\ stage[s].reserved = 0
  BY <1>2
<1>10. RunAgrees /\ StagesAgree /\ SharesAgree
  <2>1. RunAgrees
    BY <1>2, <1>8, <1>9 DEF RunAgrees, Stages
  <2>2. StagesAgree
    <3>1. \A s \in Stages : StageCalls(s) \in SUBSET Calls
      BY DEF StageCalls
    <3> QED
      BY <1>8, <1>9, <3>1 DEF StagesAgree
  <2>3. SharesAgree
    <3>1. \A t \in Tasks, r \in PackageRoles :
            CallsOf(t, r) \in SUBSET Calls /\ r \in Roles
      BY DEF CallsOf, Roles
    <3> QED
      BY <1>2, <1>8, <3>1 DEF SharesAgree
  <2> QED
    BY <2>1, <2>2, <2>3
<1>11. Bounded
  <2>1. Sum(Excess, Calls) \in Nat
    BY <1>5, SumsTyped
  <2>2. stage["PLANNING"].used = 0
    BY <1>9 DEF Stages
  <2>3. Max({Total, stage["PLANNING"].used}) \in Nat
    BY <1>1, <2>2, MaxTwo
  <2>4. run.used + run.reserved = 0
    BY <1>2
  <2>5. \A m, n \in Nat : 0 <= m + n
    OBVIOUS
  <2> QED
    BY <2>1, <2>3, <2>4, <2>5 DEF Bounded
<1>12. StatusNotUnderstated
  <2>1. StatusRank(run.status) = 1
    BY <1>2, <1>3, RankOf
  <2>2. Grade(0, Total) = 1
    <3>1. Total >= 1
      BY DEF BudgetAssumption
    <3> QED
      BY <1>1, <3>1 DEF Grade
  <2>3. StatusRank(StatusFor(run.used, Total)) = 1
    BY <1>1, <1>2, <2>2, StatusIs
  <2> QED
    BY <2>1, <2>3 DEF StatusNotUnderstated
<1>13. CallsFollow
  BY <1>2 DEF CallsFollow
<1>14. PlanningFirst
  BY <1>2, <1>9 DEF PlanningFirst, Stages
<1>15. Launch
  BY <1>2, <1>4 DEF Launch, LaunchHolds, EnvelopeSuffices
<1> QED
  BY <1>5, <1>6, <1>10, <1>11, <1>12, <1>13, <1>14, <1>15 DEF BudgetInv, Ledgers

LEMMA PlanningInv == BudgetAssumption /\ BudgetInv /\ PlanningStep => BudgetInv'
<1> SUFFICES ASSUME BudgetAssumption, BudgetInv, PlanningStep PROVE BudgetInv'
  OBVIOUS
<1>1. Launch /\ Ledgers /\ CallsTyped /\ CallsFollow /\ PlanningFirst
  BY DEF BudgetInv
<1>2. UNCHANGED <<obs, point, want, runLock, taskLock>> /\ UNCHANGED <<rows, log>>
  BY DEF PlanningStep, EnsureCapacity, PlanReserve, PlanSettle, PlanCancel, PlanLost, LinkToRun,
         RecordUsage, TransferLost, lockVars, rowVars
<1>3. CallsTyped' /\ CallsFollow'
  BY <1>1, <1>2 DEF CallsTyped, CallsFollow
<1>4. planner # "running"
  BY DEF PlanningStep, EnsureCapacity, PlanReserve, PlanSettle, PlanCancel, PlanLost, LinkToRun,
         RecordUsage, TransferLost
<1>5. stage["PLANNING"].used = 0 /\ \A c \in Calls : point'[c] = "idle"
  BY <1>1, <1>2, <1>4 DEF PlanningFirst
<1>6. Launch'
  BY <1>1, EnsureCapacityStep, PlanReserveStep, PlanSettleStep, PlanEndsStep, LinkToRunStep, TransferStep
     DEF PlanningStep
<1>7. CASE RecordUsage
  <2>1. Ledgers' /\ stage'["PLANNING"].used = plan.used
    BY <1>7, RecordUsageLedgers
  <2>2. plan' = plan /\ planner' = "running"
    BY <1>7 DEF RecordUsage
  <2>3. PlanningFirst'
    BY <2>1, <2>2 DEF PlanningFirst
  <2> QED
    BY <1>3, <1>6, <2>1, <2>3 DEF BudgetInv
<1>8. CASE ~RecordUsage
  <2>1. UNCHANGED rowVars
    BY <1>8 DEF PlanningStep, EnsureCapacity, PlanReserve, PlanSettle, PlanCancel, PlanLost, LinkToRun, TransferLost
  <2>2. Ledgers'
    BY <1>1, <2>1, LedgersKept
  <2>3. PlanningFirst'
    <3>1. stage' = stage
      BY <2>1 DEF rowVars
    <3> QED
      BY <1>5, <3>1 DEF PlanningFirst
  <2> QED
    BY <1>3, <1>6, <2>2, <2>3 DEF BudgetInv
<1> QED
  BY <1>7, <1>8

LEMMA CallInv ==
  ASSUME BudgetAssumption, BudgetInv, NEW c \in Calls, CallStep(c) \/ DeadlockVictim(c) \/ Interrupt(c)
  PROVE  BudgetInv'
<1>1. Launch /\ Ledgers /\ CallsHold /\ PlanningFirst /\ LedgersTyped /\ CallsTyped /\ CallsFollow
  BY DEF BudgetInv, CallsHold, Ledgers
<1>2. UNCHANGED <<plan, planner, planLog>>
  BY DEF CallStep, BeginReserve, Reserve, Refuse, PersistRunExhaustedStatus, ProviderAnswers, ProviderFails,
         BeginFinish, FinishReservation, RecordTurnObservation, RecordToolOutcome, DeadlockVictim, Interrupt,
         Rollback, planVars
<1>3. Launch'
  BY <1>1, <1>2 DEF Launch, PlanTyped, LaunchHolds, Affordable, RequiredTokens, EnvelopeSuffices
<1>4. CallsHold'
  BY <1>1, ReservingSteps, FinishingSteps, ObservingSteps, RollbackSteps
     DEF CallStep, DeadlockVictim, Interrupt
<1>5. planner = "running"
  <2>1. planner = "running" \/ point[c] # "idle"
    BY DEF CallStep, BeginReserve, Reserve, Refuse, PersistRunExhaustedStatus, ProviderAnswers, ProviderFails,
           BeginFinish, FinishReservation, RecordTurnObservation, RecordToolOutcome, DeadlockVictim, WaitsFor,
           Interrupt
  <2> QED
    BY <1>1, <2>1 DEF PlanningFirst
<1>6. Ledgers'
  <2>1. CASE Reserve(c)
    BY <1>1, <2>1, ReserveLedgers
  <2>2. CASE FinishReservation(c)
    BY <1>1, <2>2, FinishLedgers
  <2>3. CASE PersistRunExhaustedStatus(c)
    BY <1>1, <2>3, PersistLedgers
  <2>4. CASE ~(Reserve(c) \/ FinishReservation(c) \/ PersistRunExhaustedStatus(c))
    <3>1. UNCHANGED rowVars
      BY <2>4 DEF CallStep, BeginReserve, Refuse, ProviderAnswers, ProviderFails, BeginFinish,
                  RecordTurnObservation, RecordToolOutcome, DeadlockVictim, Interrupt, Rollback
    <3> QED
      BY <1>1, <3>1, LedgersKept
  <2> QED
    BY <2>1, <2>2, <2>3, <2>4
<1>7. stage'["PLANNING"] = stage["PLANNING"]
  <2>1. StageFor(RoleOf[c]) \in Stages /\ StageFor(RoleOf[c]) # "PLANNING" /\ "PLANNING" \in Stages
    BY StageOfCall DEF Stages
  <2>2. CASE Reserve(c)
    BY <1>1, <2>1, <2>2 DEF Reserve, ReserveHierarchy, LedgersTyped
  <2>3. CASE FinishReservation(c)
    BY <1>1, <2>1, <2>3 DEF FinishReservation, SettleHierarchy, LedgersTyped
  <2>4. CASE ~(Reserve(c) \/ FinishReservation(c))
    BY <2>4 DEF CallStep, BeginReserve, Refuse, PersistRunExhaustedStatus, ProviderAnswers, ProviderFails,
                BeginFinish, RecordTurnObservation, RecordToolOutcome, DeadlockVictim, Interrupt, Rollback, rowVars
  <2> QED
    BY <2>2, <2>3, <2>4
<1>8. PlanningFirst'
  BY <1>1, <1>2, <1>5, <1>7 DEF PlanningFirst
<1> QED
  BY <1>3, <1>4, <1>6, <1>8 DEF BudgetInv, CallsHold

LEMMA NextBudget == BudgetAssumption /\ BudgetInv /\ [BudgetNext]_budgetVars => BudgetInv'
<1> SUFFICES ASSUME BudgetAssumption, BudgetInv, [BudgetNext]_budgetVars PROVE BudgetInv'
  OBVIOUS
<1>1. CASE PlanningStep
  BY <1>1, PlanningInv
<1>2. CASE \E c \in Calls : CallStep(c) \/ DeadlockVictim(c) \/ Interrupt(c)
  BY <1>2, CallInv
<1>3. CASE UNCHANGED budgetVars
  <2>1. UNCHANGED <<plan, planner, planLog, obs, point, want, runLock, taskLock>> /\ UNCHANGED rowVars /\ UNCHANGED <<rows, log, stage>>
    BY <1>3 DEF budgetVars, planVars, lockVars, rowVars
  <2>2. Ledgers'
    BY <2>1, LedgersKept DEF BudgetInv
  <2>3. Launch' /\ CallsTyped' /\ CallsFollow' /\ PlanningFirst'
    BY <2>1 DEF BudgetInv, Launch, PlanTyped, LaunchHolds, Affordable, RequiredTokens, EnvelopeSuffices,
                CallsTyped, CallsFollow, PlanningFirst
  <2> QED
    BY <2>2, <2>3 DEF BudgetInv
<1>4. BudgetNext \/ UNCHANGED budgetVars
  OBVIOUS
<1>5. CASE BudgetNext
  BY <1>1, <1>2, <1>5 DEF BudgetNext
<1> QED
  BY <1>3, <1>4, <1>5

(* The sums of the model are the sums of these proofs.                     *)
LEMMA ReservedIs ==
  ASSUME BudgetAssumption, NEW S \in SUBSET Calls
  PROVE  Reserved(S) = Sum(Promised, S)
<1> DEFINE F(g) == [s \in SUBSET S |-> IF s = {} THEN 0
                                      ELSE Amount(rows[Pick(s)]) + g[s \ {Pick(s)}]]
           iter == CHOOSE g : g = F(g)
<1>1. IsFiniteSet(S)
  BY BudgetConstants, FS_Subset
<1>2. ASSUME NEW g PROVE F(g) = Rec(Promised, S, g)
  <2>1. ASSUME NEW s \in SUBSET S, s # {} PROVE Promised[Pick(s)] = Amount(rows[Pick(s)])
    <3>1. Pick(s) \in Calls
      BY <2>1, PickIn
    <3> QED
      BY <3>1 DEF Promised
  <2> QED
    BY <2>1 DEF Rec
<1>3. \E g : g = F(g)
  <2>1. PICK g : g = Rec(Promised, S, g)
    BY <1>1, RecExists
  <2>2. g = F(g)
    <3> HIDE DEF F
    <3> QED
      BY <1>2, <2>1
  <2> QED
    BY <2>2
<1>4. Reserved(S) = iter[S]
  BY DEF Reserved, MapThenSumSet, MapThenFoldSet, Pick
<1> HIDE DEF F
<1>5. iter = F(iter)
  BY <1>3, Zenon
<1> HIDE DEF iter
<1>6. iter = Rec(Promised, S, iter)
  BY <1>2, <1>5
<1>7. S \in SUBSET S
  OBVIOUS
<1>8. iter[S] = Sum(Promised, S)
  <2>1. \A T \in SUBSET S : iter[T] = Sum(Promised, T)
    BY <1>1, <1>6, SumIs
  <2> QED
    BY <1>7, <2>1
<1> QED
  BY <1>4, <1>8

LEMMA UsedIs ==
  ASSUME BudgetAssumption, NEW S \in SUBSET Calls
  PROVE  Used(S) = Sum(Spent, S)
<1> DEFINE F(g) == [s \in SUBSET S |-> IF s = {} THEN 0 ELSE log[Pick(s)].used + g[s \ {Pick(s)}]]
           iter == CHOOSE g : g = F(g)
<1>1. IsFiniteSet(S)
  BY BudgetConstants, FS_Subset
<1>2. ASSUME NEW g PROVE F(g) = Rec(Spent, S, g)
  <2>1. ASSUME NEW s \in SUBSET S, s # {} PROVE Spent[Pick(s)] = log[Pick(s)].used
    <3>1. Pick(s) \in Calls
      BY <2>1, PickIn
    <3> QED
      BY <3>1 DEF Spent
  <2> QED
    BY <2>1 DEF Rec
<1>3. \E g : g = F(g)
  <2>1. PICK g : g = Rec(Spent, S, g)
    BY <1>1, RecExists
  <2>2. g = F(g)
    <3> HIDE DEF F
    <3> QED
      BY <1>2, <2>1
  <2> QED
    BY <2>2
<1>4. Used(S) = iter[S]
  BY DEF Used, MapThenSumSet, MapThenFoldSet, Pick
<1> HIDE DEF F
<1>5. iter = F(iter)
  BY <1>3, Zenon
<1> HIDE DEF iter
<1>6. iter = Rec(Spent, S, iter)
  BY <1>2, <1>5
<1>7. S \in SUBSET S
  OBVIOUS
<1>8. iter[S] = Sum(Spent, S)
  <2>1. \A T \in SUBSET S : iter[T] = Sum(Spent, T)
    BY <1>1, <1>6, SumIs
  <2> QED
    BY <1>7, <2>1
<1> QED
  BY <1>4, <1>8

\* What the stages hold, as functions to be summed.
StageReserved == [s \in Stages |-> stage[s].reserved]
StageUsed == [s \in Stages |-> stage[s].used]

LEMMA StagesFinite == IsFiniteSet(Stages)
<1>1. Stages = ({"PLANNING"} \cup {"DEVELOPMENT"}) \cup ({"VERIFICATION_REPAIR"} \cup {"REVIEW_PUBLICATION"})
  BY DEF Stages
<1>2. /\ IsFiniteSet({"PLANNING"}) /\ IsFiniteSet({"DEVELOPMENT"})
      /\ IsFiniteSet({"VERIFICATION_REPAIR"}) /\ IsFiniteSet({"REVIEW_PUBLICATION"})
  BY FS_Singleton
<1>3. /\ IsFiniteSet({"PLANNING"} \cup {"DEVELOPMENT"})
      /\ IsFiniteSet({"VERIFICATION_REPAIR"} \cup {"REVIEW_PUBLICATION"})
  BY <1>2, FS_Union
<1> QED
  BY <1>1, <1>3, FS_Union

LEMMA SumFour ==
  ASSUME NEW f \in [Stages -> Nat]
  PROVE  Sum(f, Stages) = f["PLANNING"] + f["DEVELOPMENT"] + f["VERIFICATION_REPAIR"] + f["REVIEW_PUBLICATION"]
<1> DEFINE A == {"REVIEW_PUBLICATION"}
           B == {"VERIFICATION_REPAIR", "REVIEW_PUBLICATION"}
           C == {"DEVELOPMENT", "VERIFICATION_REPAIR", "REVIEW_PUBLICATION"}
<1>1. /\ Stages \ {"PLANNING"} = C /\ C \ {"DEVELOPMENT"} = B /\ B \ {"VERIFICATION_REPAIR"} = A
      /\ A \ {"REVIEW_PUBLICATION"} = {}
      /\ A \in SUBSET Stages /\ B \in SUBSET Stages /\ C \in SUBSET Stages /\ Stages \in SUBSET Stages
      /\ {} \in SUBSET Stages /\ "PLANNING" \in Stages
      /\ "DEVELOPMENT" \in C /\ "VERIFICATION_REPAIR" \in B /\ "REVIEW_PUBLICATION" \in A
  BY DEF Stages
<1> HIDE DEF A, B, C
<1>2. Sum(f, Stages) = f["PLANNING"] + Sum(f, C)
  BY <1>1, StagesFinite, SumSplit
<1>3. Sum(f, C) = f["DEVELOPMENT"] + Sum(f, B)
  BY <1>1, StagesFinite, SumSplit
<1>4. Sum(f, B) = f["VERIFICATION_REPAIR"] + Sum(f, A)
  BY <1>1, StagesFinite, SumSplit
<1>5. Sum(f, A) = f["REVIEW_PUBLICATION"] + Sum(f, {})
  BY <1>1, StagesFinite, SumSplit
<1>6. Sum(f, {}) = 0
  BY FS_EmptySet, SumUnfolds
<1>7. \A s \in Stages : f[s] \in Nat
  OBVIOUS
<1>8. f["PLANNING"] \in Nat /\ f["DEVELOPMENT"] \in Nat /\ f["VERIFICATION_REPAIR"] \in Nat
      /\ f["REVIEW_PUBLICATION"] \in Nat
  BY <1>7 DEF Stages
<1> QED
  BY <1>2, <1>3, <1>4, <1>5, <1>6, <1>8

LEMMA ExcessIs ==
  ASSUME BudgetAssumption
  PROVE  MapThenSumSet(LAMBDA c : Max({0, log[c].used - log[c].reserved}), Calls) = Sum(Excess, Calls)
<1> DEFINE F(g) == [s \in SUBSET Calls |-> IF s = {} THEN 0 ELSE Max({0, log[Pick(s)].used - log[Pick(s)].reserved}) + g[s \ {Pick(s)}]]
           iter == CHOOSE g : g = F(g)
<1>1. IsFiniteSet(Calls)
  BY BudgetConstants
<1>2. ASSUME NEW g PROVE F(g) = Rec(Excess, Calls, g)
  <2>1. ASSUME NEW s \in SUBSET Calls, s # {} PROVE Excess[Pick(s)] = Max({0, log[Pick(s)].used - log[Pick(s)].reserved})
    <3>1. Pick(s) \in Calls
      BY <2>1, PickIn
    <3> QED
      BY <3>1 DEF Excess
  <2> QED
    BY <2>1 DEF Rec
<1>3. \E g : g = F(g)
  <2>1. PICK g : g = Rec(Excess, Calls, g)
    BY <1>1, RecExists
  <2>2. g = F(g)
    <3> HIDE DEF F
    <3> QED
      BY <1>2, <2>1
  <2> QED
    BY <2>2
<1>4. MapThenSumSet(LAMBDA c : Max({0, log[c].used - log[c].reserved}), Calls) = iter[Calls]
  BY DEF MapThenSumSet, MapThenFoldSet, Pick
<1> HIDE DEF F
<1>5. iter = F(iter)
  BY <1>3, Zenon
<1> HIDE DEF iter
<1>6. iter = Rec(Excess, Calls, iter)
  BY <1>2, <1>5
<1>7. Calls \in SUBSET Calls
  OBVIOUS
<1>8. iter[Calls] = Sum(Excess, Calls)
  <2>1. PICK S : S = Calls
    OBVIOUS
  <2>2. IsFiniteSet(S) /\ iter = Rec(Excess, S, iter) /\ S \in SUBSET S
    BY <1>1, <1>6, <2>1
  <2>3. iter[S] = Sum(Excess, S)
    BY <2>2, SumIs
  <2> QED
    BY <2>1, <2>3
<1> QED
  BY <1>4, <1>8

LEMMA StageReservedIs ==
  ASSUME BudgetAssumption
  PROVE  MapThenSumSet(LAMBDA s : stage[s].reserved, Stages) = Sum(StageReserved, Stages)
<1> DEFINE F(g) == [s \in SUBSET Stages |-> IF s = {} THEN 0 ELSE stage[Pick(s)].reserved + g[s \ {Pick(s)}]]
           iter == CHOOSE g : g = F(g)
<1>1. IsFiniteSet(Stages)
  BY StagesFinite
<1>2. ASSUME NEW g PROVE F(g) = Rec(StageReserved, Stages, g)
  <2>1. ASSUME NEW s \in SUBSET Stages, s # {} PROVE StageReserved[Pick(s)] = stage[Pick(s)].reserved
    <3>1. Pick(s) \in Stages
      BY <2>1, PickIn
    <3> QED
      BY <3>1 DEF StageReserved
  <2> QED
    BY <2>1 DEF Rec
<1>3. \E g : g = F(g)
  <2>1. PICK g : g = Rec(StageReserved, Stages, g)
    BY <1>1, RecExists
  <2>2. g = F(g)
    <3> HIDE DEF F
    <3> QED
      BY <1>2, <2>1
  <2> QED
    BY <2>2
<1>4. MapThenSumSet(LAMBDA s : stage[s].reserved, Stages) = iter[Stages]
  BY DEF MapThenSumSet, MapThenFoldSet, Pick
<1> HIDE DEF F
<1>5. iter = F(iter)
  BY <1>3, Zenon
<1> HIDE DEF iter
<1>6. iter = Rec(StageReserved, Stages, iter)
  BY <1>2, <1>5
<1>7. Stages \in SUBSET Stages
  OBVIOUS
<1>8. iter[Stages] = Sum(StageReserved, Stages)
  BY <1>1, <1>6, <1>7, SumIs
<1> QED
  BY <1>4, <1>8

LEMMA StageUsedIs ==
  ASSUME BudgetAssumption
  PROVE  MapThenSumSet(LAMBDA s : stage[s].used, Stages) = Sum(StageUsed, Stages)
<1> DEFINE F(g) == [s \in SUBSET Stages |-> IF s = {} THEN 0 ELSE stage[Pick(s)].used + g[s \ {Pick(s)}]]
           iter == CHOOSE g : g = F(g)
<1>1. IsFiniteSet(Stages)
  BY StagesFinite
<1>2. ASSUME NEW g PROVE F(g) = Rec(StageUsed, Stages, g)
  <2>1. ASSUME NEW s \in SUBSET Stages, s # {} PROVE StageUsed[Pick(s)] = stage[Pick(s)].used
    <3>1. Pick(s) \in Stages
      BY <2>1, PickIn
    <3> QED
      BY <3>1 DEF StageUsed
  <2> QED
    BY <2>1 DEF Rec
<1>3. \E g : g = F(g)
  <2>1. PICK g : g = Rec(StageUsed, Stages, g)
    BY <1>1, RecExists
  <2>2. g = F(g)
    <3> HIDE DEF F
    <3> QED
      BY <1>2, <2>1
  <2> QED
    BY <2>2
<1>4. MapThenSumSet(LAMBDA s : stage[s].used, Stages) = iter[Stages]
  BY DEF MapThenSumSet, MapThenFoldSet, Pick
<1> HIDE DEF F
<1>5. iter = F(iter)
  BY <1>3, Zenon
<1> HIDE DEF iter
<1>6. iter = Rec(StageUsed, Stages, iter)
  BY <1>2, <1>5
<1>7. Stages \in SUBSET Stages
  OBVIOUS
<1>8. iter[Stages] = Sum(StageUsed, Stages)
  BY <1>1, <1>6, <1>7, SumIs
<1> QED
  BY <1>4, <1>8

LEMMA InvLedgers == BudgetAssumption /\ BudgetInv => LedgersSound
<1> SUFFICES ASSUME BudgetAssumption, BudgetInv PROVE LedgersSound
  OBVIOUS
<1>1. LedgersTyped /\ RunAgrees /\ SharesAgree /\ StatusNotUnderstated /\ PlanTyped /\ CallsTyped /\ PlanningFirst
  BY DEF BudgetInv, Ledgers, Launch
<1>2. BudgetTypeOK
  BY <1>1 DEF BudgetTypeOK, LedgersTyped, PlanTyped, CallsTyped
<1>3. StageReserved \in [Stages -> Nat] /\ StageUsed \in [Stages -> Nat]
  BY <1>1 DEF LedgersTyped, Totals, StageReserved, StageUsed
<1>4. run.reserved = Reserved(Calls) /\ run.used = Used(Calls) + stage["PLANNING"].used
  <2>1. Reserved(Calls) = Sum(Promised, Calls) /\ Used(Calls) = Sum(Spent, Calls)
    BY ReservedIs, UsedIs
  <2> QED
    BY <1>1, <2>1 DEF RunAgrees
<1>5. run.reserved = Sum(StageReserved, Stages)
  <2>1. Sum(StageReserved, Stages) = stage["PLANNING"].reserved + stage["DEVELOPMENT"].reserved
              + stage["VERIFICATION_REPAIR"].reserved + stage["REVIEW_PUBLICATION"].reserved
    <3>1. /\ StageReserved["PLANNING"] = stage["PLANNING"].reserved
          /\ StageReserved["DEVELOPMENT"] = stage["DEVELOPMENT"].reserved
          /\ StageReserved["VERIFICATION_REPAIR"] = stage["VERIFICATION_REPAIR"].reserved
          /\ StageReserved["REVIEW_PUBLICATION"] = stage["REVIEW_PUBLICATION"].reserved
      BY DEF StageReserved, Stages
    <3> QED
      BY <1>3, <3>1, SumFour
  <2> QED
    BY <1>1, <2>1 DEF RunAgrees
<1>6. run.used = Sum(StageUsed, Stages)
  <2>1. Sum(StageUsed, Stages) = stage["PLANNING"].used + stage["DEVELOPMENT"].used
              + stage["VERIFICATION_REPAIR"].used + stage["REVIEW_PUBLICATION"].used
    <3>1. /\ StageUsed["PLANNING"] = stage["PLANNING"].used
          /\ StageUsed["DEVELOPMENT"] = stage["DEVELOPMENT"].used
          /\ StageUsed["VERIFICATION_REPAIR"] = stage["VERIFICATION_REPAIR"].used
          /\ StageUsed["REVIEW_PUBLICATION"] = stage["REVIEW_PUBLICATION"].used
      BY DEF StageUsed, Stages
    <3> QED
      BY <1>3, <3>1, SumFour
  <2> QED
    BY <1>1, <2>1 DEF RunAgrees
<1>7. \A t \in Tasks, r \in PackageRoles :
        share[t][r].reserved = Reserved(CallsOf(t, r)) /\ share[t][r].used = Used(CallsOf(t, r))
  <2> SUFFICES ASSUME NEW t \in Tasks, NEW r \in PackageRoles
               PROVE  share[t][r].reserved = Reserved(CallsOf(t, r)) /\ share[t][r].used = Used(CallsOf(t, r))
    OBVIOUS
  <2>1. CallsOf(t, r) \in SUBSET Calls
    BY DEF CallsOf
  <2>2. Reserved(CallsOf(t, r)) = Sum(Promised, CallsOf(t, r)) /\ Used(CallsOf(t, r)) = Sum(Spent, CallsOf(t, r))
    BY <2>1, ReservedIs, UsedIs
  <2> QED
    BY <1>1, <2>2 DEF SharesAgree
<1>8. stage["PLANNING"].used \in {0, plan.used}
  BY <1>1 DEF PlanningFirst
<1>9. LedgersAgree
  BY <1>4, <1>5, <1>6, <1>7, <1>8, StageReservedIs, StageUsedIs DEF LedgersAgree
<1> QED
  BY <1>1, <1>2, <1>9 DEF LedgersSound

LEMMA InvLimits == BudgetAssumption /\ BudgetInv => LimitsHold
<1> SUFFICES ASSUME BudgetAssumption, BudgetInv PROVE LimitsHold
  OBVIOUS
<1>1. Bounded /\ EnvelopeSuffices
  BY DEF BudgetInv, Ledgers, Launch
<1>2. HardLimit
  BY <1>1, ExcessIs DEF Bounded, HardLimit
<1> QED
  BY <1>1, <1>2 DEF LimitsHold

LEMMA BudgetHolds == BudgetSpec => []BudgetInv
<1>1. BudgetInit => BudgetInv
  BY BudgetAssumption, InitBudget
<1>2. BudgetInv /\ [BudgetNext]_budgetVars => BudgetInv'
  BY BudgetAssumption, NextBudget
<1> QED
  BY <1>1, <1>2, PTL DEF BudgetSpec

\* However the transactions of reserve, settle and cancel interleave, break off
\* and are repeated, the totals of the Run, of its stages and of its packages
\* are the sums of the reservations and of the usage of its calls, planning is
\* charged at most once, no GREATEST(0, ...) hides a difference, and the status
\* of the Run never looks better than what it has spent.
THEOREM LedgersTheorem == BudgetSpec => []LedgersSound
<1>1. BudgetInv => LedgersSound
  BY BudgetAssumption, InvLedgers
<1>2. BudgetSpec => []BudgetInv
  BY BudgetHolds
<1> QED
  BY <1>1, <1>2, PTL

\* What is used and reserved exceeds the hard limit of a Run by no more than
\* providers used beyond what was reserved for them, and a launch that
\* ensure_launch_capacity lets pass can pay for its planner's recovery.
THEOREM LimitsTheorem == BudgetSpec => []LimitsHold
<1>1. BudgetInv => LimitsHold
  BY BudgetAssumption, InvLimits
<1>2. BudgetSpec => []BudgetInv
  BY BudgetHolds
<1> QED
  BY <1>1, <1>2, PTL

=============================================================================
