------------------------- MODULE RunAdmissionProofs -------------------------
(***************************************************************************)
(* Proofs about RunAdmission, for any set of tasks, any plan the planner   *)
(* may propose, any number of controllers and any budget.                  *)
(***************************************************************************)
EXTENDS RunAdmission, FiniteSetTheorems, WellFoundedInduction, TLAPS

-----------------------------------------------------------------------------
(***************************************************************************)
(* What blocked_task_ids computes: the least set that holds every task     *)
(* with a dependency that is failed or in the set.                         *)
(***************************************************************************)
More(failed, b) == {t \in Dag \ failed : DependsOn(t) \cap (failed \cup b) # {}}
Closed(failed, S) == More(failed, S) \subseteq S
Least(failed, b) == {t \in Dag : \A S \in SUBSET Dag : b \subseteq S /\ Closed(failed, S) => t \in S}

\* One round of the loop, with f for the rounds that follow.
Round(failed, f) ==
  [b \in SUBSET Dag |-> IF More(failed, b) \subseteq b THEN b ELSE f[b \cup More(failed, b)]]
Spread(failed) == CHOOSE f : f = Round(failed, f)

LEMMA MoreMonotone ==
  ASSUME NEW F, NEW b, NEW c, b \subseteq c
  PROVE  More(F, b) \subseteq More(F, c)
  BY DEF More

LEMMA LeastOfClosed ==
  ASSUME NEW F, NEW b \in SUBSET Dag, More(F, b) \subseteq b
  PROVE  Least(F, b) = b
  BY DEF Least, Closed

LEMMA LeastOfMore ==
  ASSUME NEW F, NEW b \in SUBSET Dag
  PROVE  Least(F, b) = Least(F, b \cup More(F, b))
<1>1. ASSUME NEW S \in SUBSET Dag, Closed(F, S), b \subseteq S
      PROVE  b \cup More(F, b) \subseteq S
  BY <1>1, MoreMonotone DEF Closed
<1> QED
  BY <1>1 DEF Least

(* The recursion has a solution: Least is one.                             *)
LEMMA SpreadUnfolds ==
  ASSUME NEW F
  PROVE  Spread(F) = Round(F, Spread(F))
<1> DEFINE g == [b \in SUBSET Dag |-> Least(F, b)]
<1>1. ASSUME NEW b \in SUBSET Dag
      PROVE  g[b] = IF More(F, b) \subseteq b THEN b ELSE g[b \cup More(F, b)]
  <2>1. b \cup More(F, b) \in SUBSET Dag
    BY DEF More
  <2> QED
    BY <2>1, LeastOfClosed, LeastOfMore
<1>2. g = Round(F, g)
  BY <1>1 DEF Round
<1>3. \E f : f = Round(F, f)
  BY <1>2
<1> QED
  BY <1>3, Zenon DEF Spread

LEMMA NatLess == IsWellFoundedOn({ss \in Nat \X Nat : ss[1] < ss[2]}, Nat)
  BY NatLessThanWellFounded, Zenon DEF OpToRel

(* It is the only one, because every round but the last adds a task.       *)
LEMMA SpreadIsLeast ==
  ASSUME IsFiniteSet(Dag), NEW F, NEW b0 \in SUBSET Dag
  PROVE  Spread(F)[b0] = Least(F, b0)
<1> DEFINE Bad == {b \in SUBSET Dag : Spread(F)[b] # Least(F, b)}
           Size(b) == Cardinality(Dag \ b)
           R == {ss \in Nat \X Nat : ss[1] < ss[2]}
           Sizes == {Size(b) : b \in Bad}
<1>1. \A b \in SUBSET Dag : Size(b) \in Nat
  BY FS_Difference, FS_CardinalityType
<1>2. SUFFICES ASSUME Bad # {} PROVE FALSE
  OBVIOUS
<1>3. Sizes \subseteq Nat /\ Sizes # {}
  BY <1>1, <1>2
<1>4. IsWellFoundedOn(R, Nat)
  BY NatLess
<1> HIDE DEF R
<1>5. PICK n \in Sizes : \A k \in Sizes : ~(<<k, n>> \in R)
  BY <1>3, <1>4, WFMin
<1>6. PICK b \in Bad : n = Size(b)
  BY <1>5
<1> DEFINE c == b \cup More(F, b)
<1>7. b \in SUBSET Dag /\ c \in SUBSET Dag
  BY <1>6 DEF More
<1>8. Spread(F)[b] = IF More(F, b) \subseteq b THEN b ELSE Spread(F)[c]
  <2>1. Round(F, Spread(F))[b] = IF More(F, b) \subseteq b THEN b ELSE Spread(F)[c]
    BY <1>7 DEF Round
  <2> QED
    BY <2>1, SpreadUnfolds
<1>9. ~(More(F, b) \subseteq b)
  BY <1>6, <1>7, <1>8, LeastOfClosed
<1>10. Size(c) < Size(b)
  <2>1. PICK t \in More(F, b) : t \notin b
    BY <1>9
  <2>2. t \in Dag \ b /\ t \notin Dag \ c /\ Dag \ c \subseteq Dag \ b
    BY <2>1 DEF More
  <2>3. IsFiniteSet(Dag \ b)
    BY FS_Difference
  <2>4. Dag \ c # Dag \ b /\ Dag \ c \in SUBSET (Dag \ b)
    BY <2>2
  <2>5. Size(c) <= Size(b) /\ Size(c) # Size(b)
    BY <2>3, <2>4, FS_Subset
  <2>6. Size(c) \in Nat /\ Size(b) \in Nat
    BY <1>1, <1>7
  <2> QED
    BY <2>5, <2>6
<1>11. c \notin Bad
  BY <1>1, <1>3, <1>5, <1>6, <1>7, <1>10 DEF R
<1> QED
  BY <1>6, <1>7, <1>8, <1>9, <1>11, LeastOfMore

LEMMA BlockedIsLeast ==
  ASSUME IsFiniteSet(Dag), NEW F
  PROVE  BlockedTaskIds(F) = Least(F, {})
<1>1. BlockedTaskIds(F) = Spread(F)[{}]
  BY DEF BlockedTaskIds, Spread, Round, More
<1> QED
  BY <1>1, SpreadIsLeast

-----------------------------------------------------------------------------
(***************************************************************************)
(* The invariant.                                                          *)
(***************************************************************************)
Outcomes == {"NONE", "SUCCEEDED", "FAILED"}
Readings == [evidence : [Tasks -> Outcomes], merged : SUBSET Tasks]

RowTypes ==
  /\ contract \in [Tasks -> {"NONE", "DECLARED", "SATISFIED", "UNMET"}]
  /\ evidence \in [Tasks -> Outcomes]
  /\ lease \in [Tasks -> {"UNOWNED", "ACTIVE", "EXPIRED", "RELEASED"}]
  /\ queued \in [Tasks -> {"none", "sent", "lost"}]
  /\ worker \in [Tasks -> {"none", "running", "evidenced", "marked", "ending", "closing", "released"}]

PlanTypes ==
  /\ phase \in {"planning", "replanning", "checking", "refused", "accepted", "started", "declared", "over"}
  /\ Dag \subseteq Tasks /\ \A t \in Dag : plan[t] \subseteq Dag
  /\ calls \in 0..MaxRepairs + 1
  /\ phase \in {"planning", "replanning"} => calls <= MaxRepairs
  /\ run \in {"NONE", "RUNNING", "SUCCEEDED", "FAILED"}
  /\ merged \subseteq Dag
  /\ crashes \in 0..MaxCrashes

ControlTypes ==
  /\ pc \in [Controllers -> {"idle", "load", "leases", "dispatch"}]
  /\ seen \in [Controllers -> Readings]
  /\ todo \in [Controllers -> SUBSET Dag]

Types == RowTypes /\ PlanTypes /\ ControlTypes

\* The row locks of a task: a worker at work holds the lease, a task whose
\* lease is held or released has no other dispatch, and one with evidence
\* has been taken and will not be taken again.
TaskHolds(t) ==
  /\ worker[t] \notin {"none", "released"} => lease[t] = "ACTIVE"
  /\ worker[t] \in {"evidenced", "marked", "ending", "closing"} => evidence[t] # "NONE"
  /\ lease[t] \in {"ACTIVE", "RELEASED"} => queued[t] = "none"
  /\ evidence[t] # "NONE" => lease[t] # "UNOWNED" /\ queued[t] = "none" /\ worker[t] # "running"

TasksHold == \A t \in Tasks : TaskHolds(t)

\* Nothing has been given to a worker, and no controller is at work.
Quiet ==
  /\ \A t \in Tasks : lease[t] = "UNOWNED" /\ queued[t] = "none" /\ worker[t] = "none"
                      /\ evidence[t] = "NONE"
  /\ \A c \in Controllers : pc[c] = "idle"
  /\ merged = {}

\* Every interface that is consumed has its row.
Declared == \A t \in Dag : \A i \in plan[t] : contract[i] # "NONE"

\* A launch that died before it declared the contracts has dispatched nothing.
LaunchHolds ==
  /\ Quiet \/ Declared
  /\ phase \notin {"declared", "over"} => Quiet /\ \A i \in Tasks : contract[i] = "NONE"
  /\ phase = "declared" => Declared
  /\ initial \subseteq {t \in Dag : plan[t] = {}}
  /\ initial # {} => phase = "declared"

\* What t depends on is accepted, integrated and satisfied.
Backed(t) ==
  /\ plan[t] \subseteq CompletedIn(evidence) \cap merged
  /\ \A i \in plan[t] : contract[i] = "SATISFIED"

\* What a controller has read is behind, and never wrong; what it has
\* decided to dispatch stays backed.
ControlHolds ==
  \A c \in Controllers :
    /\ \A t \in Tasks : seen[c].evidence[t] # "NONE" => evidence[t] = seen[c].evidence[t]
    /\ seen[c].merged \subseteq merged
    /\ todo[c] # {} => pc[c] = "dispatch"
    /\ \A t \in todo[c] : Backed(t)

WorkHolds ==
  /\ \A t \in Dag : queued[t] # "none" \/ lease[t] # "UNOWNED" => Backed(t)
  /\ ContractsTruthful

Inv == Types /\ TasksHold /\ LaunchHolds /\ ControlHolds /\ WorkHolds

LEMMA InvType == Inv => TypeOK
  BY DEF Inv, Types, RowTypes, PlanTypes, ControlTypes, TypeOK, TasksHold, TaskHolds, Outcomes

LEMMA InvWork == Inv => WorkSound
  BY DEF Inv, WorkHolds, Backed, WorkSound, RunsOnAcceptedWork, DependsOn

LEMMA InvNoRerun == Inv => NoRerun
  BY DEF Inv, TasksHold, TaskHolds, NoRerun

LEMMA DagFinite == ASSUME Inv PROVE IsFiniteSet(Dag)
  BY TasksAssumption, FS_Subset DEF Inv, Types, PlanTypes

(* The tasks nobody has taken include all that are blocked: a task that    *)
(* was taken found all it depends on succeeded, and evidence is final.     *)
LEMMA InvPlan == Inv => PlanNeverCorrupt
<1> SUFFICES ASSUME Inv, NEW c \in Controllers, Corrupt(seen[c])
             PROVE  FALSE
  BY DEF PlanNeverCorrupt
<1> DEFINE S == {t \in Dag : lease[t] = "UNOWNED"}
           F == FailedIn(seen[c].evidence)
<1>1. Dag \subseteq Tasks
  BY DEF Inv, Types, PlanTypes
<1>2. \A t \in Dag : /\ seen[c].evidence[t] # "NONE" => evidence[t] = seen[c].evidence[t]
                     /\ evidence[t] # "NONE" => lease[t] # "UNOWNED"
  BY <1>1 DEF Inv, ControlHolds, TasksHold, TaskHolds
<1>3. Closed(F, S)
  <2> SUFFICES ASSUME NEW t \in Dag \ F, NEW u \in plan[t], u \in F \cup S
               PROVE  lease[t] = "UNOWNED"
    BY DEF Closed, More, DependsOn
  <2>1. CASE lease[t] # "UNOWNED"
    <3>1. u \in Dag /\ evidence[u] = "SUCCEEDED"
      BY <2>1 DEF Inv, WorkHolds, Backed, CompletedIn
    <3> QED
      BY <3>1, <1>2 DEF FailedIn
  <2> QED
    BY <2>1
<1>4. BlockedTaskIds(F) \subseteq S
  <2>1. BlockedTaskIds(F) = Least(F, {})
    BY BlockedIsLeast, DagFinite
  <2> QED
    BY <2>1, <1>3 DEF Least
<1>5. ~UnownedEvidence(seen[c])
  BY <1>2 DEF UnownedEvidence
<1>6. ~AdvancedBlocked(seen[c])
  BY <1>2, <1>4 DEF AdvancedBlocked
<1> QED
  BY <1>5, <1>6 DEF Corrupt

-----------------------------------------------------------------------------
(***************************************************************************)
(* Evidence, merges and satisfied contracts are never taken back, so what  *)
(* backs a task backs it for good.                                         *)
(***************************************************************************)
Grows ==
  /\ plan' = plan
  /\ \A t \in Tasks : evidence[t] # "NONE" => evidence'[t] = evidence[t]
  /\ merged \subseteq merged'
  /\ \A i \in Tasks : contract[i] = "SATISFIED" => contract'[i] = "SATISFIED"

LEMMA BackedForGood ==
  ASSUME Inv, Grows, NEW t \in Dag, Backed(t)
  PROVE  Backed(t)'
<1>1. plan[t] \subseteq Tasks /\ Dag \subseteq Tasks /\ Dag' = Dag
  BY DEF Inv, Types, PlanTypes, Grows, Dag
<1>2. \A u \in CompletedIn(evidence) : u \in CompletedIn(evidence')
  BY <1>1 DEF CompletedIn, Grows, Dag
<1>3. CompletedIn(evidence)' = CompletedIn(evidence')
  BY <1>1 DEF CompletedIn
<1> QED
  BY <1>1, <1>2, <1>3 DEF Backed, Grows

LEMMA ReadingsKept ==
  ASSUME Inv, Grows, UNCHANGED <<seen, todo>>,
         \A c \in Controllers : todo[c] # {} => pc'[c] = "dispatch"
  PROVE  ControlHolds'
<1>1. Dag' = Dag /\ seen' = seen /\ todo' = todo
  BY DEF Grows, Dag
<1>2. ASSUME NEW c \in Controllers, NEW t \in todo[c] PROVE Backed(t)'
  <2>1. t \in Dag /\ Backed(t)
    BY <1>2 DEF Inv, Types, ControlTypes, ControlHolds
  <2> QED
    BY <2>1, BackedForGood
<1>3. ASSUME NEW c \in Controllers
      PROVE  /\ \A t \in Tasks : seen[c].evidence[t] # "NONE" => evidence'[t] = seen[c].evidence[t]
             /\ seen[c].merged \subseteq merged'
  BY <1>3 DEF Inv, ControlHolds, Grows
<1> QED
  BY <1>1, <1>2, <1>3 DEF ControlHolds

LEMMA ControlKept ==
  ASSUME Inv, Grows, UNCHANGED controlVars
  PROVE  ControlHolds' /\ ControlTypes'
<1>1. Dag' = Dag /\ pc' = pc /\ seen' = seen /\ todo' = todo
  BY DEF Grows, Dag, controlVars
<1>2. ControlTypes'
  BY <1>1 DEF Inv, Types, ControlTypes
<1>3. ControlHolds'
  BY <1>1, ReadingsKept DEF Inv, ControlHolds
<1> QED
  BY <1>2, <1>3

LEMMA WorkKept ==
  ASSUME Inv, Grows, ContractsTruthful',
         \A t \in Dag : queued'[t] # "none" \/ lease'[t] # "UNOWNED" =>
           queued[t] # "none" \/ lease[t] # "UNOWNED" \/ Backed(t)
  PROVE  WorkHolds'
<1>1. Dag' = Dag
  BY DEF Grows, Dag
<1>2. ASSUME NEW t \in Dag, queued'[t] # "none" \/ lease'[t] # "UNOWNED" PROVE Backed(t)'
  <2>1. Backed(t)
    BY <1>2 DEF Inv, WorkHolds
  <2> QED
    BY <2>1, BackedForGood
<1> QED
  BY <1>1, <1>2 DEF WorkHolds

-----------------------------------------------------------------------------
(* Init *)

LEMMA InitInv == Init => Inv
<1> SUFFICES ASSUME Init PROVE Inv
  OBVIOUS
<1> USE DEF Init
<1>1. Dag = {}
  BY DEF Dag
<1>2. Types
  <2>1. seen \in [Controllers -> Readings]
    BY DEF NothingSeen, Readings, Outcomes
  <2>2. 0 \in 0..MaxRepairs + 1 /\ 0 <= MaxRepairs /\ 0 \in 0..MaxCrashes
    BY BoundsAssumption
  <2> QED
    BY <1>1, <2>1, <2>2 DEF Types, RowTypes, PlanTypes, ControlTypes, Outcomes
<1>3. TasksHold
  BY DEF TasksHold, TaskHolds
<1>4. LaunchHolds
  BY <1>1 DEF LaunchHolds, Quiet
<1>5. ControlHolds
  BY DEF ControlHolds, NothingSeen
<1>6. WorkHolds
  BY <1>1 DEF WorkHolds, ContractsTruthful
<1> QED
  BY <1>2, <1>3, <1>4, <1>5, <1>6 DEF Inv

-----------------------------------------------------------------------------
(* The launch *)

(* Before the contracts are declared nothing has happened that the plan    *)
(* could matter to.                                                        *)
LEMMA PlanningStep ==
  ASSUME Inv, phase \notin {"declared", "over"},
         phase' \in {"planning", "replanning", "checking", "refused", "accepted", "started"},
         Dag' \subseteq Tasks, \A t \in Dag' : plan'[t] \subseteq Dag',
         calls' \in 0..MaxRepairs + 1, phase' \in {"planning", "replanning"} => calls' <= MaxRepairs,
         run' = run \/ run' = "RUNNING",
         UNCHANGED <<initial, taskVars, merged, controlVars, crashes>>
  PROVE  Inv'
<1> USE DEF Inv, taskVars, controlVars
<1>0. Quiet /\ initial = {} /\ \A i \in Tasks : contract[i] = "NONE"
  BY DEF LaunchHolds
<1>2. \A c \in Controllers : todo[c] = {}
  BY <1>0 DEF ControlHolds, Quiet
<1>3. Types'
  <2>1. RowTypes'
    BY DEF Types, RowTypes
  <2>2. PlanTypes'
    BY <1>0 DEF Types, PlanTypes, Quiet
  <2>3. ControlTypes'
    BY <1>2 DEF Types, ControlTypes
  <2> QED
    BY <2>1, <2>2, <2>3 DEF Types
<1>4. TasksHold'
  BY DEF TasksHold, TaskHolds
<1>5. Quiet'
  BY <1>0 DEF Quiet
<1>6. LaunchHolds'
  BY <1>0, <1>5 DEF LaunchHolds
<1>7. ControlHolds'
  BY <1>2 DEF ControlHolds
<1>8. WorkHolds'
  <2>1. ContractsTruthful'
    BY DEF WorkHolds, ContractsTruthful
  <2> QED
    BY <1>5, <2>1 DEF WorkHolds, Quiet
<1> QED
  BY <1>3, <1>4, <1>6, <1>7, <1>8

LEMMA PlannerAnswersStep ==
  ASSUME Inv, phase \in {"planning", "replanning"},
         NEW p \in Proposals \cup {NoProposal}, PlannerAnswers(p)
  PROVE  Inv'
<1> USE DEF Inv, PlannerAnswers
<1>1. Dag' \subseteq Tasks /\ \A t \in Dag' : plan'[t] \subseteq Dag'
  <2>1. CASE plan' = p /\ p # NoProposal /\ Validated(p)
    <3>1. PICK T \in (SUBSET Tasks) \ {{}} : p \in [T -> SUBSET Tasks]
      BY <2>1 DEF Proposals
    <3> QED
      BY <2>1, <3>1 DEF Dag, Validated
  <2>2. CASE UNCHANGED plan
    BY <2>2 DEF Dag, Types, PlanTypes
  <2> QED
    BY <2>1, <2>2
<1>2. calls' \in 0..MaxRepairs + 1 /\ (phase' \in {"planning", "replanning"} => calls' <= MaxRepairs)
  BY BoundsAssumption DEF Types, PlanTypes
<1>3. phase' \in {"planning", "checking", "refused"}
  OBVIOUS
<1> QED
  BY <1>1, <1>2, <1>3, PlanningStep

LEMMA CheckBudgetStep ==
  ASSUME Inv, CheckBudget
  PROVE  Inv'
<1> USE DEF Inv, CheckBudget
<1>1. Dag' \subseteq Tasks /\ \A t \in Dag' : plan'[t] \subseteq Dag'
  BY DEF Dag, Types, PlanTypes
<1>2. calls' \in 0..MaxRepairs + 1 /\ (phase' \in {"planning", "replanning"} => calls' <= MaxRepairs)
  BY BoundsAssumption DEF Types, PlanTypes
<1>3. phase' \in {"replanning", "refused", "accepted"}
  OBVIOUS
<1> QED
  BY <1>1, <1>2, <1>3, PlanningStep

LEMMA StartRunStep ==
  ASSUME Inv, StartRun
  PROVE  Inv'
<1> USE DEF Inv, StartRun
<1>1. Dag' \subseteq Tasks /\ \A t \in Dag' : plan'[t] \subseteq Dag'
  BY DEF Dag, Types, PlanTypes
<1>2. calls' \in 0..MaxRepairs + 1
  BY BoundsAssumption
<1> QED
  BY <1>1, <1>2, PlanningStep

LEMMA DeclareContractsStep ==
  ASSUME Inv, DeclareContracts
  PROVE  Inv'
<1> USE DEF Inv, DeclareContracts, controlVars
<1>0. Quiet /\ \A i \in Tasks : contract[i] = "NONE"
  BY DEF LaunchHolds
<1>1. Grows /\ UNCHANGED controlVars
  BY <1>0 DEF Grows
<1>2. Dag' = Dag /\ Dag \subseteq Tasks /\ \A t \in Dag : plan[t] \subseteq Dag
  BY DEF Dag, Types, PlanTypes
<1>3. Types'
  <2>1. RowTypes'
    BY DEF Types, RowTypes
  <2>2. PlanTypes'
    BY <1>2 DEF Types, PlanTypes
  <2> QED
    BY <2>1, <2>2, <1>1, ControlKept DEF Types
<1>4. TasksHold'
  BY DEF TasksHold, TaskHolds
<1>5. Declared'
  BY <1>2 DEF Declared
<1>6. LaunchHolds'
  <2>1. initial' \subseteq {t \in Dag : plan[t] = {}}
    BY DEF ReadyTaskIds, DependsOn
  <2> QED
    BY <1>2, <1>5, <2>1 DEF LaunchHolds
<1>7. ControlHolds'
  BY <1>1, ControlKept
<1>8. WorkHolds'
  <2>1. ContractsTruthful'
    BY DEF ContractsTruthful
  <2> QED
    BY <1>1, <2>1, WorkKept
<1> QED
  BY <1>3, <1>4, <1>6, <1>7, <1>8

LEMMA DispatchInitialStep ==
  ASSUME Inv, DispatchInitial
  PROVE  Inv'
<1> USE DEF Inv, DispatchInitial, controlVars
<1>1. Grows /\ UNCHANGED controlVars
  BY DEF Grows
<1>2. Dag' = Dag /\ Dag \subseteq Tasks /\ plan' = plan
  BY DEF Dag, Types, PlanTypes
<1>3. PICK t \in initial :
        /\ queued' = queued \/ ((queued' = [queued EXCEPT ![t] = "sent"] \/ queued' = [queued EXCEPT ![t] = "lost"])
                                /\ Undispatched(t))
        /\ initial' \subseteq initial
  OBVIOUS
<1>4. t \in Dag /\ plan[t] = {} /\ Declared
  BY DEF LaunchHolds
<1>5. Types'
  <2>1. RowTypes'
    BY <1>2, <1>3, <1>4 DEF Types, RowTypes
  <2>2. PlanTypes'
    BY <1>2, BoundsAssumption DEF Types, PlanTypes
  <2> QED
    BY <2>1, <2>2, <1>1, ControlKept DEF Types
<1>6. TasksHold'
  BY <1>2, <1>3, <1>4 DEF TasksHold, TaskHolds, Undispatched, Types, RowTypes
<1>7. LaunchHolds'
  BY <1>2, <1>3, <1>4 DEF LaunchHolds, Declared
<1>8. ControlHolds'
  BY <1>1, ControlKept
<1>9. WorkHolds'
  <2>1. ContractsTruthful'
    BY DEF WorkHolds, ContractsTruthful
  <2>2. Backed(t)
    BY <1>4 DEF Backed
  <2>3. ASSUME NEW u \in Dag, queued'[u] # "none" \/ lease'[u] # "UNOWNED"
        PROVE  queued[u] # "none" \/ lease[u] # "UNOWNED" \/ Backed(u)
    BY <1>2, <1>3, <2>2, <2>3 DEF Types, RowTypes
  <2> QED
    BY <1>1, <2>1, <2>3, WorkKept
<1> QED
  BY <1>5, <1>6, <1>7, <1>8, <1>9

LEMMA LaunchDiesStep ==
  ASSUME Inv, LaunchDies
  PROVE  Inv'
<1> USE DEF Inv, LaunchDies, controlVars, taskVars
<1>1. Grows /\ UNCHANGED controlVars
  BY DEF Grows
<1>2. Dag' = Dag
  BY DEF Dag
<1>3. Types'
  <2>1. RowTypes'
    BY DEF Types, RowTypes
  <2>2. PlanTypes'
    BY <1>2, BoundsAssumption DEF Types, PlanTypes
  <2> QED
    BY <2>1, <2>2, <1>1, ControlKept DEF Types
<1>4. TasksHold'
  BY DEF TasksHold, TaskHolds
<1>5. LaunchHolds'
  BY <1>2 DEF LaunchHolds, Declared, Quiet
<1>6. ControlHolds'
  BY <1>1, ControlKept
<1>7. WorkHolds'
  <2>1. ContractsTruthful'
    BY DEF WorkHolds, ContractsTruthful
  <2> QED
    BY <1>1, <2>1, WorkKept
<1> QED
  BY <1>3, <1>4, <1>5, <1>6, <1>7

-----------------------------------------------------------------------------
(* Who invokes the controller *)

(* Nothing is offered to the operator of a Run whose launch died before it *)
(* dispatched anything: its first tasks are candidates, not work to repeat. *)
LEMMA QuietNotOffered ==
  ASSUME Inv, Quiet
  PROVE  ~ShouldOfferAdvance
<1> DEFINE e == Durable.evidence
<1>1. Durable.evidence = evidence /\ Durable.merged = {} /\ Dag \subseteq Tasks
  BY DEF Durable, Quiet, Inv, Types, PlanTypes
<1>2. CompletedIn(e) = {} /\ FailedIn(e) = {}
  BY <1>1 DEF CompletedIn, FailedIn, Quiet
<1>3. BlockedTaskIds({}) = {}
  <2>1. More({}, {}) = {}
    BY DEF More
  <2> QED
    BY <2>1, BlockedIsLeast, LeastOfClosed, DagFinite
<1>4. ReadyTaskIds({}, {}) = {t \in Dag : plan[t] = {}}
  BY <1>3 DEF ReadyTaskIds, DependsOn
<1>5. ASSUME NEW t \in Dag
      PROVE  FrontierState(Durable, t) \in {"WAIT_DEPENDENCIES", "RECONCILE_CANDIDATE"} /\ lease[t] = "UNOWNED"
  <2>1. lease[t] = "UNOWNED"
    BY <1>1 DEF Quiet
  <2>2. Disposition(Durable, t) = "BLOCKED_UNOWNED_DISPATCH_AMBIGUITY"
    BY <2>1 DEF Disposition
  <2>3. plan[t] = {} => plan[t] \subseteq Durable.merged
    BY <1>1
  <2> QED
    BY <1>2, <1>3, <1>4, <2>1, <2>2, <2>3 DEF FrontierState, DependsOn
<1> QED
  BY <1>5 DEF ShouldOfferAdvance, Actionable

\* What an invocation of the controller does before it loads the Run.
Invoked(c) ==
  /\ UNCHANGED <<planVars, contract, evidence, lease, queued, seen, todo, crashes>>
  /\ merged \subseteq merged' /\ merged' \subseteq Dag
  /\ run' \in {"NONE", "RUNNING", "SUCCEEDED", "FAILED"}
  /\ pc[c] = "idle" /\ (pc' = pc \/ pc' = [pc EXCEPT ![c] = "load"])

LEMMA AdvanceInvokes ==
  ASSUME Inv, NEW c \in Controllers, pc[c] = "idle", Advance(c),
         UNCHANGED <<planVars, contract, evidence, lease, queued, seen, todo, crashes>>
  PROVE  Invoked(c)
<1>1. IntegrateAvailable(evidence) \subseteq Dag
  BY DEF IntegrateAvailable, CompletedIn
<1>2. merged \subseteq merged' /\ merged' \subseteq Dag
  BY <1>1 DEF Advance, Inv, Types, PlanTypes
<1>3. run' \in {"NONE", "RUNNING", "SUCCEEDED", "FAILED"} /\ (pc' = pc \/ pc' = [pc EXCEPT ![c] = "load"])
  BY DEF Advance, Go, Inv, Types, PlanTypes
<1> QED
  BY <1>2, <1>3 DEF Invoked

LEMMA InvokedStep ==
  ASSUME Inv, ~Quiet, NEW c \in Controllers, Invoked(c),
         worker' = worker \/ \E t \in Tasks : worker[t] = "released" /\ worker' = [worker EXCEPT ![t] = "none"]
  PROVE  Inv'
<1> USE DEF Inv, Invoked, planVars
<1>1. Grows /\ Dag' = Dag /\ plan' = plan
  BY DEF Grows, Dag
<1>2. Types'
  <2>1. RowTypes'
    BY DEF Types, RowTypes
  <2>2. PlanTypes'
    BY <1>1 DEF Types, PlanTypes
  <2>3. ControlTypes'
    BY <1>1 DEF Types, ControlTypes
  <2> QED
    BY <2>1, <2>2, <2>3 DEF Types
<1>3. TasksHold'
  BY DEF TasksHold, TaskHolds, Types, RowTypes
<1>4. LaunchHolds'
  <2>1. Declared /\ phase \in {"declared", "over"}
    BY DEF LaunchHolds, Types, PlanTypes
  <2>2. Declared'
    BY <1>1, <2>1 DEF Declared
  <2> QED
    BY <1>1, <2>1, <2>2 DEF LaunchHolds
<1>5. ControlHolds'
  <2>1. \A d \in Controllers : todo[d] # {} => pc'[d] = "dispatch"
    BY DEF ControlHolds, Types, ControlTypes
  <2> QED
    BY <1>1, <2>1, ReadingsKept
<1>6. WorkHolds'
  <2>1. ContractsTruthful'
    BY DEF WorkHolds, ContractsTruthful
  <2> QED
    BY <1>1, <2>1, WorkKept
<1> QED
  BY <1>2, <1>3, <1>4, <1>5, <1>6


LEMMA WorkerAdvancesStep ==
  ASSUME Inv, NEW t \in Tasks, NEW c \in Controllers, WorkerAdvances(t, c)
  PROVE  Inv'
<1>1. ~Quiet
  BY DEF WorkerAdvances, Quiet
<1>2. Invoked(c)
  BY AdvanceInvokes DEF WorkerAdvances
<1> QED
  BY <1>1, <1>2, InvokedStep DEF WorkerAdvances

LEMMA OperatorExecutesStep ==
  ASSUME Inv, NEW c \in Controllers, OperatorExecutes(c)
  PROVE  Inv'
<1>1. ~Quiet
  BY QuietNotOffered DEF OperatorExecutes
<1>2. UNCHANGED <<planVars, contract, evidence, lease, queued, seen, todo, crashes>> /\ worker' = worker
  BY DEF OperatorExecutes, taskVars
<1>3. CASE Cardinality(Dag) = 1
  <2>1. Invoked(c)
    BY <1>2, <1>3 DEF OperatorExecutes, Invoked, Go, Inv, Types, PlanTypes
  <2> QED
    BY <1>1, <1>2, <2>1, InvokedStep
<1>4. CASE Cardinality(Dag) # 1
  <2>1. Invoked(c)
    BY <1>2, <1>4, AdvanceInvokes DEF OperatorExecutes
  <2> QED
    BY <1>1, <1>2, <2>1, InvokedStep
<1> QED
  BY <1>3, <1>4

-----------------------------------------------------------------------------
(* The controller *)

(* Steps of a controller leave everything but its own readings, and at     *)
(* most a dispatch of a task that it may dispatch.                         *)
LEMMA ControllerStep ==
  ASSUME Inv, NEW c \in Controllers, pc[c] # "idle",
         UNCHANGED <<planVars, run, contract, evidence, lease, worker, merged>>,
         crashes' \in 0..MaxCrashes,
         ControlTypes', ControlHolds',
         queued' = queued \/ \E t \in Dag : /\ Backed(t) /\ Revalidated(t)
                                            /\ \E how \in {"sent", "lost"} : queued' = [queued EXCEPT ![t] = how]
  PROVE  Inv'
<1> USE DEF Inv, planVars
<1>1. Grows /\ Dag' = Dag /\ plan' = plan /\ Dag \subseteq Tasks
  BY DEF Grows, Dag, Types, PlanTypes
<1>2. Types'
  <2>1. RowTypes'
    BY <1>1 DEF Types, RowTypes
  <2>2. PlanTypes'
    BY <1>1 DEF Types, PlanTypes
  <2> QED
    BY <2>1, <2>2 DEF Types
<1>3. TasksHold'
  BY <1>1 DEF TasksHold, TaskHolds, Types, RowTypes, Revalidated
<1>4. LaunchHolds'
  <2>1. Declared /\ phase \in {"declared", "over"}
    BY DEF LaunchHolds, Types, PlanTypes, Quiet
  <2>2. Declared'
    BY <1>1, <2>1 DEF Declared
  <2> QED
    BY <1>1, <2>1, <2>2 DEF LaunchHolds
<1>5. WorkHolds'
  <2>1. ContractsTruthful'
    BY DEF WorkHolds, ContractsTruthful
  <2>2. ASSUME NEW u \in Dag, queued'[u] # "none" \/ lease'[u] # "UNOWNED"
        PROVE  queued[u] # "none" \/ lease[u] # "UNOWNED" \/ Backed(u)
    BY <1>1, <2>2 DEF Types, RowTypes
  <2> QED
    BY <1>1, <2>1, <2>2, WorkKept
<1> QED
  BY <1>2, <1>3, <1>4, <1>5

LEMMA LoadRunStep ==
  ASSUME Inv, NEW c \in Controllers, LoadRun(c)
  PROVE  Inv'
<1> USE DEF Inv, LoadRun, Go
<1>1. Grows /\ Dag' = Dag /\ todo[c] = {}
  BY DEF Grows, Dag, planVars, taskVars, ControlHolds
<1>2. Durable \in Readings
  BY DEF Durable, Readings, Types, RowTypes, PlanTypes
<1>3. ControlTypes'
  BY <1>1, <1>2 DEF Types, ControlTypes
<1>4. ControlHolds'
  <2>1. \A d \in Controllers : \A t \in todo[d] : Backed(t)'
    BY <1>1, BackedForGood DEF ControlHolds, Types, ControlTypes
  <2>2. \A d \in Controllers : todo[d] # {} => pc'[d] = "dispatch"
    BY <1>1 DEF ControlHolds, Types, ControlTypes
  <2>3. \A d \in Controllers : seen'[d] = seen[d] \/ (seen'[d].evidence = evidence /\ seen'[d].merged = merged)
    BY DEF Types, ControlTypes, Durable
  <2>4. evidence' = evidence /\ merged' = merged /\ todo' = todo
    BY DEF taskVars
  <2>5. ASSUME NEW d \in Controllers
        PROVE  /\ \A t \in Tasks : seen'[d].evidence[t] # "NONE" => evidence[t] = seen'[d].evidence[t]
               /\ seen'[d].merged \subseteq merged
    BY <2>3 DEF ControlHolds
  <2> QED
    BY <2>1, <2>2, <2>4, <2>5 DEF ControlHolds
<1>5. UNCHANGED <<planVars, run, contract, evidence, lease, worker, merged, queued>> /\ crashes' \in 0..MaxCrashes
  BY DEF taskVars, Types, PlanTypes
<1> QED
  BY <1>3, <1>4, <1>5, ControllerStep

(* A task that the reconciler takes for a candidate has what it depends on *)
(* among the evidence and the merges that were read.                       *)
LEMMA CandidateBacked ==
  ASSUME Inv, NEW s \in Readings, NEW t \in Dag, FrontierState(s, t) = "RECONCILE_CANDIDATE"
  PROVE  plan[t] \subseteq CompletedIn(s.evidence) \cap s.merged
<1> DEFINE C == CompletedIn(s.evidence)
           F == FailedIn(s.evidence)
<1>1. t \notin C /\ t \notin F /\ t \notin BlockedTaskIds(F) /\ t \in ReadyTaskIds(C, F)
  <2>1. t \notin C /\ t \notin F /\ t \notin BlockedTaskIds(F)
    BY DEF FrontierState, ReadyTaskIds
  <2>2. t \in ReadyTaskIds(C, F)
    BY <2>1 DEF FrontierState
  <2> QED
    BY <2>1, <2>2
<1>2. s.evidence[t] = "NONE" /\ t \in Tasks
  BY <1>1 DEF CompletedIn, FailedIn, Readings, Outcomes, Inv, Types, PlanTypes
<1>3. lease[t] \in {"UNOWNED", "ACTIVE", "EXPIRED", "RELEASED"}
  BY <1>2 DEF Inv, Types, RowTypes
<1>4. DependsOn(t) \subseteq s.merged
  BY <1>1, <1>2, <1>3 DEF FrontierState, Disposition
<1> QED
  BY <1>1, <1>4 DEF ReadyTaskIds, DependsOn

LEMMA ReadLeasesStep ==
  ASSUME Inv, NEW c \in Controllers, ReadLeases(c)
  PROVE  Inv'
<1> USE DEF Inv, ReadLeases, Go
<1>1. Grows /\ Dag' = Dag /\ evidence' = evidence /\ merged' = merged
  BY DEF Grows, Dag, planVars, taskVars
<1>2. NothingSeen \in Readings /\ seen[c] \in Readings
  BY DEF NothingSeen, Readings, Outcomes, Types, ControlTypes
<1>3. Admitted(seen[c]) \subseteq ReconcileTaskIds(seen[c]) /\ \A t \in Admitted(seen[c]) : GateAllows(t)
  BY DEF Admitted, LimitHigh
<1>4. ASSUME NEW t \in Admitted(seen[c]) PROVE t \in Dag /\ Backed(t)
  <2>1. t \in Dag /\ FrontierState(seen[c], t) = "RECONCILE_CANDIDATE" /\ GateAllows(t)
    BY <1>3, <1>4 DEF ReconcileTaskIds
  <2>2. plan[t] \subseteq CompletedIn(seen[c].evidence) \cap seen[c].merged
    BY <1>2, <2>1, CandidateBacked
  <2>3. plan[t] \subseteq CompletedIn(evidence) \cap merged
    BY <2>1, <2>2 DEF CompletedIn, ControlHolds, Types, PlanTypes
  <2>4. Declared
    BY DEF LaunchHolds, Quiet
  <2> QED
    BY <2>1, <2>3, <2>4 DEF Backed, Declared, GateAllows
<1>5. ControlTypes'
  BY <1>1, <1>2, <1>4 DEF Types, ControlTypes
<1>6. ControlHolds'
  <2>1. ASSUME NEW d \in Controllers, NEW t \in todo'[d] PROVE Backed(t)'
    <3>1. t \in Dag /\ Backed(t)
      BY <1>4, <2>1 DEF ControlHolds, Types, ControlTypes
    <3> QED
      BY <1>1, <3>1, BackedForGood
  <2>2. \A d \in Controllers : todo'[d] # {} => pc'[d] = "dispatch"
    BY DEF ControlHolds, Types, ControlTypes
  <2>3. ASSUME NEW d \in Controllers
        PROVE  /\ \A t \in Tasks : seen'[d].evidence[t] # "NONE" => evidence[t] = seen'[d].evidence[t]
               /\ seen'[d].merged \subseteq merged
    BY DEF ControlHolds, Types, ControlTypes, NothingSeen
  <2> QED
    BY <1>1, <2>1, <2>2, <2>3 DEF ControlHolds
<1>7. UNCHANGED <<planVars, run, contract, evidence, lease, worker, merged, queued>> /\ crashes' \in 0..MaxCrashes
  BY DEF taskVars, Types, PlanTypes
<1> QED
  BY <1>5, <1>6, <1>7, ControllerStep

LEMMA DispatchStep ==
  ASSUME Inv, NEW c \in Controllers, Dispatch(c)
  PROVE  Inv'
<1> USE DEF Inv, Dispatch, Go
<1>1. Grows /\ Dag' = Dag /\ evidence' = evidence /\ merged' = merged /\ seen' = seen
  BY DEF Grows, Dag, planVars
<1>2. PICK t \in todo[c] :
        /\ \/ queued' = queued
           \/ Revalidated(t) /\ \E how \in {"sent", "lost"} : queued' = [queued EXCEPT ![t] = how]
        /\ \E rest \in SUBSET todo[c] : todo' = [todo EXCEPT ![c] = rest]
        /\ crashes' \in 0..MaxCrashes
  BY BoundsAssumption DEF Types, PlanTypes
<1>3. t \in Dag /\ Backed(t)
  BY DEF ControlHolds, Types, ControlTypes
<1>4. PICK rest \in SUBSET todo[c] : todo' = [todo EXCEPT ![c] = rest]
  BY <1>2
<1>5. ControlTypes'
  BY <1>1, <1>4 DEF Types, ControlTypes
<1>6. ControlHolds'
  <2>1. ASSUME NEW d \in Controllers, NEW u \in todo'[d] PROVE Backed(u)'
    <3>1. u \in Dag /\ Backed(u)
      BY <1>4, <2>1 DEF ControlHolds, Types, ControlTypes
    <3> QED
      BY <1>1, <3>1, BackedForGood
  <2>2. \A d \in Controllers : todo'[d] # {} => pc'[d] = "dispatch"
    BY <1>4 DEF ControlHolds, Types, ControlTypes
  <2> QED
    BY <1>1, <2>1, <2>2 DEF ControlHolds
<1> QED
  BY <1>2, <1>3, <1>5, <1>6, ControllerStep

LEMMA ControllerDiesStep ==
  ASSUME Inv, NEW c \in Controllers, ControllerDies(c)
  PROVE  Inv'
<1> USE DEF Inv, ControllerDies, Go
<1>1. Grows /\ Dag' = Dag /\ evidence' = evidence /\ merged' = merged
  BY DEF Grows, Dag, planVars, taskVars
<1>2. NothingSeen \in Readings
  BY DEF NothingSeen, Readings, Outcomes
<1>3. ControlTypes'
  BY <1>1, <1>2 DEF Types, ControlTypes
<1>4. ControlHolds'
  <2>1. ASSUME NEW d \in Controllers, NEW t \in todo'[d] PROVE Backed(t)'
    <3>1. t \in Dag /\ Backed(t)
      BY <2>1 DEF ControlHolds, Types, ControlTypes
    <3> QED
      BY <1>1, <3>1, BackedForGood
  <2>2. \A d \in Controllers : todo'[d] # {} => pc'[d] = "dispatch"
    BY DEF ControlHolds, Types, ControlTypes
  <2>3. ASSUME NEW d \in Controllers
        PROVE  /\ \A t \in Tasks : seen'[d].evidence[t] # "NONE" => evidence[t] = seen'[d].evidence[t]
               /\ seen'[d].merged \subseteq merged
    BY DEF ControlHolds, Types, ControlTypes, NothingSeen
  <2> QED
    BY <1>1, <2>1, <2>2, <2>3 DEF ControlHolds
<1>5. UNCHANGED <<planVars, run, contract, evidence, lease, worker, merged, queued>> /\ crashes' \in 0..MaxCrashes
  BY BoundsAssumption DEF taskVars, Types, PlanTypes
<1> QED
  BY <1>3, <1>4, <1>5, ControllerStep

-----------------------------------------------------------------------------
(* Workers *)

(* A step of a worker touches the rows of its own task only.  It takes a   *)
(* task that was sent to it, and its evidence is the first of the task.    *)
LEMMA WorkerStep ==
  ASSUME Inv, NEW t \in Tasks,
         UNCHANGED <<planVars, merged, controlVars>>,
         run' \in {"NONE", "RUNNING", "SUCCEEDED", "FAILED"}, crashes' \in 0..MaxCrashes,
         RowTypes', TaskHolds(t)',
         \A u \in Tasks \ {t} : /\ contract'[u] = contract[u] /\ evidence'[u] = evidence[u]
                                /\ lease'[u] = lease[u] /\ queued'[u] = queued[u] /\ worker'[u] = worker[u],
         queued[t] # "none" \/ worker[t] # "none",
         contract[t] # "NONE" => contract'[t] # "NONE",
         contract[t] = "SATISFIED" => contract'[t] = "SATISFIED",
         evidence[t] # "NONE" => evidence'[t] = evidence[t],
         contract'[t] = "SATISFIED" => evidence'[t] = "SUCCEEDED",
         contract'[t] = "UNMET" => evidence'[t] = "FAILED",
         queued'[t] # "none" \/ lease'[t] # "UNOWNED" => queued[t] # "none" \/ lease[t] # "UNOWNED"
  PROVE  Inv'
<1> USE DEF Inv, planVars
<1>1. Grows /\ Dag' = Dag /\ plan' = plan /\ Dag \subseteq Tasks
  BY DEF Grows, Dag, Types, PlanTypes
<1>2. Types'
  <2>1. PlanTypes'
    BY <1>1 DEF Types, PlanTypes
  <2> QED
    BY <1>1, <2>1, ControlKept DEF Types
<1>3. TasksHold'
  BY DEF TasksHold, TaskHolds
<1>4. LaunchHolds'
  <2>1. Declared /\ phase \in {"declared", "over"}
    BY DEF LaunchHolds, Types, PlanTypes, Quiet
  <2>2. Declared'
    BY <1>1, <2>1 DEF Declared, Types, PlanTypes
  <2> QED
    BY <1>1, <2>1, <2>2 DEF LaunchHolds
<1>5. WorkHolds'
  <2>1. ContractsTruthful'
    BY DEF WorkHolds, ContractsTruthful
  <2>2. ASSUME NEW u \in Dag, queued'[u] # "none" \/ lease'[u] # "UNOWNED"
        PROVE  queued[u] # "none" \/ lease[u] # "UNOWNED"
    BY <1>1, <2>2
  <2> QED
    BY <1>1, <2>1, <2>2, WorkKept
<1> QED
  BY <1>1, <1>2, <1>3, <1>4, <1>5, ControlKept

LEMMA WorkStep ==
  ASSUME Inv, NEW t \in Tasks,
         \/ TakeTask(t) \/ \E outcome \in {"SUCCEEDED", "FAILED"} : PersistExecution(t, outcome)
         \/ MarkProducer(t) \/ FinalizeSingleTask(t) \/ Release(t)
         \/ WorkerException(t) \/ MarkingFails(t) \/ WorkerCancelled(t) \/ WorkerDies(t)
  PROVE  Inv'
<1> USE DEF Inv, controlVars
<1>0. /\ RowTypes /\ TaskHolds(t) /\ crashes \in 0..MaxCrashes /\ run \in {"NONE", "RUNNING", "SUCCEEDED", "FAILED"}
      /\ contract[t] = "SATISFIED" => evidence[t] = "SUCCEEDED"
      /\ contract[t] = "UNMET" => evidence[t] = "FAILED"
      /\ \A n : crashes < MaxCrashes => crashes + 1 \in 0..MaxCrashes
  BY BoundsAssumption DEF Types, PlanTypes, TasksHold, WorkHolds, ContractsTruthful
<1>1. CASE TakeTask(t)
  BY <1>0, <1>1, WorkerStep DEF TakeTask, RowTypes, TaskHolds
<1>2. CASE \E outcome \in {"SUCCEEDED", "FAILED"} : PersistExecution(t, outcome)
  BY <1>0, <1>2, WorkerStep DEF PersistExecution, RowTypes, TaskHolds, Outcomes
<1>3. CASE MarkProducer(t)
  BY <1>0, <1>3, WorkerStep DEF MarkProducer, Marked, RowTypes, TaskHolds, Outcomes
<1>4. CASE FinalizeSingleTask(t)
  BY <1>0, <1>4, WorkerStep DEF FinalizeSingleTask, RowTypes, TaskHolds, Outcomes
<1>5. CASE Release(t)
  BY <1>0, <1>5, WorkerStep DEF Release, RowTypes, TaskHolds, Outcomes
<1>6. CASE WorkerException(t)
  BY <1>0, <1>6, WorkerStep DEF WorkerException, RowTypes, TaskHolds, Outcomes
<1>7. CASE MarkingFails(t)
  BY <1>0, <1>7, WorkerStep DEF MarkingFails, RowTypes, TaskHolds, Outcomes
<1>8. CASE WorkerCancelled(t)
  BY <1>0, <1>8, WorkerStep DEF WorkerCancelled, RowTypes, TaskHolds, Outcomes
<1>9. CASE WorkerDies(t)
  BY <1>0, <1>9, WorkerStep DEF WorkerDies, RowTypes, TaskHolds, Outcomes
<1> QED
  BY <1>1, <1>2, <1>3, <1>4, <1>5, <1>6, <1>7, <1>8, <1>9

-----------------------------------------------------------------------------
LEMMA UnchangedInv ==
  ASSUME Inv, UNCHANGED vars
  PROVE  Inv'
<1> USE DEF Inv, vars, planVars, taskVars, controlVars
<1>1. Dag' = Dag
  BY DEF Dag
<1>2. Types'
  BY <1>1 DEF Types, RowTypes, PlanTypes, ControlTypes
<1>3. TasksHold' /\ LaunchHolds'
  BY <1>1 DEF TasksHold, TaskHolds, LaunchHolds, Quiet, Declared
<1>4. Grows /\ ContractsTruthful'
  BY DEF Grows, WorkHolds, ContractsTruthful
<1> QED
  BY <1>2, <1>3, <1>4, ControlKept, WorkKept

LEMMA NextInv == Inv /\ [Next]_vars => Inv'
<1> SUFFICES ASSUME Inv, [Next]_vars PROVE Inv'
  OBVIOUS
<1>1. CASE Launch
  <2>1. CASE \E p \in Proposals \cup {NoProposal} : phase \in {"planning", "replanning"} /\ PlannerAnswers(p)
    BY <2>1, PlannerAnswersStep
  <2>2. CASE CheckBudget \/ StartRun \/ DeclareContracts \/ DispatchInitial
    BY <2>2, CheckBudgetStep, StartRunStep, DeclareContractsStep, DispatchInitialStep
  <2> QED
    BY <1>1, <2>1, <2>2 DEF Launch
<1>2. CASE LaunchDies
  BY <1>2, LaunchDiesStep
<1>3. CASE \E c \in Controllers : OperatorExecutes(c) \/ Control(c) \/ ControllerDies(c)
  BY <1>3, OperatorExecutesStep, LoadRunStep, ReadLeasesStep, DispatchStep, ControllerDiesStep DEF Control
<1>4. CASE \E t \in Tasks : \/ Work(t) \/ WorkerException(t) \/ MarkingFails(t)
                            \/ WorkerCancelled(t) \/ WorkerDies(t)
  BY <1>4, WorkStep, WorkerAdvancesStep DEF Work
<1>5. CASE UNCHANGED vars
  BY <1>5, UnchangedInv
<1> QED
  BY <1>1, <1>2, <1>3, <1>4, <1>5 DEF Next

LEMMA InvHolds == Spec => []Inv
  BY InitInv, NextInv, PTL DEF Spec

(* Rows and readings keep their types, the planner makes no more calls     *)
(* than it may, and a worker at work holds its lease.                      *)
THEOREM TypeTheorem == Spec => []TypeOK
  BY InvHolds, InvType, PTL

(* Whatever the plan, the number of controllers and the order in which     *)
(* they read the facts: a task is given to a worker only when all it       *)
(* depends on has succeeded, is integrated and satisfies its contracts,    *)
(* and a contract says what the evidence of its producer says.             *)
THEOREM WorkTheorem == Spec => []WorkSound
  BY InvHolds, InvWork, PTL

(* A task with terminal evidence is never dispatched or executed again,    *)
(* and evidence read before the leases never looks corrupt beside them:    *)
(* no task behind a failed one, directly or not, has ever been taken.      *)
THEOREM StaleTheorem == Spec => []StaleFactsHarmless
<1>1. Inv => StaleFactsHarmless
  BY InvNoRerun, InvPlan DEF StaleFactsHarmless
<1> QED
  BY <1>1, InvHolds, PTL

-----------------------------------------------------------------------------
\* blocked_task_ids(F), for every set F of tasks of the plan: the tasks not in
\* F that depend on one in F, directly or through others.
BlockedExact ==
  \A F \in SUBSET Dag :
    BlockedTaskIds(F) = {t \in Dag \ F : \E f \in F : DependsOnTransitively(t, f)}

LEMMA InvBlocked == Inv => BlockedExact
<1> SUFFICES ASSUME Inv, NEW F \in SUBSET Dag
             PROVE  Least(F, {}) = {t \in Dag \ F : \E f \in F : DependsOnTransitively(t, f)}
  BY BlockedIsLeast, DagFinite DEF BlockedExact
<1> DEFINE B == {t \in Dag \ F : \E f \in F : DependsOnTransitively(t, f)}
<1>0. \A t \in Dag : plan[t] \subseteq Dag
  BY DEF Inv, Types, PlanTypes
<1>1. Closed(F, B)
  <2> SUFFICES ASSUME NEW t \in Dag \ F, NEW u \in plan[t], u \in F \cup B
               PROVE  t \in B
    BY DEF Closed, More, DependsOn
  <2>1. CASE u \in F
    BY <2>1 DEF DependsOnTransitively, DependsOn
  <2>2. CASE u \in B
    <3>1. PICK f \in F : DependsOnTransitively(u, f)
      BY <2>2
    <3>2. DependsOnTransitively(t, f)
      BY <3>1 DEF DependsOnTransitively, DependsOn
    <3> QED
      BY <3>2
  <2> QED
    BY <2>1, <2>2
<1>2. Least(F, {}) \subseteq B
  BY <1>1 DEF Least
<1>3. ASSUME NEW t \in Dag \ F, NEW f \in F, DependsOnTransitively(t, f),
             NEW S \in SUBSET Dag, Closed(F, S)
      PROVE  t \in S
  <2> DEFINE U == Dag \ (F \cup S)
  <2>1. \A u \in U : plan[u] \subseteq U
    BY <1>0, <1>3 DEF Closed, More, DependsOn
  <2>2. CASE t \notin S
    BY <1>3, <2>1, <2>2 DEF DependsOnTransitively, DependsOn
  <2> QED
    BY <2>2
<1>4. B \subseteq Least(F, {})
  BY <1>3 DEF Least
<1> QED
  BY <1>2, <1>4

(* The loop of blocked_task_ids ends with exactly the tasks behind those   *)
(* that failed, for every plan that a Run may have.                        *)
THEOREM BlockedTheorem == Spec => []BlockedExact
  BY InvHolds, InvBlocked, PTL

-----------------------------------------------------------------------------
(***************************************************************************)
(* What the topological order of normalize_task_dag is.  The recursive     *)
(* function of Kahn's algorithm exists because every round takes one more  *)
(* task: a solution for the sets with at most n tasks left extends to      *)
(* those with n + 1.                                                       *)
(***************************************************************************)
LEMMA LeastNat ==
  ASSUME NEW S \in SUBSET Nat, S # {}
  PROVE  \E n \in S : \A k \in S : n <= k
<1> DEFINE R == {ss \in Nat \X Nat : ss[1] < ss[2]}
<1>1. IsWellFoundedOn(R, Nat)
  BY NatLess
<1> HIDE DEF R
<1>2. PICK n \in S : \A k \in S : ~(<<k, n>> \in R)
  BY <1>1, WFMin
<1>3. ASSUME NEW k \in S PROVE n <= k
  <2>1. k \in Nat /\ n \in Nat /\ ~(<<k, n>> \in R)
    BY <1>2
  <2>2. ~(k < n)
    BY <2>1 DEF R
  <2> QED
    BY <2>1, <2>2
<1> QED
  BY <1>3

LEMMA MinOf ==
  ASSUME NEW S \in SUBSET Nat, S # {}
  PROVE  Min(S) \in S
  BY LeastNat DEF Min

\* The tasks that Kahn's algorithm may take after those of done.
Free(p, done) == {t \in DOMAIN p \ done : p[t] \subseteq done}
Left(p, done) == Cardinality(DOMAIN p \ done)

\* One round for the sets of D, with f for the rounds that follow.
Kahn(p, D, f) ==
  [done \in D |-> IF Free(p, done) = {} THEN <<>>
                  ELSE <<Min(Free(p, done))>> \o f[done \cup {Min(Free(p, done))}]]
AtMost(p, n) == {done \in SUBSET DOMAIN p : Left(p, done) <= n}

LEMMA LeftType ==
  ASSUME NEW p, IsFiniteSet(DOMAIN p), NEW done \in SUBSET DOMAIN p
  PROVE  Left(p, done) \in Nat /\ Left(p, done) <= Cardinality(DOMAIN p)
<1>1. DOMAIN p \ done \in SUBSET DOMAIN p
  OBVIOUS
<1> QED
  BY <1>1, FS_Subset, FS_CardinalityType DEF Left

LEMMA LeftFewer ==
  ASSUME NEW p, DOMAIN p \subseteq Nat, IsFiniteSet(DOMAIN p),
         NEW done \in SUBSET DOMAIN p, Free(p, done) # {}
  PROVE  /\ Min(Free(p, done)) \in Free(p, done)
         /\ done \cup {Min(Free(p, done))} \in SUBSET DOMAIN p
         /\ Left(p, done \cup {Min(Free(p, done))}) + 1 = Left(p, done)
<1> DEFINE m == Min(Free(p, done))
           A == DOMAIN p \ done
<1>1. m \in Free(p, done)
  <2>1. Free(p, done) \in SUBSET Nat
    BY DEF Free
  <2> QED
    BY <2>1, MinOf
<1>2. m \in A /\ done \cup {m} \in SUBSET DOMAIN p
  BY <1>1 DEF Free
<1>3. DOMAIN p \ (done \cup {m}) = A \ {m}
  BY <1>2
<1>4. IsFiniteSet(A)
  BY FS_Difference
<1>5. Cardinality(A \ {m}) = Cardinality(A) - 1 /\ Cardinality(A) \in Nat
  BY <1>2, <1>4, FS_RemoveElement, FS_CardinalityType
<1> QED
  <2>1. Left(p, done) = Cardinality(A) /\ Left(p, done \cup {m}) = Cardinality(A \ {m})
    BY <1>3 DEF Left
  <2>2. Left(p, done \cup {m}) + 1 = Left(p, done)
    BY <2>1, <1>5
  <2> QED
    BY <1>1, <1>2, <2>2

LEMMA KahnExtends ==
  ASSUME NEW p, DOMAIN p \subseteq Nat, IsFiniteSet(DOMAIN p), NEW n \in Nat,
         NEW f, f = Kahn(p, AtMost(p, n), f)
  PROVE  \E g : g = Kahn(p, AtMost(p, n + 1), g)
<1> DEFINE g == Kahn(p, AtMost(p, n + 1), f)
           m(done) == Min(Free(p, done))
<1>1. ASSUME NEW done \in AtMost(p, n)
      PROVE  done \in AtMost(p, n + 1) /\ g[done] = f[done]
  <2>1. done \in SUBSET DOMAIN p /\ Left(p, done) <= n /\ Left(p, done) \in Nat
    BY LeftType DEF AtMost
  <2>2. done \in AtMost(p, n + 1)
    BY <2>1 DEF AtMost
  <2>3. f[done] = IF Free(p, done) = {} THEN <<>> ELSE <<m(done)>> \o f[done \cup {m(done)}]
    BY DEF Kahn
  <2> QED
    BY <2>2, <2>3 DEF Kahn
<1>2. ASSUME NEW done \in AtMost(p, n + 1), Free(p, done) # {}
      PROVE  g[done \cup {m(done)}] = f[done \cup {m(done)}]
  <2>1. done \in SUBSET DOMAIN p /\ Left(p, done) <= n + 1
    BY DEF AtMost
  <2>2. done \cup {m(done)} \in SUBSET DOMAIN p /\ Left(p, done \cup {m(done)}) + 1 = Left(p, done)
    BY <1>2, <2>1, LeftFewer
  <2>3. Left(p, done \cup {m(done)}) \in Nat
    BY <2>2, LeftType
  <2>4. done \cup {m(done)} \in AtMost(p, n)
    BY <2>1, <2>2, <2>3 DEF AtMost
  <2> QED
    BY <2>4, <1>1
<1>3. g = Kahn(p, AtMost(p, n + 1), g)
  BY <1>2 DEF Kahn
<1> QED
  BY <1>3

LEMMA KahnExists ==
  ASSUME NEW p, DOMAIN p \subseteq Nat, IsFiniteSet(DOMAIN p)
  PROVE  \E f : f = Kahn(p, SUBSET DOMAIN p, f)
<1> DEFINE Bad == {n \in Nat : ~(\E f : f = Kahn(p, AtMost(p, n), f))}
<1>1. \E f : f = Kahn(p, AtMost(p, 0), f)
  <2> DEFINE f == [done \in AtMost(p, 0) |-> <<>>]
  <2>1. ASSUME NEW done \in AtMost(p, 0) PROVE Free(p, done) = {}
    <3>1. done \in SUBSET DOMAIN p /\ Left(p, done) <= 0
      BY DEF AtMost
    <3>2. Left(p, done) = 0
      BY <3>1, LeftType
    <3>3. DOMAIN p \ done = {}
      BY <3>2, FS_Difference, FS_EmptySet DEF Left
    <3> QED
      BY <3>3 DEF Free
  <2>2. f = Kahn(p, AtMost(p, 0), f)
    BY <2>1 DEF Kahn
  <2> QED
    BY <2>2
<1>2. Bad = {}
  <2> SUFFICES ASSUME Bad # {} PROVE FALSE
    OBVIOUS
  <2>1. PICK n \in Bad : \A k \in Bad : n <= k
    BY LeastNat
  <2>2. n # 0
    BY <1>1, <2>1
  <2>3. n - 1 \in Nat /\ n - 1 \notin Bad /\ n \in Nat
    BY <2>1, <2>2
  <2>4. PICK f : f = Kahn(p, AtMost(p, n - 1), f)
    BY <2>3
  <2>5. \E g : g = Kahn(p, AtMost(p, (n - 1) + 1), g)
    BY <2>3, <2>4, KahnExtends
  <2>6. (n - 1) + 1 = n
    BY <2>3
  <2> QED
    BY <2>1, <2>5, <2>6
<1>3. Cardinality(DOMAIN p) \in Nat /\ AtMost(p, Cardinality(DOMAIN p)) = SUBSET DOMAIN p
  BY LeftType, FS_CardinalityType DEF AtMost
<1> QED
  BY <1>2, <1>3

\* s is what the algorithm lists once the tasks of done are out.
Upto(s, n) == {s[j] : j \in 1..n}
Lists(p, done, s) ==
  /\ s \in Seq(DOMAIN p)
  /\ \A i \in 1..Len(s) : s[i] \in Free(p, done \cup Upto(s, i - 1))
  /\ Free(p, done \cup Upto(s, Len(s))) = {}

LEMMA ListsCons ==
  ASSUME NEW p, NEW done \in SUBSET DOMAIN p, NEW m \in Free(p, done), NEW s,
         Lists(p, done \cup {m}, s)
  PROVE  Lists(p, done, <<m>> \o s)
<1> DEFINE u == <<m>> \o s
<1>1. s \in Seq(DOMAIN p) /\ m \in DOMAIN p
  BY DEF Lists, Free
<1>2. /\ u \in Seq(DOMAIN p) /\ Len(u) = Len(s) + 1 /\ Len(s) \in Nat
      /\ u[1] = m
      /\ \A i \in 1..Len(s) : u[i + 1] = s[i]
  BY <1>1
<1> HIDE DEF u
<1>3. ASSUME NEW i \in 0..Len(s)
      PROVE  done \cup Upto(u, i + 1) = (done \cup {m}) \cup Upto(s, i)
  <2>1. ASSUME NEW x \in Upto(u, i + 1) PROVE x \in {m} \cup Upto(s, i)
    <3>1. PICK j \in 1..(i + 1) : x = u[j]
      BY <2>1 DEF Upto
    <3>2. CASE j = 1
      BY <3>1, <3>2, <1>2
    <3>3. CASE j # 1
      <4>1. j - 1 \in 1..i /\ j - 1 \in 1..Len(s) /\ (j - 1) + 1 = j
        BY <3>3, <1>2
      <4>2. x = s[j - 1]
        BY <4>1, <3>1, <1>2
      <4> QED
        BY <4>1, <4>2 DEF Upto
    <3> QED
      BY <3>2, <3>3
  <2>2. m \in Upto(u, i + 1)
    <3>1. 1 \in 1..(i + 1)
      BY <1>2
    <3> QED
      BY <3>1, <1>2 DEF Upto
  <2>3. ASSUME NEW x \in Upto(s, i) PROVE x \in Upto(u, i + 1)
    <3>1. PICK j \in 1..i : x = s[j]
      BY <2>3 DEF Upto
    <3>2. j + 1 \in 1..(i + 1) /\ j \in 1..Len(s)
      BY <1>2
    <3>3. x = u[j + 1]
      BY <3>1, <3>2, <1>2
    <3> QED
      BY <3>2, <3>3 DEF Upto
  <2> QED
    BY <2>1, <2>2, <2>3
<1>4. ASSUME NEW i \in 1..Len(u) PROVE u[i] \in Free(p, done \cup Upto(u, i - 1))
  <2>1. CASE i = 1
    <3>1. Upto(u, i - 1) = {}
      BY <2>1 DEF Upto
    <3>2. done \cup Upto(u, i - 1) = done
      BY <3>1
    <3> QED
      BY <2>1, <3>2, <1>2
  <2>2. CASE i # 1
    <3>1. i - 1 \in 1..Len(s) /\ (i - 1) - 1 \in 0..Len(s) /\ ((i - 1) - 1) + 1 = i - 1 /\ (i - 1) + 1 = i
      BY <2>2, <1>2
    <3>2. s[i - 1] \in Free(p, (done \cup {m}) \cup Upto(s, (i - 1) - 1))
      BY <3>1 DEF Lists
    <3>3. done \cup Upto(u, i - 1) = (done \cup {m}) \cup Upto(s, (i - 1) - 1)
      BY <3>1, <1>3
    <3>4. u[i] = s[i - 1]
      BY <3>1, <1>2
    <3> QED
      BY <3>2, <3>3, <3>4
  <2> QED
    BY <2>1, <2>2
<1>5. Free(p, done \cup Upto(u, Len(u))) = {}
  <2>1. Len(s) \in 0..Len(s)
    BY <1>2
  <2>2. done \cup Upto(u, Len(u)) = (done \cup {m}) \cup Upto(s, Len(s))
    BY <2>1, <1>2, <1>3
  <2> QED
    BY <2>2 DEF Lists
<1> QED
  BY <1>2, <1>4, <1>5 DEF Lists, u

LEMMA OrderLists ==
  ASSUME NEW p, DOMAIN p \subseteq Nat, IsFiniteSet(DOMAIN p)
  PROVE  Lists(p, {}, TopologicalOrder(p))
<1> DEFINE rest == CHOOSE f : f = Kahn(p, SUBSET DOMAIN p, f)
<1>1. TopologicalOrder(p) = rest[{}]
  BY DEF TopologicalOrder, Kahn, Free
<1>2. rest = Kahn(p, SUBSET DOMAIN p, rest)
  BY KahnExists, Zenon
<1> HIDE DEF rest
<1> DEFINE Bad == {done \in SUBSET DOMAIN p : ~Lists(p, done, rest[done])}
           Sizes == {Left(p, done) : done \in Bad}
<1>3. Bad = {}
  <2> SUFFICES ASSUME Bad # {} PROVE FALSE
    OBVIOUS
  <2>1. Sizes \in SUBSET Nat /\ Sizes # {}
    BY LeftType
  <2>2. PICK n \in Sizes : \A k \in Sizes : n <= k
    BY <2>1, LeastNat
  <2>3. PICK done \in Bad : n = Left(p, done)
    BY <2>2
  <2> DEFINE m == Min(Free(p, done))
  <2>4. rest[done] = IF Free(p, done) = {} THEN <<>> ELSE <<m>> \o rest[done \cup {m}]
    <3>1. Kahn(p, SUBSET DOMAIN p, rest)[done]
            = IF Free(p, done) = {} THEN <<>> ELSE <<m>> \o rest[done \cup {m}]
      BY <2>3 DEF Kahn
    <3> QED
      BY <3>1, <1>2
  <2>5. CASE Free(p, done) = {}
    <3>1. rest[done] = <<>>
      BY <2>4, <2>5
    <3>2. done \cup Upto(<<>>, 0) = done
      BY DEF Upto
    <3>3. Lists(p, done, <<>>)
      <4>1. <<>> \in Seq(DOMAIN p) /\ Len(<<>>) = 0 /\ 1..0 = {}
        OBVIOUS
      <4> QED
        BY <2>5, <3>2, <4>1 DEF Lists
    <3> QED
      BY <2>3, <3>1, <3>3
  <2>6. CASE Free(p, done) # {}
    <3>1. /\ m \in Free(p, done) /\ done \cup {m} \in SUBSET DOMAIN p
          /\ Left(p, done \cup {m}) + 1 = Left(p, done)
      BY <2>6, <2>3, LeftFewer
    <3>2. done \cup {m} \notin Bad
      <4>1. Left(p, done \cup {m}) \in Nat
        BY <3>1, LeftType
      <4>2. ~(n <= Left(p, done \cup {m}))
        BY <4>1, <3>1, <2>3
      <4> QED
        BY <4>2, <2>2
    <3>3. Lists(p, done \cup {m}, rest[done \cup {m}])
      BY <3>1, <3>2
    <3>4. Lists(p, done, <<m>> \o rest[done \cup {m}])
      BY <2>3, <3>1, <3>3, ListsCons
    <3> QED
      BY <2>3, <2>4, <2>6, <3>4
  <2> QED
    BY <2>5, <2>6
<1>4. {} \in SUBSET DOMAIN p
  OBVIOUS
<1> QED
  BY <1>1, <1>3, <1>4

-----------------------------------------------------------------------------
(***************************************************************************)
(* The order of a plan that passed validation: every task once, after all  *)
(* that it depends on.                                                     *)
(***************************************************************************)
Ordered == Lists(plan, {}, order) /\ Len(order) = Cardinality(Dag)

LEMMA UptoSucc ==
  ASSUME NEW s, NEW k \in Nat
  PROVE  Upto(s, k + 1) = Upto(s, k) \cup {s[k + 1]}
<1>1. 1..(k + 1) = (1..k) \cup {k + 1}
  OBVIOUS
<1> QED
  BY <1>1 DEF Upto

LEMMA ListedOnce ==
  ASSUME NEW p, NEW s, Lists(p, {}, s), NEW i \in 1..Len(s), NEW j \in 1..Len(s), s[i] = s[j]
  PROVE  i = j
<1>0. Len(s) \in Nat
  BY DEF Lists
<1>1. ASSUME NEW a \in 1..Len(s), NEW b \in 1..Len(s), a < b PROVE s[a] # s[b]
  <2>1. s[b] \notin Upto(s, b - 1)
    BY DEF Lists, Free
  <2>2. a \in 1..(b - 1)
    BY <1>0, <1>1
  <2> QED
    BY <2>1, <2>2 DEF Upto
<1>2. ~(i < j) /\ ~(j < i)
  BY <1>1
<1> QED
  BY <1>0, <1>2

LEMMA UptoSize ==
  ASSUME NEW p, NEW s, Lists(p, {}, s), NEW k0 \in 0..Len(s)
  PROVE  IsFiniteSet(Upto(s, k0)) /\ Cardinality(Upto(s, k0)) = k0
<1> DEFINE Good(k) == IsFiniteSet(Upto(s, k)) /\ Cardinality(Upto(s, k)) = k
           Bad == {k \in 0..Len(s) : ~Good(k)}
<1>0. Len(s) \in Nat
  BY DEF Lists
<1>1. Good(0)
  <2>1. Upto(s, 0) = {}
    BY DEF Upto
  <2> QED
    BY <2>1, FS_EmptySet
<1>2. Bad = {}
  <2> SUFFICES ASSUME Bad # {} PROVE FALSE
    OBVIOUS
  <2>0. Bad \in SUBSET Nat
    BY <1>0
  <2>1. PICK k \in Bad : \A j \in Bad : k <= j
    BY <2>0, LeastNat
  <2> HIDE DEF Good
  <2>2. k # 0
    BY <1>1, <2>1
  <2>3. k \in 1..Len(s) /\ k - 1 \in Nat /\ k - 1 \in 0..Len(s) /\ ~(k <= k - 1) /\ (k - 1) + 1 = k
    BY <1>0, <2>1, <2>2
  <2>4. Good(k - 1)
    BY <2>1, <2>3
  <2>5. Upto(s, k) = Upto(s, k - 1) \cup {s[k]}
    BY <2>3, UptoSucc
  <2>6. s[k] \notin Upto(s, k - 1)
    BY <2>3 DEF Lists, Free
  <2>7. IsFiniteSet(Upto(s, k)) /\ Cardinality(Upto(s, k)) = Cardinality(Upto(s, k - 1)) + 1
    BY <2>4, <2>5, <2>6, FS_AddElement DEF Good
  <2>8. Good(k)
    BY <2>3, <2>4, <2>7 DEF Good
  <2> QED
    BY <2>1, <2>8
<1> QED
  BY <1>2

LEMMA OrderFacts ==
  ASSUME Inv, Ordered
  PROVE  /\ order \in Seq(Dag) /\ Len(order) \in Nat
         /\ Upto(order, Len(order)) = Dag
         /\ \A i \in 1..Len(order) : /\ order[i] \in Dag /\ order[i] \notin Upto(order, i - 1)
                                     /\ plan[order[i]] \subseteq Upto(order, i - 1)
         /\ \A i, j \in 1..Len(order) : order[i] = order[j] => i = j
<1>1. order \in Seq(Dag) /\ Len(order) \in Nat
  BY DEF Ordered, Lists, Dag
<1>2. \A i, j \in 1..Len(order) : order[i] = order[j] => i = j
  BY ListedOnce DEF Ordered
<1>3. \A i \in 1..Len(order) : /\ order[i] \in Dag /\ order[i] \notin Upto(order, i - 1)
                               /\ plan[order[i]] \subseteq Upto(order, i - 1)
  BY DEF Ordered, Lists, Free, Dag
<1>4. Upto(order, Len(order)) = Dag
  <2>1. Upto(order, Len(order)) \in SUBSET Dag
    BY <1>3 DEF Upto
  <2>2. Len(order) \in 0..Len(order)
    BY <1>1
  <2>3. Cardinality(Upto(order, Len(order))) = Cardinality(Dag)
    BY <2>2, UptoSize DEF Ordered
  <2> QED
    BY <2>1, <2>3, DagFinite, FS_Subset
<1> QED
  BY <1>1, <1>2, <1>3, <1>4

LEMMA PositionOf ==
  ASSUME Inv, Ordered, NEW t \in Dag
  PROVE  Position(t) \in 1..Len(order) /\ order[Position(t)] = t
<1>1. \E i \in 1..Len(order) : order[i] = t
  BY OrderFacts DEF Upto
<1> QED
  BY <1>1 DEF Position

LEMMA DependsEarlier ==
  ASSUME Inv, Ordered, NEW t \in Dag, NEW u \in plan[t]
  PROVE  u \in Dag /\ Position(u) < Position(t)
<1>1. u \in Dag
  BY DEF Inv, Types, PlanTypes
<1>2. Position(t) \in 1..Len(order) /\ order[Position(t)] = t
  BY PositionOf
<1>3. u \in Upto(order, Position(t) - 1)
  BY <1>2, OrderFacts
<1>4. PICK j \in 1..(Position(t) - 1) : u = order[j]
  BY <1>3 DEF Upto
<1>5. Position(u) \in 1..Len(order) /\ order[Position(u)] = u
  BY <1>1, PositionOf
<1>6. Len(order) \in Nat
  BY OrderFacts
<1>7. j \in 1..Len(order) /\ j < Position(t)
  BY <1>2, <1>4, <1>6
<1>8. j = Position(u)
  BY <1>4, <1>5, <1>7, OrderFacts
<1> QED
  BY <1>1, <1>7, <1>8

LEMMA OrderedPlan == Inv /\ Ordered => PlanIsOrdered
<1> SUFFICES ASSUME Inv, Ordered PROVE PlanIsOrdered
  OBVIOUS
<1>1. ToSet(order) = Dag
  <2>1. ToSet(order) = Upto(order, Len(order))
    BY OrderFacts DEF ToSet, Upto
  <2> QED
    BY <2>1, OrderFacts
<1>2. \A t \in Dag : \A u \in DependsOn(t) : Position(u) < Position(t)
  BY DependsEarlier DEF DependsOn
<1>3. ASSUME NEW t \in Dag, DependsOnTransitively(t, t) PROVE FALSE
  <2> DEFINE S == {u \in Dag : Position(u) < Position(t)}
  <2>1. DependsOn(t) \subseteq S
    BY DependsEarlier DEF DependsOn
  <2>2. \A u \in S : DependsOn(u) \subseteq S
    <3> SUFFICES ASSUME NEW u \in S, NEW v \in plan[u] PROVE v \in S
      BY DEF DependsOn
    <3>1. v \in Dag /\ Position(v) < Position(u)
      BY DependsEarlier
    <3>2. Position(v) \in 1..Len(order) /\ Position(u) \in 1..Len(order) /\ Position(t) \in 1..Len(order)
      BY <3>1, PositionOf
    <3>3. Position(u) < Position(t)
      OBVIOUS
    <3>4. Position(v) < Position(t)
      BY <3>1, <3>2, <3>3, OrderFacts
    <3> QED
      BY <3>1, <3>4
  <2>3. t \in S
    BY <1>3, <2>1, <2>2 DEF DependsOnTransitively
  <2>4. Position(t) \in 1..Len(order) /\ Len(order) \in Nat
    BY PositionOf, OrderFacts
  <2> QED
    BY <2>3, <2>4
<1> QED
  BY <1>1, <1>2, <1>3 DEF PlanIsOrdered, Ordered

LEMMA InitOrdered == Init => Ordered
<1> SUFFICES ASSUME Init PROVE Ordered
  OBVIOUS
<1>1. plan = <<>> /\ order = <<>> /\ DOMAIN plan = {}
  BY DEF Init
<1>2. Lists(plan, {}, order)
  BY <1>1 DEF Lists, Free
<1>3. Cardinality({}) = 0
  BY FS_EmptySet
<1> QED
  BY <1>1, <1>2, <1>3 DEF Ordered, Dag

(* Only the planner's answer and the refusal of a plan change the order;   *)
(* the order a Run starts with stays.                                      *)
LEMMA OrderedStep == Inv /\ Ordered /\ [Next]_vars => Ordered'
<1> SUFFICES ASSUME Inv, Ordered, [Next]_vars PROVE Ordered'
  OBVIOUS
<1>1. CASE UNCHANGED <<plan, order>>
  BY <1>1 DEF Ordered, Lists, Free, Upto, Dag
<1>2. CASE plan' = <<>> /\ order' = <<>>
  <2>1. DOMAIN plan' = {}
    BY <1>2
  <2>2. Lists(plan', {}, order')
    BY <1>2, <2>1 DEF Lists, Free
  <2> QED
    BY <1>2, <2>1, <2>2, FS_EmptySet DEF Ordered, Dag
<1>3. ASSUME NEW p \in Proposals \cup {NoProposal}, PlannerAnswers(p) PROVE Ordered'
  <2>1. CASE plan' = p /\ p # NoProposal /\ Validated(p) /\ order' = TopologicalOrder(p)
    <3>1. PICK T \in (SUBSET Tasks) \ {{}} : p \in [T -> SUBSET Tasks]
      BY <2>1 DEF Proposals
    <3>2. DOMAIN p \subseteq Nat /\ IsFiniteSet(DOMAIN p)
      BY <3>1, TasksAssumption, FS_Subset
    <3>3. Lists(p, {}, TopologicalOrder(p))
      BY <3>2, OrderLists
    <3>4. Len(TopologicalOrder(p)) = Cardinality(DOMAIN p)
      BY <2>1 DEF Validated
    <3> QED
      BY <2>1, <3>3, <3>4 DEF Ordered, Dag
  <2> QED
    BY <1>1, <1>3, <2>1 DEF PlannerAnswers
<1>4. CASE CheckBudget
  BY <1>4, <1>1, <1>2 DEF CheckBudget
<1>5. CASE StartRun \/ DeclareContracts \/ DispatchInitial \/ LaunchDies
  BY <1>5, <1>1 DEF StartRun, DeclareContracts, DispatchInitial, LaunchDies
<1>6. CASE \E c \in Controllers : OperatorExecutes(c) \/ Control(c) \/ ControllerDies(c)
  BY <1>6, <1>1 DEF planVars, OperatorExecutes, Control, LoadRun, ReadLeases, Dispatch, ControllerDies
<1>7. CASE \E t \in Tasks : \/ Work(t) \/ WorkerException(t) \/ MarkingFails(t)
                            \/ WorkerCancelled(t) \/ WorkerDies(t)
  BY <1>7, <1>1 DEF planVars, Work, TakeTask, PersistExecution, MarkProducer, FinalizeSingleTask,
                    Release, WorkerAdvances, WorkerException, MarkingFails, WorkerCancelled, WorkerDies
<1>8. CASE UNCHANGED vars
  BY <1>8, <1>1 DEF vars, planVars
<1> QED
  BY <1>3, <1>4, <1>5, <1>6, <1>7, <1>8 DEF Next, Launch

-----------------------------------------------------------------------------
(***************************************************************************)
(* The recursive reference of FrontiersAgree: the ancestors of a task are  *)
(* the tasks it depends on, directly or through others.                    *)
(***************************************************************************)
Ancestors(f) == [t \in Dag |-> DependsOn(t) \cup UNION {f[u] : u \in DependsOn(t)}]
Reached(t) == {u \in Dag : DependsOnTransitively(t, u)}

LEMMA ReachedUnfolds ==
  ASSUME Inv, NEW t \in Dag
  PROVE  Reached(t) = DependsOn(t) \cup UNION {Reached(u) : u \in DependsOn(t)}
<1> DEFINE A == DependsOn(t) \cup UNION {Reached(u) : u \in DependsOn(t)}
<1>0. \A u \in Dag : DependsOn(u) \subseteq Dag
  BY DEF Inv, Types, PlanTypes, DependsOn
<1>1. A \in SUBSET Dag
  BY <1>0 DEF Reached
<1>2. ASSUME NEW v \in Dag, NEW u \in Reached(v)
      PROVE  DependsOn(u) \subseteq Reached(v)
  BY <1>0, <1>2 DEF Reached, DependsOnTransitively
<1>3. ASSUME NEW v \in Dag
      PROVE  DependsOn(v) \subseteq Reached(v)
  BY <1>0 DEF Reached, DependsOnTransitively
<1>4. ASSUME NEW u \in DependsOn(t), NEW v \in Reached(u)
      PROVE  v \in Reached(t)
  <2> SUFFICES ASSUME NEW S \in SUBSET Dag, DependsOn(t) \subseteq S, \A w \in S : DependsOn(w) \subseteq S
               PROVE  v \in S
    BY <1>4 DEF Reached, DependsOnTransitively
  <2> QED
    BY <1>4 DEF Reached, DependsOnTransitively
<1>5. A \subseteq Reached(t)
  BY <1>3, <1>4
<1>6. DependsOn(t) \subseteq A
  OBVIOUS
<1>7. ASSUME NEW u \in A PROVE DependsOn(u) \subseteq A
  <2>1. CASE u \in DependsOn(t)
    BY <1>0, <1>3, <2>1
  <2>2. CASE \E v \in DependsOn(t) : u \in Reached(v)
    BY <1>0, <1>2, <2>2
  <2> QED
    BY <1>7, <2>1, <2>2
<1>8. Reached(t) \subseteq A
  BY <1>1, <1>6, <1>7 DEF Reached, DependsOnTransitively
<1> QED
  BY <1>5, <1>8

LEMMA AncestorsReached ==
  ASSUME Inv, Ordered, NEW t0 \in Dag
  PROVE  (CHOOSE f : f = Ancestors(f))[t0] = Reached(t0)
<1> DEFINE g == [t \in Dag |-> Reached(t)]
           anc == CHOOSE f : f = Ancestors(f)
<1>0. \A u \in Dag : DependsOn(u) \subseteq Dag
  BY DEF Inv, Types, PlanTypes, DependsOn
<1>1. g = Ancestors(g)
  <2>1. ASSUME NEW t \in Dag
        PROVE  g[t] = DependsOn(t) \cup UNION {g[u] : u \in DependsOn(t)}
    <3>1. {g[u] : u \in DependsOn(t)} = {Reached(u) : u \in DependsOn(t)}
      BY <1>0
    <3> QED
      BY <3>1, ReachedUnfolds
  <2> QED
    BY <2>1 DEF Ancestors
<1>2. anc = Ancestors(anc)
  <2>1. \E f : f = Ancestors(f)
    BY <1>1
  <2> QED
    BY <2>1, Zenon
<1> HIDE DEF anc
<1> DEFINE Bad == {t \in Dag : anc[t] # Reached(t)}
           Places == {Position(t) : t \in Bad}
<1>3. Bad = {}
  <2> SUFFICES ASSUME Bad # {} PROVE FALSE
    OBVIOUS
  <2>1. Places \in SUBSET Nat /\ Places # {}
    BY PositionOf, OrderFacts
  <2>2. PICK n \in Places : \A k \in Places : n <= k
    BY <2>1, LeastNat
  <2>3. PICK t \in Bad : n = Position(t)
    BY <2>2
  <2>4. ASSUME NEW u \in DependsOn(t) PROVE anc[u] = Reached(u)
    <3>1. u \in Dag /\ Position(u) < Position(t)
      BY <2>3, DependsEarlier DEF DependsOn
    <3>2. Position(u) \in Nat /\ Position(t) \in Nat
      <4>1. t \in Dag /\ Len(order) \in Nat
        BY <2>3, OrderFacts
      <4>2. Position(u) \in 1..Len(order) /\ Position(t) \in 1..Len(order)
        BY <3>1, <4>1, PositionOf
      <4> QED
        BY <4>1, <4>2
    <3>3. ~(n <= Position(u))
      BY <2>3, <3>1, <3>2
    <3> QED
      BY <2>2, <3>1, <3>3
  <2>5. anc[t] = DependsOn(t) \cup UNION {anc[u] : u \in DependsOn(t)}
    <3>1. Ancestors(anc)[t] = DependsOn(t) \cup UNION {anc[u] : u \in DependsOn(t)}
      BY <2>3 DEF Ancestors
    <3> QED
      BY <3>1, <1>2
  <2>6. {anc[u] : u \in DependsOn(t)} = {Reached(u) : u \in DependsOn(t)}
    BY <2>4
  <2> QED
    BY <2>3, <2>5, <2>6, ReachedUnfolds
<1> QED
  BY <1>3 DEF anc

-----------------------------------------------------------------------------
(***************************************************************************)
(* The fold of _reconstruct_scheduler over the stored order.               *)
(***************************************************************************)
Fresh == RefreshReady([succeeded |-> {}, failed |-> {}, blocked |-> {}, ready |-> {}, corrupt |-> FALSE])

\* What the scheduler does with the evidence of task t.
Replay(s, t) == CASE evidence[t] = "NONE" -> s
                  [] evidence[t] = "SUCCEEDED" -> Succeed(s, t)
                  [] evidence[t] = "FAILED" -> Fail(s, t)

\* The fold, for the sets of places within D.
Fold(D, f) == [s \in D |-> IF s = {} THEN Fresh ELSE Replay(f[s \ {Max(s)}], order[Max(s)])]

LEMMA MaxOf ==
  ASSUME NEW n \in Nat, NEW S \in SUBSET (1..n), S # {}
  PROVE  Max(S) \in S /\ \A x \in S : x <= Max(S)
<1> DEFINE D == {n - x : x \in S}
<1>1. D \in SUBSET Nat /\ D # {}
  <2>1. \A x \in S : n - x \in Nat
    OBVIOUS
  <2>2. PICK x \in S : TRUE
    OBVIOUS
  <2> QED
    BY <2>1, <2>2
<1>2. PICK d \in D : \A k \in D : d <= k
  BY <1>1, LeastNat
<1>3. PICK m \in S : d = n - m
  BY <1>2
<1>4. ASSUME NEW x \in S PROVE m >= x
  <2>1. d <= n - x
    BY <1>2
  <2> QED
    BY <1>3, <2>1
<1>5. \E x \in S : \A y \in S : x >= y
  BY <1>4
<1>6. Max(S) \in S /\ \A x \in S : Max(S) >= x
  BY <1>5 DEF Max
<1> QED
  BY <1>6

LEMMA FoldExtends ==
  ASSUME NEW n \in Nat, NEW f, f = Fold(SUBSET (1..n), f)
  PROVE  \E g : g = Fold(SUBSET (1..(n + 1)), g)
<1> DEFINE g == Fold(SUBSET (1..(n + 1)), f)
<1>1. ASSUME NEW s \in SUBSET (1..n) PROVE g[s] = f[s]
  <2>1. s \in SUBSET (1..(n + 1))
    OBVIOUS
  <2>2. f[s] = IF s = {} THEN Fresh ELSE Replay(f[s \ {Max(s)}], order[Max(s)])
    BY DEF Fold
  <2> QED
    BY <2>1, <2>2 DEF Fold
<1>2. ASSUME NEW s \in SUBSET (1..(n + 1)), s # {} PROVE g[s \ {Max(s)}] = f[s \ {Max(s)}]
  <2>1. Max(s) \in s /\ \A x \in s : x <= Max(s)
    <3>1. n + 1 \in Nat
      OBVIOUS
    <3> QED
      BY <1>2, <3>1, MaxOf
  <2>2. s \ {Max(s)} \in SUBSET (1..n)
    <3> SUFFICES ASSUME NEW x \in s, x # Max(s) PROVE x \in 1..n
      OBVIOUS
    <3>1. x \in 1..(n + 1) /\ Max(s) \in 1..(n + 1) /\ x <= Max(s)
      BY <2>1
    <3> QED
      BY <3>1
  <2> QED
    BY <2>2, <1>1
<1>3. g = Fold(SUBSET (1..(n + 1)), g)
  BY <1>2 DEF Fold
<1> QED
  BY <1>3

LEMMA FoldExists ==
  ASSUME NEW n0 \in Nat
  PROVE  \E f : f = Fold(SUBSET (1..n0), f)
<1> DEFINE Bad == {n \in Nat : ~(\E f : f = Fold(SUBSET (1..n), f))}
<1>1. \E f : f = Fold(SUBSET (1..0), f)
  <2> DEFINE f == [s \in SUBSET (1..0) |-> Fresh]
  <2>1. f = Fold(SUBSET (1..0), f)
    BY DEF Fold
  <2> QED
    BY <2>1
<1>2. Bad = {}
  <2> SUFFICES ASSUME Bad # {} PROVE FALSE
    OBVIOUS
  <2>1. PICK n \in Bad : \A k \in Bad : n <= k
    BY LeastNat
  <2>2. n # 0
    BY <1>1, <2>1
  <2>3. n - 1 \in Nat /\ n - 1 \notin Bad /\ n \in Nat /\ (n - 1) + 1 = n
    <3>1. n \in Nat /\ n - 1 \in Nat /\ ~(n <= n - 1) /\ (n - 1) + 1 = n
      BY <2>1, <2>2
    <3> QED
      BY <2>1, <3>1
  <2>4. PICK f : f = Fold(SUBSET (1..(n - 1)), f)
    BY <2>3
  <2>5. \E g : g = Fold(SUBSET (1..((n - 1) + 1)), g)
    BY <2>3, <2>4, FoldExtends
  <2> QED
    BY <2>1, <2>3, <2>5
<1> QED
  BY <1>2

\* The tasks that succeeded and failed among the first k of the order, and
\* (After) the scheduler once these are replayed.
Done(k) == Upto(order, k) \cap CompletedIn(evidence)
Lost(k) == Upto(order, k) \cap FailedIn(evidence)

\* The record of a scheduler, and its corrupt field as long as nothing is wrong.
State(succeeded, failed, blocked, ready, corrupt) ==
  [succeeded |-> succeeded, failed |-> failed, blocked |-> blocked, ready |-> ready, corrupt |-> corrupt]
Clean == FALSE

After(k) == State(Done(k), Lost(k), BlockedTaskIds(Lost(k)), ReadyTaskIds(Done(k), Lost(k)), Clean)

LEMMA StateFields ==
  ASSUME NEW a, NEW b, NEW c, NEW d, NEW e
  PROVE  /\ State(a, b, c, d, e).succeeded = a /\ State(a, b, c, d, e).failed = b
         /\ State(a, b, c, d, e).blocked = c /\ State(a, b, c, d, e).ready = d
         /\ State(a, b, c, d, e).corrupt = e
  BY DEF State

LEMMA RefreshState ==
  ASSUME NEW a, NEW b, NEW c, NEW d, NEW e
  PROVE  RefreshReady(State(a, b, c, d, e)) = State(a, b, c, ReadyTaskIds(a, b), e)
  BY DEF State, RefreshReady

LEMMA CleanFalse == Clean = FALSE
  BY DEF Clean

(* start and succeed, start and fail of a task that is READY, with nothing *)
(* but PENDING tasks behind it.                                            *)
LEMMA SucceedState ==
  ASSUME NEW a, NEW b, NEW c, NEW d, NEW t \in d
  PROVE  Succeed(State(a, b, c, d, Clean), t) = State(a \cup {t}, b, c, ReadyTaskIds(a \cup {t}, b), Clean)
<1> DEFINE s == State(a, b, c, d, Clean)
<1>0. s.succeeded = a /\ s.ready = d /\ s.corrupt = Clean
  BY StateFields
<1>1. s.succeeded = a /\ (s.corrupt \/ t \notin s.ready) = Clean
  BY <1>0, CleanFalse
<1> HIDE DEF s
<1>2. [s EXCEPT !.succeeded = @ \cup {t}, !.corrupt = @ \/ t \notin s.ready]
        = [[s EXCEPT !.succeeded = a \cup {t}] EXCEPT !.corrupt = Clean]
  BY <1>1
<1>3. [[s EXCEPT !.succeeded = a \cup {t}] EXCEPT !.corrupt = Clean] = State(a \cup {t}, b, c, d, Clean)
  <2>1. [s EXCEPT !.succeeded = a \cup {t}] = State(a \cup {t}, b, c, d, Clean)
    BY DEF State, s
  <2>2. [State(a \cup {t}, b, c, d, Clean) EXCEPT !.corrupt = Clean] = State(a \cup {t}, b, c, d, Clean)
    BY DEF State
  <2> QED
    BY <2>1, <2>2, Zenon
<1>4. RefreshReady(State(a \cup {t}, b, c, d, Clean))
        = State(a \cup {t}, b, c, ReadyTaskIds(a \cup {t}, b), Clean)
  BY RefreshState
<1>5. Succeed(s, t) = RefreshReady([s EXCEPT !.succeeded = @ \cup {t}, !.corrupt = @ \/ t \notin s.ready])
  BY DEF Succeed
<1> QED
  BY <1>2, <1>3, <1>4, <1>5 DEF s

LEMMA FailState ==
  ASSUME NEW a, NEW b, NEW c, NEW d, NEW t \in d, BlockedTaskIds(b \cup {t}) \cap (a \cup d) = {}
  PROVE  Fail(State(a, b, c, d, Clean), t)
           = State(a, b \cup {t}, BlockedTaskIds(b \cup {t}), d \ {t}, Clean)
<1> DEFINE s == State(a, b, c, d, Clean)
           B == BlockedTaskIds(b \cup {t})
<1>0. s.failed = b /\ s.ready = d /\ s.succeeded = a /\ s.corrupt = Clean
  BY StateFields
<1>1. /\ s.failed = b /\ s.ready = d /\ s.succeeded = a
      /\ (s.corrupt \/ t \notin s.ready \/ B \cap (s.succeeded \cup s.ready) # {}) = Clean
  BY <1>0, CleanFalse
<1> HIDE DEF s
<1>2. Fail(s, t) = [[[[s EXCEPT !.failed = b \cup {t}] EXCEPT !.ready = d \ {t}] EXCEPT !.blocked = B]
                       EXCEPT !.corrupt = Clean]
  <2>1. BlockedTaskIds(s.failed \cup {t}) = B
    BY <1>1
  <2> HIDE DEF B
  <2> QED
    BY <1>1, <2>1 DEF Fail
<1>3. [[[[s EXCEPT !.failed = b \cup {t}] EXCEPT !.ready = d \ {t}] EXCEPT !.blocked = B]
                       EXCEPT !.corrupt = Clean] = State(a, b \cup {t}, B, d \ {t}, Clean)
  <2> HIDE DEF B
  <2>1. [s EXCEPT !.failed = b \cup {t}] = State(a, b \cup {t}, c, d, Clean)
    BY DEF State, s
  <2>2. [State(a, b \cup {t}, c, d, Clean) EXCEPT !.ready = d \ {t}] = State(a, b \cup {t}, c, d \ {t}, Clean)
    BY DEF State
  <2>3. [State(a, b \cup {t}, c, d \ {t}, Clean) EXCEPT !.blocked = B] = State(a, b \cup {t}, B, d \ {t}, Clean)
    BY DEF State
  <2>4. [State(a, b \cup {t}, B, d \ {t}, Clean) EXCEPT !.corrupt = Clean] = State(a, b \cup {t}, B, d \ {t}, Clean)
    BY DEF State
  <2> QED
    BY <2>1, <2>2, <2>3, <2>4, Zenon
<1> QED
  BY <1>2, <1>3 DEF s

(* A blocked task depends on one that did not succeed: tasks with evidence *)
(* had all their dependencies.                                             *)
LEMMA BlockedUnbacked ==
  ASSUME Inv, NEW F \in SUBSET FailedIn(evidence), NEW t \in BlockedTaskIds(F)
  PROVE  t \in Dag /\ \E u \in plan[t] : u \in Dag /\ evidence[u] # "SUCCEEDED"
<1> DEFINE S == {v \in Dag : \E u \in plan[v] : u \in Dag /\ evidence[u] # "SUCCEEDED"}
<1>1. Closed(F, S)
  <2> SUFFICES ASSUME NEW v \in Dag \ F, NEW u \in plan[v], u \in F \cup S
               PROVE  v \in S
    BY DEF Closed, More, DependsOn
  <2>0. u \in Dag /\ v \in Dag
    BY DEF Inv, Types, PlanTypes
  <2>1. CASE u \in F
    BY <2>0, <2>1 DEF FailedIn
  <2>2. CASE u \in S
    <3>1. evidence[u] = "NONE"
      <4>1. PICK w \in plan[u] : w \in Dag /\ evidence[w] # "SUCCEEDED"
        BY <2>2
      <4>2. CASE evidence[u] # "NONE"
        <5>1. lease[u] # "UNOWNED"
          BY <2>0, <4>2 DEF Inv, Types, PlanTypes, TasksHold, TaskHolds
        <5>2. plan[u] \subseteq CompletedIn(evidence)
          BY <2>0, <5>1 DEF Inv, WorkHolds, Backed
        <5> QED
          BY <4>1, <5>2 DEF CompletedIn
      <4> QED
        BY <4>2
    <3> QED
      BY <2>0, <3>1
  <2> QED
    BY <2>1, <2>2
<1>2. BlockedTaskIds(F) = Least(F, {})
  BY BlockedIsLeast, DagFinite
<1>3. t \in S
  BY <1>1, <1>2 DEF Least
<1> QED
  BY <1>3

LEMMA EvidenceBacked ==
  ASSUME Inv, NEW t \in Dag, evidence[t] # "NONE"
  PROVE  \A u \in plan[t] : u \in Dag /\ evidence[u] = "SUCCEEDED"
<1>1. lease[t] # "UNOWNED"
  BY DEF Inv, Types, PlanTypes, TasksHold, TaskHolds
<1> QED
  BY <1>1 DEF Inv, WorkHolds, Backed, CompletedIn

(* The next task of the order keeps the replayed scheduler true to the     *)
(* evidence: what it depends on has been replayed before it.               *)
LEMMA ReplayStep ==
  ASSUME Inv, Ordered, NEW k \in 1..Len(order)
  PROVE  Replay(After(k - 1), order[k]) = After(k)
<1> DEFINE t == order[k]
           u == k - 1
<1>0. Len(order) \in Nat /\ u \in Nat /\ u + 1 = k
  BY OrderFacts
<1>1. t \in Dag /\ t \notin Upto(order, u) /\ plan[t] \subseteq Upto(order, u)
  BY OrderFacts
<1>2. Upto(order, k) = Upto(order, u) \cup {t}
  BY <1>0, UptoSucc
<1>3. Lost(u) \in SUBSET FailedIn(evidence) /\ Lost(k) \in SUBSET FailedIn(evidence)
  BY DEF Lost
<1>4. evidence[t] \in {"NONE", "SUCCEEDED", "FAILED"}
  BY <1>1 DEF Inv, Types, RowTypes, PlanTypes, Outcomes
<1>5. ASSUME evidence[t] # "NONE"
      PROVE  t \in ReadyTaskIds(Done(u), Lost(u))
  <2>1. \A v \in plan[t] : v \in Dag /\ evidence[v] = "SUCCEEDED"
    BY <1>1, <1>5, EvidenceBacked
  <2>2. t \notin BlockedTaskIds(Lost(u))
    BY <1>3, <2>1, BlockedUnbacked
  <2>3. DependsOn(t) \subseteq Done(u)
    BY <1>1, <2>1 DEF Done, CompletedIn, DependsOn
  <2>4. t \notin Done(u) /\ t \notin Lost(u)
    BY <1>1 DEF Done, Lost
  <2> QED
    BY <1>1, <2>2, <2>3, <2>4 DEF ReadyTaskIds
<1>6. CASE evidence[t] = "NONE"
  <2>1. Done(k) = Done(u) /\ Lost(k) = Lost(u)
    BY <1>2, <1>6 DEF Done, Lost, CompletedIn, FailedIn
  <2>2. Replay(After(u), t) = After(u)
    BY <1>6 DEF Replay
  <2> QED
    BY <2>1, <2>2 DEF After
<1>7. CASE evidence[t] = "SUCCEEDED"
  <2>1. Done(k) = Done(u) \cup {t} /\ Lost(k) = Lost(u)
    BY <1>1, <1>2, <1>7 DEF Done, Lost, CompletedIn, FailedIn
  <2>2. Replay(After(u), t) = Succeed(After(u), t)
    BY <1>7 DEF Replay
  <2>3. t \in ReadyTaskIds(Done(u), Lost(u))
    BY <1>5, <1>7
  <2>4. Succeed(After(u), t) = After(k)
    <3>1. After(k) = State(Done(u) \cup {t}, Lost(u), BlockedTaskIds(Lost(u)),
                           ReadyTaskIds(Done(u) \cup {t}, Lost(u)), Clean)
      BY <2>1, Zenon DEF After
    <3> DEFINE a == Done(u)
               b == Lost(u)
               c == BlockedTaskIds(b)
               d == ReadyTaskIds(a, b)
    <3>2. After(u) = State(a, b, c, d, Clean)
      BY DEF After
    <3>3. t \in d
      BY <2>3
    <3> HIDE DEF a, b, c, d, t
    <3>4. Succeed(State(a, b, c, d, Clean), t) = State(a \cup {t}, b, c, ReadyTaskIds(a \cup {t}, b), Clean)
      BY <3>3, SucceedState
    <3> QED
      BY <3>1, <3>2, <3>4 DEF a, b, c, d, t
  <2> QED
    BY <2>2, <2>4
<1>8. CASE evidence[t] = "FAILED"
  <2>1. Done(k) = Done(u) /\ Lost(k) = Lost(u) \cup {t}
    BY <1>1, <1>2, <1>8 DEF Done, Lost, CompletedIn, FailedIn
  <2>2. Replay(After(u), t) = Fail(After(u), t)
    BY <1>8 DEF Replay
  <2>3. t \in ReadyTaskIds(Done(u), Lost(u))
    BY <1>5, <1>8
  <2>4. BlockedTaskIds(Lost(k)) \cap (Done(u) \cup ReadyTaskIds(Done(u), Lost(u))) = {}
    <3> SUFFICES ASSUME NEW v \in BlockedTaskIds(Lost(k)),
                        v \in Done(u) \/ v \in ReadyTaskIds(Done(u), Lost(u))
                 PROVE  FALSE
      OBVIOUS
    <3>1. v \in Dag /\ \E w \in plan[v] : w \in Dag /\ evidence[w] # "SUCCEEDED"
      BY <1>3, BlockedUnbacked
    <3>2. CASE v \in Done(u)
      BY <3>1, <3>2, EvidenceBacked DEF Done, CompletedIn
    <3>3. CASE v \in ReadyTaskIds(Done(u), Lost(u))
      BY <3>1, <3>3 DEF ReadyTaskIds, Done, CompletedIn, DependsOn
    <3> QED
      BY <3>2, <3>3
  <2>5. ReadyTaskIds(Done(u), Lost(u)) \ {t} = ReadyTaskIds(Done(k), Lost(k))
    <3>1. ASSUME NEW v \in ReadyTaskIds(Done(u), Lost(u)), v # t
          PROVE  v \in ReadyTaskIds(Done(k), Lost(k))
      BY <2>1, <2>4, <3>1 DEF ReadyTaskIds
    <3>2. ASSUME NEW v \in ReadyTaskIds(Done(k), Lost(k))
          PROVE  v \in ReadyTaskIds(Done(u), Lost(u)) /\ v # t
      <4>1. v \in Dag /\ v # t /\ v \notin Done(u) /\ v \notin Lost(u) /\ DependsOn(v) \subseteq Done(u)
        BY <2>1, <3>2 DEF ReadyTaskIds
      <4>2. v \notin BlockedTaskIds(Lost(u))
        BY <1>3, <4>1, BlockedUnbacked DEF DependsOn, Done, CompletedIn
      <4> QED
        BY <4>1, <4>2 DEF ReadyTaskIds
    <3> QED
      BY <3>1, <3>2
  <2>6. Fail(After(u), t) = After(k)
    <3>1. After(k) = State(Done(u), Lost(u) \cup {t}, BlockedTaskIds(Lost(u) \cup {t}),
                           ReadyTaskIds(Done(u), Lost(u)) \ {t}, Clean)
      BY <2>1, <2>5, Zenon DEF After
    <3>2. BlockedTaskIds(Lost(u) \cup {t}) \cap (Done(u) \cup ReadyTaskIds(Done(u), Lost(u))) = {}
      BY <2>1, <2>4, Zenon
    <3> DEFINE a == Done(u)
               b == Lost(u)
               c == BlockedTaskIds(b)
               d == ReadyTaskIds(a, b)
    <3>3. After(u) = State(a, b, c, d, Clean)
      BY DEF After
    <3>4. t \in d /\ BlockedTaskIds(b \cup {t}) \cap (a \cup d) = {}
      BY <2>3, <3>2
    <3> HIDE DEF a, b, c, d, t
    <3>5. Fail(State(a, b, c, d, Clean), t) = State(a, b \cup {t}, BlockedTaskIds(b \cup {t}), d \ {t}, Clean)
      BY <3>4, FailState
    <3> QED
      BY <3>1, <3>3, <3>5 DEF a, b, c, d, t
  <2> QED
    BY <2>2, <2>6
<1> QED
  BY <1>4, <1>6, <1>7, <1>8

LEMMA ReplayFresh == ASSUME Inv PROVE Fresh = After(0)
<1>1. Upto(order, 0) = {}
  BY DEF Upto
<1>2. Done(0) = {} /\ Lost(0) = {}
  BY <1>1 DEF Done, Lost
<1>3. BlockedTaskIds({}) = {}
  <2>1. Closed({}, {})
    BY DEF Closed, More
  <2> QED
    BY <2>1, BlockedIsLeast, DagFinite DEF Least
<1> QED
  <2>1. Fresh = RefreshReady(State({}, {}, {}, {}, Clean))
    BY DEF Fresh, State, Clean
  <2> QED
    BY <2>1, <1>2, <1>3, RefreshState DEF After

(* The fold goes through the places of the order one by one.               *)
LEMMA SchedulerIs ==
  ASSUME Inv, Ordered
  PROVE  Scheduler(evidence) = After(Len(order))
<1> DEFINE iter == CHOOSE f : f = Fold(SUBSET (1..Len(order)), f)
<1>0. Len(order) \in Nat /\ DOMAIN order = 1..Len(order)
  BY OrderFacts
<1>1. Scheduler(evidence) = iter[1..Len(order)]
  <2>1. Scheduler(evidence) = (CHOOSE f : f = Fold(SUBSET DOMAIN order, f))[DOMAIN order]
    BY DEF Scheduler, FoldLeft, MapThenFoldSet, Fold, Fresh, Replay
  <2> QED
    BY <2>1, <1>0
<1>2. iter = Fold(SUBSET (1..Len(order)), iter)
  <2>1. \E f : f = Fold(SUBSET (1..Len(order)), f)
    BY <1>0, FoldExists
  <2> QED
    BY <2>1, Zenon
<1> HIDE DEF iter
<1> DEFINE Bad == {k \in 0..Len(order) : iter[1..k] # After(k)}
<1>3. ASSUME NEW s \in SUBSET (1..Len(order))
      PROVE  iter[s] = IF s = {} THEN Fresh ELSE Replay(iter[s \ {Max(s)}], order[Max(s)])
  <2>1. Fold(SUBSET (1..Len(order)), iter)[s]
          = IF s = {} THEN Fresh ELSE Replay(iter[s \ {Max(s)}], order[Max(s)])
    BY DEF Fold
  <2> QED
    BY <2>1, <1>2
<1>4. Bad = {}
  <2> SUFFICES ASSUME Bad # {} PROVE FALSE
    OBVIOUS
  <2>1. PICK k \in Bad : \A j \in Bad : k <= j
    <3>1. Bad \in SUBSET Nat
      BY <1>0
    <3> QED
      BY <3>1, LeastNat
  <2>2. CASE k = 0
    <3>1. 1..0 = {} /\ {} \in SUBSET (1..Len(order))
      OBVIOUS
    <3>2. iter[{}] = Fresh
      BY <3>1, <1>3
    <3> QED
      BY <2>1, <2>2, <3>1, <3>2, ReplayFresh
  <2>3. CASE k # 0
    <3>1. k \in 1..Len(order) /\ k - 1 \in 0..Len(order) /\ ~(k <= k - 1) /\ k \in Nat
      BY <1>0, <2>1, <2>3
    <3>2. 1..k \in SUBSET (1..Len(order)) /\ 1..k # {} /\ 1..k \in SUBSET (1..k)
      BY <1>0, <3>1
    <3>3. Max(1..k) \in 1..k /\ \A x \in 1..k : x <= Max(1..k)
      BY <3>1, <3>2, MaxOf
    <3>4. Max(1..k) = k
      BY <3>1, <3>3
    <3>5. (1..k) \ {k} = 1..(k - 1)
      BY <3>1
    <3>6. iter[1..k] = Replay(iter[1..(k - 1)], order[k])
      BY <1>3, <3>2, <3>4, <3>5
    <3>7. iter[1..(k - 1)] = After(k - 1)
      BY <2>1, <3>1
    <3>8. iter[1..k] = After(k)
      BY <3>1, <3>6, <3>7, ReplayStep
    <3> QED
      BY <2>1, <3>8
  <2> QED
    BY <2>2, <2>3
<1> QED
  BY <1>0, <1>1, <1>4

LEMMA OrderedFrontiers == Inv /\ Ordered => FrontiersAgree
<1> SUFFICES ASSUME Inv, Ordered PROVE FrontiersAgree
  OBVIOUS
<1> DEFINE s == Scheduler(evidence)
           F == FailedIn(evidence)
           C == CompletedIn(evidence)
           anc == CHOOSE f : f = Ancestors(f)
<1>1. s = After(Len(order))
  BY SchedulerIs
<1>2. Done(Len(order)) = C /\ Lost(Len(order)) = F /\ F \in SUBSET Dag
  BY OrderFacts DEF Done, Lost, CompletedIn, FailedIn
<1>3. /\ s.corrupt = Clean /\ s.succeeded = C /\ s.failed = F
      /\ s.blocked = BlockedTaskIds(F) /\ s.ready = ReadyTaskIds(C, F)
  BY <1>1, <1>2, StateFields DEF After
<1>4. \A t \in Dag : anc[t] = Reached(t)
  BY AncestorsReached
<1> HIDE DEF anc, s
<1>5. BlockedTaskIds(F) = {t \in Dag \ F : \E f \in F : DependsOnTransitively(t, f)}
  BY <1>2, InvBlocked DEF BlockedExact
<1>6. ASSUME NEW t \in F, NEW f \in F PROVE ~DependsOnTransitively(t, f)
  <2>1. DependsOn(t) \subseteq C
    BY <1>2, EvidenceBacked DEF DependsOn, CompletedIn, FailedIn
  <2>2. \A u \in C : DependsOn(u) \subseteq C
    BY EvidenceBacked DEF DependsOn, CompletedIn
  <2>3. C \in SUBSET Dag /\ f \notin C
    BY DEF CompletedIn, FailedIn
  <2> QED
    BY <2>1, <2>2, <2>3 DEF DependsOnTransitively
<1>7. BlockedTaskIds(F) = {t \in Dag : anc[t] \cap F # {}}
  BY <1>2, <1>4, <1>5, <1>6 DEF Reached
<1> QED
  BY <1>3, <1>7, CleanFalse DEF FrontiersAgree, anc, s, Ancestors

(* For every plan that passes validation: the stored order has every task  *)
(* once, after all that it depends on, there is no cycle, and the          *)
(* scheduler replayed along that order from whatever evidence the workers  *)
(* have left is never corrupt and has the same completed, failed, blocked  *)
(* and ready tasks as the frontier the reconciler derives.                 *)
THEOREM FrontiersTheorem == Spec => []FrontiersSound
<1>1. Inv /\ Ordered => FrontiersSound
  BY InvType, OrderedPlan, OrderedFrontiers DEF FrontiersSound
<1> QED
  BY <1>1, InitInv, NextInv, InitOrdered, OrderedStep, PTL DEF Spec

=============================================================================
