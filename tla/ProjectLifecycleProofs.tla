----------------------- MODULE ProjectLifecycleProofs -----------------------
(***************************************************************************)
(* Proofs about ProjectLifecycle, for every number of requests in flight   *)
(* and every bound: a Run that a deletion could know of keeps its          *)
(* workspace, what users are shown of an ended Run is true, and every      *)
(* directory has an owner.                                                 *)
(*                                                                         *)
(* The invariant says what the requests in flight may rely on although no  *)
(* lock protects them: a registration and a deletion of the same project   *)
(* leave their mark, and so do two clones; a deletion past its check only  *)
(* meets work that was late; a verdict that is about to be stored still is *)
(* true, because a Run that ended stays as it ended.                       *)
(***************************************************************************)
EXTENDS ProjectLifecycle, WellFoundedInduction, TLAPS

Displays == {"RUNNING", "WAITING_EXTERNAL", "RECOVERY_REQUIRED", "SUCCEEDED", "FAILED"}

Projects == [life : {"NONE", "ACTIVE", "ARCHIVED", "ERASED"},
             provision : {"NONE", "PROVISIONING", "READY", "FAILED"}]

Rows == [p : Ids, session : {"NONE", "PLANNING", "PLANNING_FAILED", "READY_TO_RUN", "RUNNING",
                             "COMPLETED", "DELETED"},
         status : {"NONE", "RUNNING", "SUCCEEDED", "FAILED", "DELETED"}, late : BOOLEAN,
         dispatched : BOOLEAN, lease : BOOLEAN, gap : BOOLEAN, archived : BOOLEAN,
         clock : {"young", "quiet"}, display : Displays]

Calls == [op : {"none", "register", "launch", "inspect", "delete"},
          at : {"idle", "mark", "look", "clone", "cloning", "sync", "ready", "fail", "start", "plan",
                "run", "store", "remove", "erase"},
          p : 0..MaxProjects, run : Nat, verdict : {"NONE"} \cup Displays]

Monitors == [at : {"sleeping", "reading", "storing", "dead"}, todo : SUBSET Nat, run : Nat,
             verdict : {"NONE"} \cup Displays]

DiskTypes == /\ project \in [Ids -> Projects]
             /\ dir \in [Ids -> {"none", "partial", "ready"}]
             /\ marred \subseteq Ids
CountTypes == requests \in 0..MaxRequests /\ faults \in 0..MaxFaults
MemoryTypes == call \in [Clients -> Calls] /\ monitor \in Monitors
Types == DiskTypes /\ CountTypes /\ MemoryTypes /\ launches \in Seq(Rows)

\* Work that a deletion looks for, and that may still begin to run.
Pending(row) == row.status = "RUNNING" \/ row.session \in {"PLANNING", "READY_TO_RUN"}

\* The two columns of a launch agree.
Coherent(row) ==
  /\ row.lease => row.status = "RUNNING"
  /\ row.status = "DELETED" <=> row.session = "DELETED"
  /\ row.session \in {"PLANNING", "READY_TO_RUN"} => row.status = "NONE"

\* What a verdict says of an ended Run.
Truthful(l, verdict) ==
  verdict \in {"SUCCEEDED", "FAILED"} => launches[l].status \in {verdict, "DELETED"}

Inspected(l, verdict) ==
  /\ l \in RunIds /\ launches[l].status # "NONE"
  /\ verdict \in Displays /\ Truthful(l, verdict)

\* A request is somewhere in the handler of its operation.
Located(c) ==
  \/ call[c].op = "none" /\ call[c].at = "idle"
  \/ /\ call[c].op = "register" /\ call[c].p \in Ids
     /\ call[c].at \in {"mark", "look", "clone", "cloning", "sync", "ready", "fail"}
  \/ /\ call[c].op = "launch" /\ call[c].p \in Ids
     /\ call[c].at \in {"sync", "start", "plan", "run"}
     /\ call[c].at \in {"plan", "run"} => call[c].run \in RunIds
  \/ /\ call[c].op = "inspect" /\ call[c].at = "store"
     /\ Inspected(call[c].run, call[c].verdict)
  \/ /\ call[c].op = "delete" /\ call[c].p \in Ids
     /\ call[c].at \in {"remove", "erase"}

CallsHold == \A c \in Clients : Located(c)

MonitorHolds ==
  /\ \A l \in monitor.todo : l \in RunIds /\ launches[l].status # "NONE"
  /\ monitor.at \in {"reading", "storing"} => monitor.todo # {}
  /\ monitor.at = "storing" => Inspected(monitor.run, monitor.verdict)

LaunchesHold ==
  \A l \in RunIds : /\ Coherent(launches[l])
                    /\ launches[l].status # "DELETED" => There(launches[l].p)
                    /\ Truthful(l, launches[l].display)

Registers(c, p) == call[c].op = "register" /\ call[c].p = p
Deletes(c, p) == call[c].op = "delete" /\ call[c].p = p
Clones(c, p) == call[c].at = "cloning" /\ call[c].p = p

\* A deletion past its check meets only work that was late, unless it has
\* collided with a registration; so does a directory that is not usable.
LateOnly ==
  \A l \in RunIds : Pending(launches[l]) =>
    \/ launches[l].late \/ launches[l].p \in marred
    \/ Ready(launches[l].p) /\ \A c \in Clients : ~Deletes(c, launches[l].p)

\* Requests for a project nobody has collided over.
Apart ==
  \A p \in Ids \ marred :
    /\ \A c, d \in Clients : ~(Registers(c, p) /\ Deletes(d, p))
    /\ \A c, d \in Clients : Clones(c, p) /\ Clones(d, p) => c = d
    /\ \A c \in Clients : Clones(c, p) => dir[p] = "partial"
    /\ \A c \in Clients : Deletes(c, p) => project[p] # NoProject
    /\ \A c \in Clients : Deletes(c, p) /\ call[c].at = "erase" => dir[p] = "none"
    /\ \A c \in Clients : Registers(c, p) => There(p)
    /\ ~There(p) => dir[p] = "none"
    /\ dir[p] = "partial" => \E c \in Clients : Clones(c, p)

Inv == Types /\ CallsHold /\ MonitorHolds /\ LaunchesHold /\ LateOnly /\ Apart

-----------------------------------------------------------------------------
(* Who writes what.                                                        *)

LEMMA DiskWriters ==
  ASSUME [Next]_vars
  PROVE  \/ UNCHANGED <<project, dir, marred>>
         \/ \E c \in Clients : EnsureProject(c) \/ MarkProvisioning(c) \/ BeginClone(c) \/ EndClone(c)
              \/ MarkReady(c) \/ MarkFailed(c) \/ EnsureDeletionAllowed(c) \/ RemoveArtifacts(c)
              \/ DeleteRow(c) \/ RequestDies(c)
         \/ \E p \in Ids : SetProjectLifecycle(p, "ACTIVE", "ARCHIVED")
                           \/ SetProjectLifecycle(p, "ARCHIVED", "ACTIVE")
<1>1. ASSUME NEW c \in Clients,
             LookForDirectory(c) \/ Synchronize(c) \/ EnsureProjectActive(c) \/ StartLaunch(c)
               \/ FinishPlanning(c) \/ StartRun(c) \/ InspectRun(c) \/ StoreInspection(c)
      PROVE  UNCHANGED <<project, dir, marred>>
  BY <1>1 DEF LookForDirectory, Synchronize, EnsureProjectActive, StartLaunch, FinishPlanning, StartRun,
              InspectRun, StoreInspection
<1>2. ASSUME NEW l \in RunIds, Work(l) PROVE UNCHANGED <<project, dir, marred>>
  BY <1>2 DEF Work, AcquireLease, LoseLease, TimePasses, CompleteSession, ArchiveRun, FinishRun
<1>3. ASSUME Monitor PROVE UNCHANGED <<project, dir, marred>>
  BY <1>3 DEF Monitor, MonitorWakes, MonitorInspects, MonitorStores
<1>4. UNCHANGED vars => UNCHANGED <<project, dir, marred>>
  BY DEF vars
<1> QED
  BY <1>1, <1>2, <1>3, <1>4 DEF Next, Request, Proceed

LEMMA LaunchWriters ==
  ASSUME [Next]_vars
  PROVE  \/ UNCHANGED launches
         \/ \E c \in Clients : StartLaunch(c) \/ FinishPlanning(c) \/ StartRun(c) \/ StoreInspection(c)
              \/ DeleteRow(c)
         \/ \E l \in RunIds : Work(l)
         \/ MonitorStores
<1>1. ASSUME NEW c \in Clients, Request(c) \/ RequestDies(c) PROVE UNCHANGED launches
  BY <1>1 DEF Request, EnsureProject, EnsureProjectActive, InspectRun, EnsureDeletionAllowed, RequestDies
<1>2. ASSUME NEW c \in Clients,
             MarkProvisioning(c) \/ LookForDirectory(c) \/ BeginClone(c) \/ EndClone(c)
               \/ Synchronize(c) \/ MarkReady(c) \/ MarkFailed(c) \/ RemoveArtifacts(c)
      PROVE  UNCHANGED launches
  BY <1>2 DEF MarkProvisioning, LookForDirectory, BeginClone, EndClone, Synchronize, MarkReady, MarkFailed,
              RemoveArtifacts
<1>3. ASSUME NEW p \in Ids, NEW x, NEW y, SetProjectLifecycle(p, x, y) PROVE UNCHANGED launches
  BY <1>3 DEF SetProjectLifecycle
<1>4. MonitorWakes \/ MonitorInspects \/ UNCHANGED vars => UNCHANGED launches
  BY DEF MonitorWakes, MonitorInspects, vars
<1> QED
  BY <1>1, <1>2, <1>3, <1>4 DEF Next, Proceed, Monitor

LEMMA CallWriters ==
  ASSUME [Next]_vars
  PROVE  UNCHANGED call \/ \E c \in Clients : Request(c) \/ Proceed(c) \/ RequestDies(c)
<1>1. ASSUME NEW l \in RunIds, Work(l) PROVE UNCHANGED call
  BY <1>1 DEF Work, AcquireLease, LoseLease, TimePasses, CompleteSession, ArchiveRun, FinishRun
<1>2. Monitor \/ UNCHANGED vars => UNCHANGED call
  BY DEF Monitor, MonitorWakes, MonitorInspects, MonitorStores, vars
<1>3. ASSUME NEW p \in Ids, NEW x, NEW y, SetProjectLifecycle(p, x, y) PROVE UNCHANGED call
  BY <1>3 DEF SetProjectLifecycle
<1> QED
  BY <1>1, <1>2, <1>3 DEF Next

LEMMA MonitorWriters ==
  ASSUME [Next]_vars
  PROVE  UNCHANGED monitor \/ Monitor
<1>1. ASSUME NEW c \in Clients, Request(c) \/ Proceed(c) \/ RequestDies(c) PROVE UNCHANGED monitor
  BY <1>1 DEF Request, Proceed, EnsureProject, EnsureProjectActive, InspectRun, EnsureDeletionAllowed,
              MarkProvisioning, LookForDirectory, BeginClone, EndClone, Synchronize, MarkReady, MarkFailed,
              StartLaunch, FinishPlanning, StartRun, StoreInspection, RemoveArtifacts, DeleteRow, RequestDies
<1>2. ASSUME NEW l \in RunIds, Work(l) PROVE UNCHANGED monitor
  BY <1>2 DEF Work, AcquireLease, LoseLease, TimePasses, CompleteSession, ArchiveRun, FinishRun
<1>3. ASSUME NEW p \in Ids, NEW x, NEW y, SetProjectLifecycle(p, x, y) PROVE UNCHANGED monitor
  BY <1>3 DEF SetProjectLifecycle
<1> QED
  BY <1>1, <1>2, <1>3 DEF Next, vars

LEMMA CountStep ==
  ASSUME Inv, [Next]_vars
  PROVE  CountTypes'
<1>1. requests' = requests \/ Count
  BY DEF Next, vars, Request, Proceed, EnsureProject, EnsureProjectActive, InspectRun, EnsureDeletionAllowed,
         MarkProvisioning, LookForDirectory, BeginClone, EndClone, Synchronize, MarkReady, MarkFailed,
         StartLaunch, FinishPlanning, StartRun, StoreInspection, RemoveArtifacts, DeleteRow, RequestDies,
         Work, AcquireLease, LoseLease, TimePasses, CompleteSession, ArchiveRun, FinishRun,
         Monitor, MonitorWakes, MonitorInspects, MonitorStores, SetProjectLifecycle, Begin
<1>2. faults' = faults \/ Fault
  BY DEF Next, vars, Request, Proceed, EnsureProject, EnsureProjectActive, InspectRun, EnsureDeletionAllowed,
         MarkProvisioning, LookForDirectory, BeginClone, EndClone, Synchronize, MarkReady, MarkFailed,
         StartLaunch, FinishPlanning, StartRun, StoreInspection, RemoveArtifacts, DeleteRow, RequestDies,
         Work, AcquireLease, LoseLease, TimePasses, CompleteSession, ArchiveRun, FinishRun,
         Monitor, MonitorWakes, MonitorInspects, MonitorStores, SetProjectLifecycle, Begin
<1> QED
  BY <1>1, <1>2, BoundsAssumption DEF Inv, Types, CountTypes, Count, Fault

-----------------------------------------------------------------------------
(* The initial state.                                                      *)

LEMMA InitInv == Init => Inv
<1> SUFFICES ASSUME Init PROVE Inv
  OBVIOUS
<1>1. Types
  <2>1. DiskTypes
    BY DEF Init, DiskTypes, NoProject, Projects
  <2>2. CountTypes
    BY BoundsAssumption DEF Init, CountTypes
  <2>3. MemoryTypes
    BY BoundsAssumption DEF Init, MemoryTypes, Calls, Monitors, Idle, Sleeping
  <2> QED
    BY <2>1, <2>2, <2>3 DEF Init, Types
<1>2. RunIds = {}
  BY DEF Init, RunIds
<1>3. \A c \in Clients : call[c].op = "none" /\ call[c].at = "idle" /\ call[c].p = 0
  BY DEF Init, Idle
<1>4. CallsHold
  BY <1>3 DEF CallsHold, Located
<1>5. MonitorHolds
  BY DEF Init, MonitorHolds, Sleeping
<1>6. Apart
  BY <1>3 DEF Apart, Registers, Deletes, Clones, Init, There, NoProject
<1> QED
  BY <1>1, <1>2, <1>4, <1>5, <1>6 DEF Inv, LaunchesHold, LateOnly

-----------------------------------------------------------------------------
(* What a step does to the database and the disk.                          *)

LEMMA DiskStep ==
  ASSUME Inv, [Next]_vars
  PROVE  /\ DiskTypes'
         /\ marred \subseteq marred'
         /\ \A p \in Ids :
              /\ project[p] # NoProject => project'[p] # NoProject
              /\ There(p)' /\ ~There(p) => project[p] = NoProject
              /\ There(p) /\ ~There(p)' => \E c \in Clients : DeleteRow(c) /\ call[c].p = p
<1>t. DiskTypes /\ call \in [Clients -> Calls] /\ CallsHold
  BY DEF Inv, Types, MemoryTypes
<1>1. CASE UNCHANGED <<project, dir, marred>>
  BY <1>1, <1>t DEF DiskTypes, There
<1>2. ASSUME NEW c \in Clients, EnsureProject(c)
      PROVE  /\ DiskTypes' /\ marred \subseteq marred'
             /\ \A p \in Ids : There(p) => There(p)'
             /\ \A p \in Ids : There(p)' /\ ~There(p) => project[p] = NoProject
             /\ \A p \in Ids : project[p] # NoProject => project'[p] = project[p]
  BY <1>2, <1>t DEF EnsureProject, DiskTypes, Projects, There, NoProject
<1>3. ASSUME NEW c \in Clients, MarkProvisioning(c) \/ MarkReady(c) \/ MarkFailed(c)
      PROVE  /\ DiskTypes' /\ marred \subseteq marred'
             /\ \A p \in Ids : project'[p].life = project[p].life
  <2>1. call[c].p \in Ids
    BY <1>3, <1>t DEF CallsHold, Located, MarkProvisioning, MarkReady, MarkFailed
  <2> QED
    BY <1>3, <1>t, <2>1 DEF MarkProvisioning, MarkReady, MarkFailed, DiskTypes, Projects
<1>4. ASSUME NEW c \in Clients, BeginClone(c) \/ EndClone(c) \/ RemoveArtifacts(c)
      PROVE  DiskTypes' /\ marred \subseteq marred' /\ UNCHANGED project
  <2>1. call[c].p \in Ids
    BY <1>4, <1>t DEF CallsHold, Located, BeginClone, EndClone, RemoveArtifacts
  <2> QED
    BY <1>4, <1>t, <2>1 DEF BeginClone, EndClone, RemoveArtifacts, DiskTypes
<1>5. ASSUME NEW c \in Clients, EnsureDeletionAllowed(c) \/ RequestDies(c)
      PROVE  DiskTypes' /\ marred \subseteq marred' /\ UNCHANGED project
  <2>1. call[c].at = "cloning" => call[c].p \in Ids
    BY <1>t DEF CallsHold, Located
  <2> QED
    BY <1>5, <1>t, <2>1 DEF EnsureDeletionAllowed, RequestDies, DiskTypes
<1>6. ASSUME NEW c \in Clients, DeleteRow(c)
      PROVE  /\ DiskTypes' /\ marred \subseteq marred'
             /\ \A p \in Ids : project'[p] = IF p = call[c].p THEN Erased ELSE project[p]
  BY <1>6, <1>t DEF DeleteRow, DiskTypes, Projects, Erased
<1>7. ASSUME NEW q \in Ids, SetProjectLifecycle(q, "ACTIVE", "ARCHIVED") \/ SetProjectLifecycle(q, "ARCHIVED", "ACTIVE")
      PROVE  /\ DiskTypes' /\ marred \subseteq marred'
             /\ \A p \in Ids : There(p)' <=> There(p)
             /\ \A p \in Ids : project'[p] # NoProject <=> project[p] # NoProject
  BY <1>7, <1>t DEF SetProjectLifecycle, DiskTypes, Projects, There, NoProject
<1>8. ASSUME \E c \in Clients : MarkProvisioning(c) \/ MarkReady(c) \/ MarkFailed(c)
      PROVE  \A p \in Ids : /\ There(p)' <=> There(p)
                            /\ project[p] # NoProject => project'[p] # NoProject
  <2>1. \A p \in Ids : (There(p)' <=> There(p)) /\ (project'[p].life = "NONE" => project[p].life = "NONE")
    BY <1>3, <1>8 DEF There
  <2>2. ASSUME NEW p \in Ids, project'[p] = NoProject PROVE project[p] = NoProject
    <3>1. ~There(p)
      BY <2>1, <2>2 DEF There, NoProject
    <3>2. PICK c \in Clients : MarkProvisioning(c) \/ MarkReady(c) \/ MarkFailed(c)
      BY <1>8
    <3>3. project'[p] = project[p]
      BY <1>t, <3>1, <3>2 DEF MarkProvisioning, MarkReady, MarkFailed, DiskTypes
    <3> QED
      BY <2>2, <3>3
  <2> QED
    BY <2>1, <2>2
<1>9. NoProject # Erased /\ (\A p \in Ids : project[p] = NoProject => ~There(p))
  BY DEF NoProject, Erased, There
<1> QED
  BY <1>1, <1>2, <1>3, <1>4, <1>5, <1>6, <1>7, <1>8, <1>9, DiskWriters DEF There, Erased

-----------------------------------------------------------------------------
(* What a step does to a launch.                                           *)

Moved(old, new) ==
  /\ new.p = old.p
  /\ old.status # "NONE" => new.status # "NONE"
  /\ old.status \in {"SUCCEEDED", "FAILED", "DELETED"} => new.status \in {old.status, "DELETED"}
  /\ Pending(new) => Pending(old) /\ new.late = old.late
  /\ Coherent(new)

Shown(l) == launches'[l].display \in {launches[l].display, "RUNNING"} \/ Truthful(l, launches'[l].display)

\* A launch before its first step.
Fresh(c, new) ==
  /\ StartLaunch(c) /\ new.p = call[c].p /\ There(new.p) /\ new.late = Late(new.p)
  /\ Coherent(new) /\ new.status # "DELETED" /\ new.display = "RUNNING"

LEMMA RowStep ==
  ASSUME Inv, NEW l \in RunIds, NEW row \in Rows, launches' = [launches EXCEPT ![l] = row],
         Moved(launches[l], row), row.display \in {launches[l].display, "RUNNING"} \/ Truthful(l, row.display)
  PROVE  /\ launches' \in Seq(Rows) /\ RunIds' = RunIds
         /\ \A k \in RunIds : Moved(launches[k], launches'[k]) /\ Shown(k)
<1>1. launches \in Seq(Rows)
  BY DEF Inv, Types
<1>2. \A k \in RunIds : Moved(launches[k], launches[k])
  BY DEF Inv, LaunchesHold, Moved
<1>3. /\ launches' \in Seq(Rows) /\ RunIds' = RunIds
      /\ launches'[l] = row /\ \A k \in RunIds \ {l} : launches'[k] = launches[k]
  BY <1>1 DEF RunIds
<1>4. Moved(launches[l], launches'[l]) /\ Shown(l)
  BY <1>3 DEF Shown
<1>5. ASSUME NEW k \in RunIds \ {l} PROVE Moved(launches[k], launches'[k]) /\ Shown(k)
  BY <1>2, <1>3 DEF Shown
<1> QED
  BY <1>3, <1>4, <1>5

\* The step of a launch that is written alone.
LEMMA WorkStep ==
  ASSUME Inv, NEW l \in RunIds, Work(l)
  PROVE  /\ launches' \in Seq(Rows) /\ RunIds' = RunIds
         /\ \A k \in RunIds : Moved(launches[k], launches'[k]) /\ Shown(k)
<1>t. launches \in Seq(Rows) /\ launches[l] \in Rows /\ Coherent(launches[l])
  BY DEF Inv, Types, LaunchesHold, RunIds
<1>1. CASE AcquireLease(l)
  <2> DEFINE row == [launches[l] EXCEPT !.lease = TRUE, !.dispatched = TRUE, !.clock = "young"]
  <2>1. launches' = [launches EXCEPT ![l] = row]
    BY <1>1 DEF AcquireLease
  <2>2. row \in Rows /\ Moved(launches[l], row) /\ row.display = launches[l].display
    BY <1>1, <1>t DEF AcquireLease, Running, Rows, Moved, Coherent, Pending
  <2> QED
    BY <2>1, <2>2, RowStep
<1>2. CASE LoseLease(l)
  <2>1. PICK released \in BOOLEAN : launches' = [launches EXCEPT ![l].lease = FALSE, ![l].gap = released]
    BY <1>2 DEF LoseLease
  <2> DEFINE row == [launches[l] EXCEPT !.lease = FALSE, !.gap = released]
  <2>2. launches' = [launches EXCEPT ![l] = row]
    BY <2>1
  <2>3. row \in Rows /\ Moved(launches[l], row) /\ row.display = launches[l].display
    BY <1>t DEF Rows, Moved, Coherent, Pending
  <2> QED
    BY <2>2, <2>3, RowStep
<1>3. CASE TimePasses(l)
  <2> DEFINE row == [launches[l] EXCEPT !.clock = "quiet"]
  <2>1. launches' = [launches EXCEPT ![l] = row]
    BY <1>3 DEF TimePasses
  <2>2. row \in Rows /\ Moved(launches[l], row) /\ row.display = launches[l].display
    BY <1>t DEF Rows, Moved, Coherent, Pending
  <2> QED
    BY <2>1, <2>2, RowStep
<1>4. CASE CompleteSession(l)
  <2> DEFINE row == [launches[l] EXCEPT !.session = "COMPLETED"]
  <2>1. launches' = [launches EXCEPT ![l] = row]
    BY <1>4 DEF CompleteSession
  <2>2. row \in Rows /\ Moved(launches[l], row) /\ row.display = launches[l].display
    BY <1>4, <1>t DEF CompleteSession, Rows, Moved, Coherent, Pending
  <2> QED
    BY <2>1, <2>2, RowStep
<1>5. CASE ArchiveRun(l)
  <2> DEFINE row == [launches[l] EXCEPT !.archived = TRUE]
  <2>1. launches' = [launches EXCEPT ![l] = row]
    BY <1>5 DEF ArchiveRun
  <2>2. row \in Rows /\ Moved(launches[l], row) /\ row.display = launches[l].display
    BY <1>t DEF Rows, Moved, Coherent, Pending
  <2> QED
    BY <2>1, <2>2, RowStep
<1>6. ASSUME NEW status \in {"SUCCEEDED", "FAILED"}, FinishRun(l, status)
      PROVE  /\ launches' \in Seq(Rows) /\ RunIds' = RunIds
             /\ \A k \in RunIds : Moved(launches[k], launches'[k]) /\ Shown(k)
  <2> DEFINE row == [launches[l] EXCEPT !.status = status, !.lease = FALSE, !.clock = "young"]
  <2>1. launches' = [launches EXCEPT ![l] = row]
    BY <1>6 DEF FinishRun
  <2>2. row \in Rows /\ Moved(launches[l], row) /\ row.display = launches[l].display
    BY <1>6, <1>t DEF FinishRun, Running, Rows, Moved, Coherent, Pending
  <2> QED
    BY <2>1, <2>2, RowStep
<1> QED
  BY <1>1, <1>2, <1>3, <1>4, <1>5, <1>6 DEF Work

\* A verdict that is stored is still true.
LEMMA PersistStep ==
  ASSUME Inv, NEW l, NEW verdict, Inspected(l, verdict), PersistProjection(l, verdict)
  PROVE  /\ launches' \in Seq(Rows) /\ RunIds' = RunIds
         /\ \A k \in RunIds : Moved(launches[k], launches'[k]) /\ Shown(k)
<1>t. l \in RunIds /\ verdict \in Displays /\ Truthful(l, verdict)
  BY DEF Inspected
<1>r. launches \in Seq(Rows) /\ launches[l] \in Rows /\ \A k \in RunIds : Coherent(launches[k])
  BY <1>t DEF Inv, Types, LaunchesHold, RunIds
<1>1. CASE launches[l].status = "DELETED"
  BY <1>1, <1>r DEF PersistProjection, Moved, Shown, RunIds
<1>2. CASE launches[l].status # "DELETED"
  <2> DEFINE row == [launches[l] EXCEPT !.display = verdict]
  <2>1. launches' = [launches EXCEPT ![l] = row]
    BY <1>2 DEF PersistProjection
  <2>2. row \in Rows /\ Moved(launches[l], row) /\ row.display = verdict
    BY <1>t, <1>r DEF Rows, Moved, Coherent, Pending
  <2> QED
    BY <1>t, <2>1, <2>2, RowStep
<1> QED
  BY <1>1, <1>2

LEMMA LaunchStep ==
  ASSUME Inv, [Next]_vars
  PROVE  /\ launches' \in Seq(Rows)
         /\ \A l \in RunIds : l \in RunIds' /\ Moved(launches[l], launches'[l]) /\ Shown(l)
         /\ \A l \in RunIds' \ RunIds : \E c \in Clients : Fresh(c, launches'[l])
<1>t. launches \in Seq(Rows) /\ CallsHold /\ \A l \in RunIds : launches[l] \in Rows /\ Coherent(launches[l])
  BY DEF Inv, Types, LaunchesHold, RunIds
<1>1. CASE UNCHANGED launches
  BY <1>1, <1>t DEF Moved, Shown, RunIds
<1>2. ASSUME NEW c \in Clients, StartLaunch(c)
      PROVE  /\ launches' \in Seq(Rows)
             /\ \A l \in RunIds : l \in RunIds' /\ launches'[l] = launches[l]
             /\ \A l \in RunIds' \ RunIds : Fresh(c, launches'[l])
  <2>1. call[c].p \in Ids
    BY <1>2, <1>t DEF StartLaunch, CallsHold, Located
  <2>2. CASE UNCHANGED launches
    BY <1>t, <2>2 DEF RunIds
  <2>3. ASSUME NEW session, NEW status, <<session, status>> \in {<<"PLANNING", "NONE">>, <<"NONE", "RUNNING">>},
               launches' = Append(launches, NewLaunch(call[c].p, session, status, Late(call[c].p))), There(call[c].p)
        PROVE  /\ launches' \in Seq(Rows)
               /\ \A l \in RunIds : l \in RunIds' /\ launches'[l] = launches[l]
               /\ \A l \in RunIds' \ RunIds : Fresh(c, launches'[l])
    <3> DEFINE row == NewLaunch(call[c].p, session, status, Late(call[c].p))
    <3>0. Late(call[c].p) \in BOOLEAN
      BY DEF Late, Deleting
    <3>1. row \in Rows
      BY <2>1, <2>3, <3>0 DEF NewLaunch, Rows, Displays
    <3>2. /\ Coherent(row) /\ row.status # "DELETED" /\ row.display = "RUNNING"
          /\ row.p = call[c].p /\ row.late = Late(row.p)
      BY <2>3 DEF NewLaunch, Coherent
    <3>3. Fresh(c, row)
      BY <1>2, <2>3, <3>2 DEF Fresh
    <3> HIDE DEF row
    <3>4. launches' = Append(launches, row)
      BY <2>3 DEF row
    <3>5. \A l \in RunIds' \ RunIds : launches'[l] = row
      BY <1>t, <3>1, <3>4 DEF RunIds
    <3> QED
      BY <1>t, <3>1, <3>3, <3>4, <3>5 DEF RunIds
  <2> QED
    BY <1>2, <2>2, <2>3 DEF StartLaunch
<1>3. ASSUME NEW c \in Clients, FinishPlanning(c) \/ StartRun(c)
      PROVE  /\ launches' \in Seq(Rows) /\ RunIds' = RunIds
             /\ \A k \in RunIds : Moved(launches[k], launches'[k]) /\ Shown(k)
  <2> DEFINE l == call[c].run
  <2>1. l \in RunIds
    BY <1>3, <1>t DEF FinishPlanning, StartRun, CallsHold, Located
  <2>2. CASE UNCHANGED launches
    BY <1>t, <2>2 DEF Moved, Shown, RunIds
  <2>3. ASSUME launches[l].session = "READY_TO_RUN",
               launches' = [launches EXCEPT ![l].status = "RUNNING", ![l].session = "RUNNING"]
        PROVE  /\ launches' \in Seq(Rows) /\ RunIds' = RunIds
               /\ \A k \in RunIds : Moved(launches[k], launches'[k]) /\ Shown(k)
    <3> DEFINE row == [launches[l] EXCEPT !.status = "RUNNING", !.session = "RUNNING"]
    <3>1. launches' = [launches EXCEPT ![l] = row]
      BY <2>3
    <3>2. row \in Rows /\ Moved(launches[l], row) /\ row.display = launches[l].display
      BY <1>t, <2>1, <2>3 DEF Rows, Moved, Coherent, Pending
    <3> HIDE DEF row, l
    <3> QED
      BY <2>1, <3>1, <3>2, RowStep
  <2>4. CASE StartRun(c)
    BY <2>2, <2>3, <2>4 DEF StartRun
  <2>5. ASSUME NEW session, launches[l].session = "PLANNING", launches' = [launches EXCEPT ![l].session = session],
               session \in {"READY_TO_RUN", "PLANNING_FAILED"}
        PROVE  /\ launches' \in Seq(Rows) /\ RunIds' = RunIds
               /\ \A k \in RunIds : Moved(launches[k], launches'[k]) /\ Shown(k)
    <3> DEFINE row == [launches[l] EXCEPT !.session = session]
    <3>1. launches' = [launches EXCEPT ![l] = row]
      BY <2>5
    <3>2. row \in Rows /\ Moved(launches[l], row) /\ row.display = launches[l].display
      BY <1>t, <2>1, <2>5 DEF Rows, Moved, Coherent, Pending
    <3> HIDE DEF row, l
    <3> QED
      BY <2>1, <3>1, <3>2, RowStep
  <2> QED
    BY <1>3, <2>2, <2>4, <2>5 DEF FinishPlanning
<1>4. ASSUME NEW c \in Clients, StoreInspection(c)
      PROVE  /\ launches' \in Seq(Rows) /\ RunIds' = RunIds
             /\ \A k \in RunIds : Moved(launches[k], launches'[k]) /\ Shown(k)
  <2>1. Inspected(call[c].run, call[c].verdict)
    BY <1>4, <1>t DEF StoreInspection, CallsHold, Located
  <2> QED
    BY <1>4, <2>1, PersistStep DEF StoreInspection
<1>5. ASSUME NEW c \in Clients, DeleteRow(c)
      PROVE  /\ launches' \in Seq(Rows) /\ RunIds' = RunIds
             /\ \A k \in RunIds : Moved(launches[k], launches'[k]) /\ Shown(k)
  <2>1. \A k \in RunIds : launches'[k] = IF launches[k].p = call[c].p
                                        THEN NewLaunch(call[c].p, "DELETED", "DELETED", FALSE) ELSE launches[k]
    BY <1>5 DEF DeleteRow
  <2>2. launches' \in [1..Len(launches) -> Rows]
    BY <1>5, <1>t DEF DeleteRow, NewLaunch, RunIds, Rows, Displays
  <2>3. launches' \in Seq(Rows) /\ RunIds' = RunIds
    BY <1>t, <2>2 DEF RunIds
  <2> QED
    BY <1>t, <2>1, <2>3 DEF Moved, Shown, NewLaunch, Coherent, Pending
<1>6. CASE MonitorStores
  BY <1>6, PersistStep DEF MonitorStores, Inv, MonitorHolds
<1>7. CASE \E c \in Clients : StartLaunch(c)
  BY <1>2, <1>7, <1>t DEF Moved, Shown
<1> QED
  BY <1>1, <1>3, <1>4, <1>5, <1>6, <1>7, WorkStep, LaunchWriters

-----------------------------------------------------------------------------
(* What a step does to the requests in flight.                             *)

LEMMA InspectedStays ==
  ASSUME Inv, [Next]_vars, NEW l, NEW verdict, Inspected(l, verdict)
  PROVE  Inspected(l, verdict)'
  BY LaunchStep DEF Inspected, Truthful, Moved

LEMMA Classified ==
  ASSUME Inv, NEW l \in RunIds, launches[l].status \notin {"NONE", "DELETED"}
  PROVE  Inspected(l, Classify(l))
<1>1. launches[l] \in Rows
  BY DEF Inv, Types, RunIds
<1>2. launches[l].status \in {"RUNNING", "SUCCEEDED", "FAILED"}
  BY <1>1 DEF Rows
<1> QED
  BY <1>2 DEF Inspected, Truthful, Classify, Displays

\* The step of a request, as far as others can see it.
Goes(c) ==
  \/ /\ call'[c].op = "none"
     /\ call[c].at = "cloning" => call[c].p \in marred'
  \/ /\ call'[c].op = call[c].op /\ call'[c].p = call[c].p
     /\ call'[c].at = "cloning" => dir[call[c].p] = "none" /\ dir'[call[c].p] = "partial"
     /\ call[c].at = "cloning" => call'[c].at # "cloning" /\ dir'[call[c].p] # "partial"
     /\ call'[c].at = "erase" => dir'[call[c].p] = "none"
  \/ /\ call[c].op = "none" /\ call[c].at = "idle" /\ call'[c].at \notin {"cloning", "erase"}
     /\ \A p \in Ids : Registers(c, p)' => There(p)' /\ (Deleting(p) => p \in marred')
     /\ \A p \in Ids : Deletes(c, p)' =>
          DeletionAllowed(p) /\ ((\E d \in Clients : Registers(d, p)) => p \in marred')

LEMMA RequestStep ==
  ASSUME Inv, [Next]_vars, NEW c \in Clients, Request(c)
  PROVE  /\ call' = [call EXCEPT ![c] = call'[c]] /\ call'[c] \in Calls
         /\ Located(c)' /\ Goes(c)
<1>t. call \in [Clients -> Calls] /\ Located(c) /\ DiskTypes
  BY DEF Inv, Types, MemoryTypes, CallsHold
<1>i. call[c].at = "idle" => call[c].op = "none"
  BY <1>t DEF Located
<1>1. ASSUME NEW op \in {"register", "launch", "delete"}, NEW at \in {"mark", "sync", "remove"}, NEW p \in Ids,
             Begin(c, op, at, p, 0)
      PROVE  /\ call' = [call EXCEPT ![c] = call'[c]] /\ call'[c] \in Calls
             /\ call'[c].op = op /\ call'[c].at = at /\ call'[c].p = p /\ call[c].op = "none" /\ call[c].at = "idle"
  <2>1. call'[c] = [op |-> op, at |-> at, p |-> p, run |-> 0, verdict |-> "NONE"]
    BY <1>1, <1>t DEF Begin, Idle
  <2>2. call'[c] \in Calls
    BY <2>1, BoundsAssumption DEF Calls, Ids
  <2>3. call' = [call EXCEPT ![c] = call'[c]] /\ call[c].at = "idle"
    BY <1>1, <1>t, <2>1 DEF Begin, Idle
  <2> QED
    BY <1>i, <2>1, <2>2, <2>3
<1>2. CASE EnsureProject(c)
  <2>1. PICK p \in Ids : /\ Begin(c, "register", "mark", p, 0) /\ There(p)'
                         /\ p \in marred' \/ ~Deleting(p) \/ project[p] = NoProject
    BY <1>2, <1>t DEF EnsureProject, There, DiskTypes
  <2>2. /\ call' = [call EXCEPT ![c] = call'[c]] /\ call'[c] \in Calls
        /\ call'[c].op = "register" /\ call'[c].at = "mark" /\ call'[c].p = p
        /\ call[c].op = "none" /\ call[c].at = "idle"
    BY <1>1, <2>1
  <2>3. Located(c)'
    BY <2>2 DEF Located, Ids
  <2>4. Deleting(p) /\ project[p] = NoProject => p \in marred
    <3> SUFFICES ASSUME Deleting(p), project[p] = NoProject, p \notin marred PROVE FALSE
      OBVIOUS
    <3>1. PICK d \in Clients : call[d].p = p /\ call[d].at \in {"remove", "erase"}
      BY DEF Deleting
    <3>2. Deletes(d, p)
      BY <3>1 DEF Inv, CallsHold, Located, Deletes
    <3> QED
      BY <3>2 DEF Inv, Apart
  <2>5. marred \subseteq marred'
    BY DiskStep
  <2> QED
    BY <2>1, <2>2, <2>3, <2>4, <2>5 DEF Goes, Registers, Deletes
<1>3. CASE EnsureProjectActive(c)
  <2>1. PICK p \in Ids : Begin(c, "launch", "sync", p, 0)
    BY <1>3 DEF EnsureProjectActive
  <2>2. /\ call' = [call EXCEPT ![c] = call'[c]] /\ call'[c] \in Calls
        /\ call'[c].op = "launch" /\ call'[c].at = "sync" /\ call'[c].p = p
        /\ call[c].op = "none" /\ call[c].at = "idle"
    BY <1>1, <2>1
  <2>3. Located(c)'
    BY <2>2 DEF Located, Ids
  <2> QED
    BY <2>2, <2>3 DEF Goes, Registers, Deletes
<1>4. CASE EnsureDeletionAllowed(c)
  <2>1. PICK p \in Ids : /\ Begin(c, "delete", "remove", p, 0) /\ DeletionAllowed(p)
                         /\ (\E d \in Clients : Registers(d, p)) => p \in marred'
    BY <1>4 DEF EnsureDeletionAllowed, Registers
  <2>2. /\ call' = [call EXCEPT ![c] = call'[c]] /\ call'[c] \in Calls
        /\ call'[c].op = "delete" /\ call'[c].at = "remove" /\ call'[c].p = p
        /\ call[c].op = "none" /\ call[c].at = "idle"
    BY <1>1, <2>1
  <2>3. Located(c)'
    BY <2>2 DEF Located, Ids
  <2> QED
    BY <2>1, <2>2, <2>3 DEF Goes, Registers, Deletes
<1>5. CASE InspectRun(c)
  <2>1. PICK l \in RunIds :
          /\ launches[l].status \notin {"NONE", "DELETED"} /\ call[c].at = "idle"
          /\ call' = [call EXCEPT ![c] = [op |-> "inspect", at |-> "store", p |-> 0, run |-> l,
                                          verdict |-> Classify(l)]]
    BY <1>5 DEF InspectRun
  <2>2. Inspected(l, Classify(l))
    BY <2>1, Classified
  <2>3. Inspected(l, Classify(l)) /\ launches' = launches /\ RunIds' = RunIds
    BY <1>5, <2>2 DEF InspectRun, RunIds
  <2>4. l \in Nat /\ Classify(l) \in Displays
    BY <2>2 DEF Inspected, Inv, Types, RunIds
  <2>5. PICK v : v = Classify(l)
    OBVIOUS
  <2>6. call'[c] = [op |-> "inspect", at |-> "store", p |-> 0, run |-> l, verdict |-> v]
    BY <1>t, <2>1, <2>5
  <2>7. call'[c] \in Calls /\ call' = [call EXCEPT ![c] = call'[c]]
    BY <1>t, <2>1, <2>4, <2>5, <2>6, BoundsAssumption DEF Calls
  <2>8. Inspected(l, v)'
    BY <2>2, <2>5, InspectedStays
  <2>9. Located(c)'
    BY <2>6, <2>8 DEF Located
  <2> QED
    BY <1>i, <2>1, <2>6, <2>7, <2>9 DEF Goes, Registers, Deletes
<1> QED
  BY <1>2, <1>3, <1>4, <1>5 DEF Request

\* Going on within the handler, and returning from it.
LEMMA GoStep ==
  ASSUME Inv, NEW c \in Clients, NEW at, Go(c, at),
         at \in {"look", "clone", "cloning", "sync", "ready", "fail", "start", "plan", "run", "erase"}
  PROVE  /\ call' = [call EXCEPT ![c] = call'[c]] /\ call'[c] \in Calls
         /\ call'[c].op = call[c].op /\ call'[c].at = at /\ call'[c].p = call[c].p /\ call'[c].run = call[c].run
<1>1. call \in [Clients -> Calls] /\ call[c] \in Calls
  BY DEF Inv, Types, MemoryTypes
<1>2. call'[c] = [call[c] EXCEPT !.at = at] /\ call' = [call EXCEPT ![c] = call'[c]]
  BY <1>1 DEF Go
<1> QED
  BY <1>1, <1>2 DEF Calls

LEMMA ReturnStep ==
  ASSUME Inv, NEW c \in Clients, Return(c), call[c].at = "cloning" => call[c].p \in marred'
  PROVE  /\ call' = [call EXCEPT ![c] = call'[c]] /\ call'[c] \in Calls
         /\ Located(c)' /\ Goes(c)
<1>1. call \in [Clients -> Calls]
  BY DEF Inv, Types, MemoryTypes
<1>2. call'[c] = Idle /\ call' = [call EXCEPT ![c] = call'[c]]
  BY <1>1 DEF Return
<1>3. call'[c] \in Calls /\ call'[c].op = "none" /\ call'[c].at = "idle"
  BY <1>2, BoundsAssumption DEF Idle, Calls
<1> QED
  BY <1>2, <1>3 DEF Goes, Located

LEMMA ProceedStep ==
  ASSUME Inv, [Next]_vars, NEW c \in Clients, Proceed(c) \/ RequestDies(c)
  PROVE  /\ call' = [call EXCEPT ![c] = call'[c]] /\ call'[c] \in Calls
         /\ Located(c)' /\ Goes(c)
<1>t. Located(c) /\ DiskTypes /\ Ids' = Ids /\ \A l \in RunIds : l \in RunIds'
  BY LaunchStep DEF Inv, Types, CallsHold, Ids
<1>r. ASSUME Return(c), call[c].at = "cloning" => call[c].p \in marred'
      PROVE  call' = [call EXCEPT ![c] = call'[c]] /\ call'[c] \in Calls /\ Located(c)' /\ Goes(c)
  BY <1>r, ReturnStep
<1>g. ASSUME NEW at \in {"look", "clone", "sync", "ready", "fail", "start"},
             Go(c, at), call[c].at # "cloning", call[c].op \in {"register", "launch"},
             call[c].op = "launch" => at \in {"sync", "start"},
             call[c].op = "register" => at # "start"
      PROVE  call' = [call EXCEPT ![c] = call'[c]] /\ call'[c] \in Calls /\ Located(c)' /\ Goes(c)
  <2>1. /\ call' = [call EXCEPT ![c] = call'[c]] /\ call'[c] \in Calls
        /\ call'[c].op = call[c].op /\ call'[c].at = at /\ call'[c].p = call[c].p
    BY <1>g, GoStep
  <2>2. call[c].p \in Ids
    BY <1>g, <1>t DEF Located
  <2>3. Located(c)'
    BY <1>g, <1>t, <2>1, <2>2 DEF Located
  <2> QED
    BY <1>g, <2>1, <2>3 DEF Goes
<1>1. CASE MarkProvisioning(c) \/ LookForDirectory(c) \/ MarkReady(c)
  <2>1. call[c].at \in {"mark", "look", "ready"} /\ (Return(c) \/ \E at \in {"look", "clone", "sync", "fail"} : Go(c, at))
    BY <1>1 DEF MarkProvisioning, LookForDirectory, MarkReady
  <2>2. call[c].op = "register"
    BY <1>t, <2>1 DEF Located
  <2> QED
    BY <1>r, <1>g, <2>1, <2>2
<1>2. CASE Synchronize(c)
  <2>1. /\ call[c].at = "sync"
        /\ Return(c) \/ \E at \in {"fail", "ready", "start"} : Go(c, at) /\ (at = "start" <=> call[c].op # "register")
    BY <1>2 DEF Synchronize
  <2>2. call[c].op \in {"register", "launch"}
    BY <1>t, <2>1 DEF Located
  <2> QED
    BY <1>r, <1>g, <2>1, <2>2
<1>3. CASE MarkFailed(c) \/ StoreInspection(c) \/ DeleteRow(c) \/ StartRun(c)
  BY <1>3, <1>r DEF MarkFailed, StoreInspection, DeleteRow, StartRun
<1>4. CASE RequestDies(c)
  BY <1>4, <1>r DEF RequestDies
<1>5. CASE BeginClone(c)
  <2>1. call[c].op = "register" /\ call[c].p \in Ids /\ call[c].at = "clone"
    BY <1>5, <1>t DEF BeginClone, Located
  <2>2. CASE Go(c, "fail")
    BY <1>g, <2>1, <2>2
  <2>3. CASE dir[call[c].p] = "none" /\ dir' = [dir EXCEPT ![call[c].p] = "partial"] /\ Go(c, "cloning")
    <3>1. /\ call' = [call EXCEPT ![c] = call'[c]] /\ call'[c] \in Calls
          /\ call'[c].op = call[c].op /\ call'[c].at = "cloning" /\ call'[c].p = call[c].p
      BY <2>3, GoStep
    <3>2. dir'[call[c].p] = "partial"
      BY <1>t, <2>1, <2>3 DEF DiskTypes
    <3>3. Located(c)'
      BY <1>t, <2>1, <3>1 DEF Located
    <3> QED
      BY <2>1, <2>3, <3>1, <3>2, <3>3 DEF Goes
  <2> QED
    BY <1>5, <2>2, <2>3 DEF BeginClone
<1>6. CASE EndClone(c)
  <2>1. call[c].op = "register" /\ call[c].p \in Ids /\ call[c].at = "cloning"
    BY <1>6, <1>t DEF EndClone, Located
  <2>2. dir'[call[c].p] # "partial"
    BY <1>6, <1>t, <2>1 DEF EndClone, DiskTypes
  <2>3. PICK at \in {"sync", "fail"} : Go(c, at)
    BY <1>6 DEF EndClone
  <2>4. /\ call' = [call EXCEPT ![c] = call'[c]] /\ call'[c] \in Calls
        /\ call'[c].op = call[c].op /\ call'[c].at = at /\ call'[c].p = call[c].p
    BY <2>3, GoStep
  <2>5. Located(c)'
    BY <1>t, <2>1, <2>4 DEF Located
  <2> QED
    BY <2>1, <2>2, <2>4, <2>5 DEF Goes
<1>7. CASE StartLaunch(c)
  <2>1. call[c].op = "launch" /\ call[c].p \in Ids /\ call[c].at = "start"
    BY <1>7, <1>t DEF StartLaunch, Located
  <2>2. CASE Return(c)
    BY <1>r, <2>1, <2>2
  <2>3. ASSUME call' = [call EXCEPT ![c].at = "plan", ![c].run = Len(launches) + 1],
               NEW row, launches' = Append(launches, row)
        PROVE  call' = [call EXCEPT ![c] = call'[c]] /\ call'[c] \in Calls /\ Located(c)' /\ Goes(c)
    <3>1. call \in [Clients -> Calls] /\ call[c] \in Calls /\ launches \in Seq(Rows)
      BY DEF Inv, Types, MemoryTypes
    <3>2. Len(launches) + 1 \in RunIds' /\ Len(launches) + 1 \in Nat
      BY <2>3, <3>1, LaunchStep DEF RunIds
    <3>3. call'[c] = [call[c] EXCEPT !.at = "plan", !.run = Len(launches) + 1]
          /\ call' = [call EXCEPT ![c] = call'[c]]
      BY <2>3, <3>1
    <3>4. call'[c] \in Calls /\ call'[c].op = "launch" /\ call'[c].at = "plan" /\ call'[c].p = call[c].p
          /\ call'[c].run \in RunIds'
      BY <2>1, <3>1, <3>2, <3>3 DEF Calls
    <3>5. Located(c)'
      BY <1>t, <2>1, <3>4 DEF Located
    <3> QED
      BY <2>1, <3>3, <3>4, <3>5 DEF Goes
  <2> QED
    BY <1>7, <2>2, <2>3 DEF StartLaunch
<1>8. CASE FinishPlanning(c)
  <2>1. call[c].op = "launch" /\ call[c].p \in Ids /\ call[c].at = "plan" /\ call[c].run \in RunIds
    BY <1>8, <1>t DEF FinishPlanning, Located
  <2>2. CASE Return(c)
    BY <1>r, <2>1, <2>2
  <2>3. CASE Go(c, "run")
    <3>1. /\ call' = [call EXCEPT ![c] = call'[c]] /\ call'[c] \in Calls
          /\ call'[c].op = call[c].op /\ call'[c].at = "run" /\ call'[c].p = call[c].p
          /\ call'[c].run = call[c].run
      BY <2>3, GoStep
    <3>2. Located(c)'
      BY <1>t, <2>1, <3>1 DEF Located
    <3> QED
      BY <2>1, <3>1, <3>2 DEF Goes
  <2> QED
    BY <1>8, <2>2, <2>3 DEF FinishPlanning
<1>9. CASE RemoveArtifacts(c)
  <2>1. call[c].op = "delete" /\ call[c].p \in Ids /\ call[c].at = "remove"
    BY <1>9, <1>t DEF RemoveArtifacts, Located
  <2>2. CASE Return(c)
    BY <1>r, <2>1, <2>2
  <2>3. CASE dir' = [dir EXCEPT ![call[c].p] = "none"] /\ Go(c, "erase")
    <3>1. /\ call' = [call EXCEPT ![c] = call'[c]] /\ call'[c] \in Calls
          /\ call'[c].op = call[c].op /\ call'[c].at = "erase" /\ call'[c].p = call[c].p
      BY <2>3, GoStep
    <3>2. dir'[call[c].p] = "none"
      BY <1>t, <2>1, <2>3 DEF DiskTypes
    <3>3. Located(c)'
      BY <1>t, <2>1, <3>1 DEF Located
    <3> QED
      BY <2>1, <3>1, <3>2, <3>3 DEF Goes
  <2> QED
    BY <1>9, <2>2, <2>3 DEF RemoveArtifacts
<1> QED
  BY <1>1, <1>2, <1>3, <1>4, <1>5, <1>6, <1>7, <1>8, <1>9 DEF Proceed

LEMMA CallStep ==
  ASSUME Inv, [Next]_vars
  PROVE  /\ call' \in [Clients -> Calls] /\ CallsHold'
         /\ UNCHANGED call \/ \E c \in Clients : Goes(c) /\ \A d \in Clients \ {c} : call'[d] = call[d]
<1>t. call \in [Clients -> Calls] /\ CallsHold /\ Ids' = Ids /\ \A l \in RunIds : l \in RunIds'
  BY LaunchStep DEF Inv, Types, MemoryTypes, Ids
<1>1. ASSUME NEW d \in Clients, call'[d] = call[d] PROVE Located(d)'
  <2>1. Located(d)
    BY <1>t DEF CallsHold
  <2>2. CASE call[d].op = "inspect"
    <3>1. PICK l, v : l = call[d].run /\ v = call[d].verdict /\ Inspected(l, v) /\ call[d].at = "store"
      BY <2>1, <2>2 DEF Located
    <3>2. Inspected(l, v)'
      BY <3>1, InspectedStays
    <3> QED
      BY <1>1, <2>2, <3>1, <3>2 DEF Located
  <2>3. CASE call[d].op # "inspect"
    BY <1>1, <1>t, <2>1, <2>3 DEF Located
  <2> QED
    BY <2>2, <2>3
<1>2. CASE UNCHANGED call
  BY <1>1, <1>2, <1>t DEF CallsHold
<1>3. ASSUME NEW c \in Clients, Request(c) \/ Proceed(c) \/ RequestDies(c)
      PROVE  /\ call' \in [Clients -> Calls] /\ CallsHold'
             /\ Goes(c) /\ \A d \in Clients \ {c} : call'[d] = call[d]
  <2>1. call' = [call EXCEPT ![c] = call'[c]] /\ call'[c] \in Calls /\ Located(c)' /\ Goes(c)
    BY <1>3, RequestStep, ProceedStep
  <2>2. call' \in [Clients -> Calls] /\ \A d \in Clients \ {c} : call'[d] = call[d]
    BY <1>t, <2>1
  <2>3. \A d \in Clients : Located(d)'
    BY <1>1, <2>1, <2>2
  <2> QED
    BY <2>1, <2>2, <2>3 DEF CallsHold
<1> QED
  BY <1>2, <1>3, CallWriters

-----------------------------------------------------------------------------
(* The monitor.                                                            *)

LEMMA MinIn ==
  ASSUME NEW S \in SUBSET Nat, S # {}
  PROVE  Min(S) \in S
<1> DEFINE R == {ss \in Nat \X Nat : ss[1] < ss[2]}
<1>1. IsWellFoundedOn(R, Nat)
  BY NatLessThanWellFounded, Zenon DEF OpToRel
<1> HIDE DEF R
<1>2. PICK x \in S : \A y \in S : ~(<<y, x>> \in R)
  BY <1>1, WFMin
<1>3. x \in Nat /\ \A y \in S : y \in Nat /\ ~(y < x)
  BY <1>2 DEF R
<1>4. \A y \in S : x <= y
  BY <1>3
<1> QED
  BY <1>4 DEF Min

LEMMA MonitorStep ==
  ASSUME Inv, [Next]_vars
  PROVE  monitor' \in Monitors /\ MonitorHolds'
<1>t. /\ monitor \in Monitors /\ MonitorHolds /\ launches \in Seq(Rows)
      /\ RunIds \in SUBSET Nat /\ RunIds \subseteq RunIds'
      /\ \A l \in RunIds : launches[l].status # "NONE" => launches'[l].status # "NONE"
  BY LaunchStep DEF Inv, Types, MemoryTypes, RunIds, Moved
<1>1. CASE UNCHANGED monitor
  <2>1. monitor.at = "storing" => Inspected(monitor.run, monitor.verdict)'
    <3> SUFFICES ASSUME monitor.at = "storing" PROVE Inspected(monitor.run, monitor.verdict)'
      OBVIOUS
    <3>1. PICK l, v : l = monitor.run /\ v = monitor.verdict /\ Inspected(l, v)
      BY <1>t DEF MonitorHolds
    <3>2. Inspected(l, v)'
      BY <3>1, InspectedStays
    <3> QED
      BY <1>1, <3>1, <3>2
  <2> QED
    BY <1>1, <1>t, <2>1 DEF MonitorHolds
<1>2. CASE MonitorWakes
  <2>1. Refreshed \in SUBSET RunIds /\ \A l \in Refreshed : launches[l].status = "RUNNING"
    BY DEF Refreshed, Running
  <2>2. PICK S : S = Refreshed
    OBVIOUS
  <2>3. monitor' = [monitor EXCEPT !.at = "reading", !.todo = S] /\ S # {}
    BY <1>2, <2>2 DEF MonitorWakes
  <2>4. monitor' \in Monitors /\ monitor'.todo = S /\ monitor'.at = "reading"
    BY <1>t, <2>1, <2>2, <2>3 DEF Monitors
  <2> QED
    BY <1>t, <2>1, <2>2, <2>3, <2>4 DEF MonitorHolds
<1>3. CASE MonitorInspects
  <2>1. PICK l : l = Min(monitor.todo) /\ l \in monitor.todo
    BY <1>3, <1>t, MinIn DEF MonitorInspects, MonitorHolds, Monitors
  <2>2. l \in RunIds /\ launches[l].status # "NONE"
    BY <1>t, <2>1 DEF MonitorHolds
  <2>3. CASE launches[l].status = "DELETED"
    <3>1. monitor' = [at |-> "dead", todo |-> {}, run |-> 0, verdict |-> "NONE"]
      BY <1>3, <2>1, <2>3 DEF MonitorInspects, Sleeping
    <3> QED
      BY <3>1 DEF Monitors, MonitorHolds
  <2>4. CASE launches[l].status # "DELETED"
    <3>1. PICK v : v = Classify(l) /\ Inspected(l, v)
      BY <2>2, <2>4, Classified
    <3>2. monitor' = [monitor EXCEPT !.at = "storing", !.run = l, !.verdict = v]
      BY <1>3, <2>1, <2>4, <3>1 DEF MonitorInspects
    <3>3. l \in Nat /\ v \in Displays /\ Inspected(l, v)'
      BY <1>t, <2>2, <3>1, InspectedStays DEF Inspected
    <3>4. /\ monitor' \in Monitors /\ monitor'.todo = monitor.todo /\ monitor'.at = "storing"
          /\ monitor'.run = l /\ monitor'.verdict = v
      BY <1>t, <3>2, <3>3 DEF Monitors
    <3> QED
      BY <1>t, <2>1, <3>3, <3>4 DEF MonitorHolds
  <2> QED
    BY <2>3, <2>4
<1>4. CASE MonitorStores
  <2>1. CASE monitor.todo = {monitor.run}
    <3>1. monitor' = [at |-> "sleeping", todo |-> {}, run |-> 0, verdict |-> "NONE"]
      BY <1>4, <2>1 DEF MonitorStores, Sleeping
    <3> QED
      BY <3>1 DEF Monitors, MonitorHolds
  <2>2. CASE monitor.todo # {monitor.run}
    <3>1. monitor' = [at |-> "reading", todo |-> monitor.todo \ {monitor.run}, run |-> 0, verdict |-> "NONE"]
      BY <1>4, <2>2 DEF MonitorStores, Sleeping
    <3>2. monitor.todo # {} /\ monitor.todo \ {monitor.run} # {}
      BY <1>4, <1>t, <2>2 DEF MonitorStores, MonitorHolds
    <3>3. monitor' \in Monitors
      BY <1>t, <3>1 DEF Monitors
    <3> QED
      BY <1>t, <3>1, <3>2, <3>3 DEF MonitorHolds
  <2> QED
    BY <2>1, <2>2
<1> QED
  BY <1>1, <1>2, <1>3, <1>4, MonitorWriters DEF Monitor

-----------------------------------------------------------------------------
(* The directories.                                                        *)

LEMMA DirStep ==
  ASSUME Inv, [Next]_vars, NEW p \in Ids, dir'[p] # dir[p], p \notin marred'
  PROVE  \E c \in Clients :
           \/ /\ Registers(c, p) /\ dir[p] = "none" /\ dir'[p] = "partial" /\ Clones(c, p)'
           \/ /\ Clones(c, p) /\ dir'[p] # "partial" /\ ~Clones(c, p)'
           \/ /\ Deletes(c, p) /\ dir'[p] = "none"
<1>t. DiskTypes /\ CallsHold
  BY DEF Inv, Types
<1>1. \E c \in Clients : BeginClone(c) \/ EndClone(c) \/ RemoveArtifacts(c)
  <2>1. ASSUME NEW c \in Clients,
               EnsureProject(c) \/ MarkProvisioning(c) \/ MarkReady(c) \/ MarkFailed(c)
                 \/ EnsureDeletionAllowed(c) \/ DeleteRow(c) \/ RequestDies(c)
        PROVE  UNCHANGED dir
    BY <2>1 DEF EnsureProject, MarkProvisioning, MarkReady, MarkFailed, EnsureDeletionAllowed, DeleteRow, RequestDies
  <2>2. ASSUME NEW q \in Ids, NEW x, NEW y, SetProjectLifecycle(q, x, y) PROVE UNCHANGED dir
    BY <2>2 DEF SetProjectLifecycle
  <2> QED
    BY <2>1, <2>2, DiskWriters
<1>2. PICK c \in Clients : BeginClone(c) \/ EndClone(c) \/ RemoveArtifacts(c)
  BY <1>1
<1>3. call[c].p = p /\ Located(c)
  BY <1>2, <1>t DEF BeginClone, EndClone, RemoveArtifacts, DiskTypes, CallsHold
<1>4. CASE BeginClone(c)
  <2>1. Registers(c, p) /\ Go(c, "cloning") /\ dir[p] = "none" /\ dir'[p] = "partial"
    BY <1>3, <1>4, <1>t DEF BeginClone, DiskTypes, Registers, Located
  <2> QED
    BY <1>3, <2>1, GoStep DEF Clones
<1>5. CASE EndClone(c)
  <2>1. Clones(c, p) /\ dir'[p] # "partial" /\ (Go(c, "sync") \/ Go(c, "fail"))
    BY <1>3, <1>5, <1>t DEF EndClone, DiskTypes, Clones
  <2> QED
    BY <2>1, GoStep DEF Clones
<1>6. CASE RemoveArtifacts(c)
  BY <1>3, <1>6, <1>t DEF RemoveArtifacts, DiskTypes, Deletes, Located
<1> QED
  BY <1>2, <1>4, <1>5, <1>6

LEMMA ClonesRegisters ==
  ASSUME Inv, NEW c \in Clients, NEW p, Clones(c, p)
  PROVE  Registers(c, p)
  BY DEF Inv, CallsHold, Located, Clones, Registers

LEMMA DeletingDeletes ==
  ASSUME Inv, NEW p
  PROVE  Deleting(p) <=> \E c \in Clients : Deletes(c, p)
  BY DEF Inv, CallsHold, Located, Deleting, Deletes

LEMMA ApartStep ==
  ASSUME Inv, [Next]_vars
  PROVE  Apart'
<1> SUFFICES ASSUME NEW p \in Ids, p \notin marred'
             PROVE  /\ \A c, d \in Clients : ~(Registers(c, p)' /\ Deletes(d, p)')
                    /\ \A c, d \in Clients : Clones(c, p)' /\ Clones(d, p)' => c = d
                    /\ \A c \in Clients : Clones(c, p)' => dir'[p] = "partial"
                    /\ \A c \in Clients : Deletes(c, p)' => project'[p] # NoProject
                    /\ \A c \in Clients : Deletes(c, p)' /\ call'[c].at = "erase" => dir'[p] = "none"
                    /\ \A c \in Clients : Registers(c, p)' => There(p)'
                    /\ ~There(p)' => dir'[p] = "none"
                    /\ dir'[p] = "partial" => \E c \in Clients : Clones(c, p)'
  BY DEF Apart, Ids
<1>m. p \in Ids \ marred
  BY DiskStep
<1>a. /\ \A c, d \in Clients : ~(Registers(c, p) /\ Deletes(d, p))
      /\ \A c, d \in Clients : Clones(c, p) /\ Clones(d, p) => c = d
      /\ \A c \in Clients : Clones(c, p) => dir[p] = "partial"
      /\ \A c \in Clients : Deletes(c, p) => project[p] # NoProject
      /\ \A c \in Clients : Deletes(c, p) /\ call[c].at = "erase" => dir[p] = "none"
      /\ \A c \in Clients : Registers(c, p) => There(p)
      /\ ~There(p) => dir[p] = "none"
      /\ dir[p] = "partial" => \E c \in Clients : Clones(c, p)
  BY <1>m DEF Inv, Apart
<1>c. \A c \in Clients : Clones(c, p) => Registers(c, p)
  BY ClonesRegisters
<1>l. \A c \in Clients : Located(c) /\ Located(c)'
  BY CallStep DEF Inv, CallsHold
\* What each request does.
<1>r. ASSUME NEW c \in Clients, Registers(c, p)', ~Registers(c, p)
      PROVE  There(p)' /\ (\A d \in Clients : ~Deletes(d, p)) /\ ~Deletes(c, p)' /\ \A d \in Clients \ {c} : call'[d] = call[d]
  <2>1. Goes(c) /\ \A d \in Clients \ {c} : call'[d] = call[d]
    BY <1>r, CallStep DEF Registers
  <2> QED
    BY <1>r, <2>1, DeletingDeletes DEF Goes, Registers, Deletes
<1>d. ASSUME NEW c \in Clients, Deletes(c, p)', ~Deletes(c, p)
      PROVE  /\ There(p) /\ (\A d \in Clients : ~Registers(d, p)) /\ call'[c].at # "erase"
             /\ ~Registers(c, p)' /\ \A d \in Clients \ {c} : call'[d] = call[d]
  <2>1. Goes(c) /\ \A d \in Clients \ {c} : call'[d] = call[d]
    BY <1>d, CallStep DEF Deletes
  <2> QED
    BY <1>d, <2>1 DEF Goes, Registers, Deletes, DeletionAllowed
<1>k. ASSUME NEW c \in Clients, Clones(c, p)', ~Clones(c, p)
      PROVE  dir[p] = "none" /\ dir'[p] = "partial" /\ \A d \in Clients \ {c} : call'[d] = call[d]
  <2>1. Goes(c) /\ \A d \in Clients \ {c} : call'[d] = call[d]
    BY <1>k, CallStep DEF Clones
  <2> QED
    BY <1>k, <1>l, <2>1 DEF Goes, Clones, Located
<1>e. ASSUME NEW c \in Clients, Clones(c, p), ~Clones(c, p)'
      PROVE  dir'[p] # "partial"
  <2>1. Goes(c)
    BY <1>e, CallStep DEF Clones
  <2> QED
    BY <1>e, <1>l, <2>1 DEF Goes, Clones, Located
<1>f. ASSUME NEW c \in Clients, Deletes(c, p), Deletes(c, p)', call'[c].at = "erase", call[c].at # "erase"
      PROVE  dir'[p] = "none"
  <2>1. Goes(c)
    BY <1>f, CallStep
  <2> QED
    BY <1>f, <2>1 DEF Goes, Deletes
<1>1. \A c, d \in Clients : ~(Registers(c, p)' /\ Deletes(d, p)')
  BY <1>a, <1>r, <1>d DEF Registers, Deletes
<1>2. \A c, d \in Clients : Clones(c, p)' /\ Clones(d, p)' => c = d
  BY <1>a, <1>k DEF Clones
<1>3. ASSUME NEW c \in Clients, Clones(c, p)' PROVE dir'[p] = "partial"
  <2>1. CASE Clones(c, p)
    BY <1>3, <1>a, <1>c, <2>1, DirStep
  <2> QED
    BY <1>3, <1>k, <2>1
<1>4. \A c \in Clients : Deletes(c, p)' => project'[p] # NoProject
  <2>1. There(p) => project[p] # NoProject
    BY DEF There, NoProject
  <2> QED
    BY <1>a, <1>d, <2>1, DiskStep
<1>5. ASSUME NEW c \in Clients, Deletes(c, p)', call'[c].at = "erase" PROVE dir'[p] = "none"
  <2>1. Deletes(c, p)
    BY <1>5, <1>d
  <2>2. CASE call[c].at = "erase"
    <3>1. dir[p] = "none"
      BY <1>a, <2>1, <2>2
    <3> QED
      BY <1>a, <1>c, <2>1, <3>1, DirStep
  <2> QED
    BY <1>5, <1>f, <2>1, <2>2
<1>6. \A c \in Clients : Registers(c, p)' => There(p)'
  <2>1. ASSUME There(p), ~There(p)' PROVE \E c \in Clients : Deletes(c, p)
    BY <2>1, <1>l, DiskStep DEF DeleteRow, Located, Deletes
  <2> QED
    BY <1>a, <1>r, <2>1
<1>7. ASSUME ~There(p)' PROVE dir'[p] = "none"
  <2>1. CASE ~There(p)
    BY <1>a, <1>c, <2>1, DirStep
  <2>2. CASE There(p)
    <3>1. PICK c \in Clients : DeleteRow(c) /\ call[c].p = p
      BY <1>7, <2>2, DiskStep
    <3>2. Deletes(c, p) /\ call[c].at = "erase" /\ UNCHANGED dir
      BY <1>l, <3>1 DEF DeleteRow, Located, Deletes
    <3> QED
      BY <1>a, <3>2
  <2> QED
    BY <2>1, <2>2
<1>8. ASSUME dir'[p] = "partial" PROVE \E c \in Clients : Clones(c, p)'
  BY <1>8, <1>a, <1>e, DirStep
<1> QED
  BY <1>1, <1>2, <1>3, <1>4, <1>5, <1>6, <1>7, <1>8

-----------------------------------------------------------------------------
(* The launches.                                                           *)

LEMMA LaunchesHoldStep ==
  ASSUME Inv, [Next]_vars
  PROVE  LaunchesHold'
<1> SUFFICES ASSUME NEW l \in RunIds'
             PROVE  /\ Coherent(launches'[l])
                    /\ launches'[l].status # "DELETED" => There(launches[l].p)'
                    /\ Truthful(l, launches[l].display)'
  BY DEF LaunchesHold, Coherent
<1>1. CASE l \in RunIds
  <2>1. /\ Moved(launches[l], launches'[l]) /\ Shown(l) /\ launches[l] \in Rows
        /\ launches[l].status # "DELETED" => There(launches[l].p)
        /\ Truthful(l, launches[l].display)
    BY <1>1, LaunchStep DEF Inv, Types, LaunchesHold, RunIds
  <2>2. ASSUME launches'[l].status # "DELETED" PROVE There(launches[l].p)'
    <3>1. PICK p \in Ids : p = launches[l].p /\ p = launches'[l].p
      BY <2>1 DEF Moved, Rows
    <3>2. There(p)
      BY <2>1, <2>2, <3>1 DEF Moved
    <3>3. ASSUME NEW c \in Clients, DeleteRow(c), call[c].p = p PROVE FALSE
      BY <1>1, <2>2, <3>1, <3>3 DEF DeleteRow, NewLaunch
    <3>4. There(p)'
      BY <3>2, <3>3, DiskStep
    <3> QED
      BY <3>1, <3>4
  <2>3. Truthful(l, launches[l].display)'
    BY <2>1 DEF Truthful, Moved, Shown
  <2> QED
    BY <2>1, <2>2, <2>3 DEF Moved
<1>2. CASE l \notin RunIds
  <2>1. PICK c \in Clients : Fresh(c, launches'[l])
    BY <1>2, LaunchStep
  <2>2. UNCHANGED project
    BY <2>1 DEF Fresh, StartLaunch
  <2> QED
    BY <2>1, <2>2 DEF Fresh, There, Truthful
<1> QED
  BY <1>1, <1>2

LEMMA LateStep ==
  ASSUME Inv, [Next]_vars
  PROVE  LateOnly'
<1> SUFFICES ASSUME NEW l \in RunIds', NEW p \in Ids, p = launches'[l].p,
                    Pending(launches'[l]), ~launches'[l].late, p \notin marred'
             PROVE  dir'[p] = "ready" /\ \A c \in Clients : ~Deletes(c, p)'
  <2>1. launches' \in Seq(Rows)
    BY LaunchStep
  <2>2. \A k \in RunIds' : launches'[k] \in Rows
    BY <2>1 DEF RunIds
  <2>3. \A k \in RunIds' : launches'[k].p \in Ids
    BY <2>2 DEF Rows
  <2> QED
    BY <2>3 DEF LateOnly, Ready, Deletes, Pending
<1>m. p \notin marred
  BY DiskStep
<1>1. CASE l \in RunIds
  <2>1. Pending(launches[l]) /\ ~launches[l].late /\ p = launches[l].p
    BY <1>1, LaunchStep DEF Moved
  <2>2. dir[p] = "ready" /\ \A c \in Clients : ~Deletes(c, p)
    BY <1>1, <1>m, <2>1 DEF Inv, LateOnly, Ready
  <2>3. ASSUME NEW c \in Clients, Deletes(c, p)' PROVE FALSE
    <3>1. Goes(c)
      BY <2>2, <2>3, CallStep DEF Deletes
    <3>2. DeletionAllowed(p)
      BY <2>2, <2>3, <3>1 DEF Goes, Deletes
    <3> QED
      BY <1>1, <2>1, <3>2 DEF DeletionAllowed, Running, Pending
  <2>4. \A c \in Clients : ~Clones(c, p)
    BY <1>m, <2>2 DEF Inv, Apart
  <2> QED
    BY <2>2, <2>3, <2>4, DirStep
<1>2. CASE l \notin RunIds
  <2>1. PICK c \in Clients : Fresh(c, launches'[l])
    BY <1>2, LaunchStep
  <2>2. StartLaunch(c) /\ ~Late(p) /\ UNCHANGED dir
    BY <2>1 DEF Fresh, StartLaunch
  <2>3. Ready(p) /\ \A d \in Clients : ~Deletes(d, p)
    BY <2>2, DeletingDeletes DEF Late
  <2>4. call \in [Clients -> Calls] /\ call[c].op = "launch"
    BY <2>2 DEF Inv, Types, MemoryTypes, CallsHold, Located, StartLaunch
  <2>5. call'[c].op # "delete" /\ \A d \in Clients \ {c} : call'[d] = call[d]
    <3>1. Return(c) \/ call' = [call EXCEPT ![c].at = "plan", ![c].run = Len(launches) + 1]
      BY <2>2 DEF StartLaunch
    <3>2. CASE Return(c)
      BY <2>4, <3>2 DEF Return, Idle
    <3>3. CASE call' = [call EXCEPT ![c].at = "plan", ![c].run = Len(launches) + 1]
      BY <2>4, <3>3 DEF Calls
    <3> QED
      BY <3>1, <3>2, <3>3
  <2> QED
    BY <2>2, <2>3, <2>5 DEF Ready, Deletes
<1> QED
  BY <1>1, <1>2

-----------------------------------------------------------------------------
(* Theorems.                                                               *)

LEMMA InvHolds == Spec => []Inv
<1>1. Inv /\ [Next]_vars => Inv'
  <2> SUFFICES ASSUME Inv, [Next]_vars PROVE Inv'
    OBVIOUS
  <2>1. Types'
    BY DiskStep, CountStep, CallStep, MonitorStep, LaunchStep DEF Types, MemoryTypes
  <2> QED
    BY <2>1, CallStep, MonitorStep, LaunchesHoldStep, LateStep, ApartStep DEF Inv
<1> QED
  BY <1>1, InitInv, PTL DEF Spec

\* However registrations, launches, inspections and deletions overlap and are
\* cut off, delete_project takes the workspace only from Runs that were
\* launched behind its back, and the projection of a Run that ended is its
\* end; the sets of rows are as TypeOK says.
THEOREM RunsTheorem == Spec => []RunsSound
<1>1. Inv => RunsSound
  <2> SUFFICES ASSUME Inv PROVE RunsSound
    OBVIOUS
  <2>1. TypeOK
    <3>1. \A l \in RunIds : launches[l] \in Rows
      BY DEF Inv, Types, RunIds
    <3>2. \A l \in RunIds : /\ launches[l].lease => Running(l)
                            /\ launches[l].status # "DELETED" => There(launches[l].p)
      BY DEF Inv, LaunchesHold, Coherent, Running
    <3>3. monitor.at \in {"sleeping", "reading", "storing", "dead"} /\ monitor.todo \subseteq RunIds
      BY DEF Inv, Types, MemoryTypes, Monitors, MonitorHolds
    <3> QED
      BY <3>1, <3>2, <3>3 DEF TypeOK, Inv, Types, DiskTypes, CountTypes, Projects, Rows, Displays
  <2>2. DisplayTruthful
    BY DEF Inv, LaunchesHold, DisplayTruthful, Truthful
  <2>3. WorkspaceKept
    BY DEF Inv, LateOnly, WorkspaceKept, Pending, Running
  <2> QED
    BY <2>1, <2>2, <2>3 DEF RunsSound
<1> QED
  BY <1>1, InvHolds, PTL

\* Every managed directory belongs to a project that is there, every half
\* clone to a request that is still cloning, unless a collision or a crash
\* has touched it: provision and delete_project leave nothing else behind.
THEOREM DirectoriesTheorem == Spec => []DirectoriesOwned
<1>1. Inv => DirectoriesOwned
  BY DEF Inv, Apart, DirectoriesOwned, NoOrphanDirectory, HalfCloneOwned, Clones
<1> QED
  BY <1>1, InvHolds, PTL
=============================================================================
