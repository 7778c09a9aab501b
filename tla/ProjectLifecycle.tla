-------------------------- MODULE ProjectLifecycle --------------------------
(***************************************************************************)
(* A repository is registered, its managed workspace is cloned, Runs are   *)
(* launched in it, watched, archived, and the project is deleted again.    *)
(* Every request is a sequence of database transactions and file system    *)
(* operations; no lock spans them, so that requests overlap freely, and    *)
(* any of them may be cut off between two steps.  A monitor classifies the *)
(* Runs that are RUNNING and stores what users are shown.                  *)
(*                                                                         *)
(* One repository and branch; a project that was deleted is registered     *)
(* again under a new id.  A launch stands for the development session and  *)
(* the Run it leads to.  The agents are reduced to their leases and events.*)
(***************************************************************************)
EXTENDS Integers, Sequences, FiniteSets, FiniteSetsExt

CONSTANTS Clients,       \* requests in flight at one time
          MaxProjects,   \* bound: ids handed out
          MaxRequests,   \* bound: requests that are made
          MaxLaunches,   \* bound
          Limit,         \* RUNNING Runs that refresh_running looks at
          MaxFaults      \* bound: failures of git and of processes

ASSUME BoundsAssumption == MaxProjects \in Nat /\ MaxRequests \in Nat /\ MaxLaunches \in Nat
                           /\ Limit \in Nat \ {0} /\ MaxFaults \in Nat

VARIABLES project,    \* [ids -> row of projects]
          dir,        \* [ids -> the managed directory]
          launches,   \* development session and Run of each launch
          call,       \* [Clients -> request in flight]
          monitor,    \* the recovery monitor: Runs to look at, verdict to store
          marred,     \* history: ids whose directory a collision or a crash has touched
          requests,   \* counts them
          faults

vars == <<project, dir, launches, call, monitor, marred, requests, faults>>

Ids == 1..MaxProjects
RunIds == DOMAIN launches

NoProject == [life |-> "NONE", provision |-> "NONE"]
Erased == [life |-> "ERASED", provision |-> "NONE"]
There(p) == project[p].life \in {"ACTIVE", "ARCHIVED"}

\* readiness: a clone of the right repository and branch, without local changes.
Ready(p) == dir[p] = "ready"

Idle == [op |-> "none", at |-> "idle", p |-> 0, run |-> 0, verdict |-> "NONE"]

Sleeping == [at |-> "sleeping", todo |-> {}, run |-> 0, verdict |-> "NONE"]

NewLaunch(p, session, status, late) ==
  [p |-> p, session |-> session, status |-> status, late |-> late, dispatched |-> FALSE,
   lease |-> FALSE, gap |-> FALSE, clock |-> "young", display |-> "RUNNING", archived |-> FALSE]

Count == requests < MaxRequests /\ requests' = requests + 1

Go(c, at) == call' = [call EXCEPT ![c].at = at]
Return(c) == call' = [call EXCEPT ![c] = Idle]
Begin(c, op, at, p, r) ==
  /\ call[c].at = "idle" /\ Count
  /\ call' = [call EXCEPT ![c] = [Idle EXCEPT !.op = op, !.at = at, !.p = p, !.run = r]]

Fault == faults < MaxFaults /\ faults' = faults + 1

\* A deletion of p that is past its check.
Deleting(p) == \E c \in Clients : call[c].p = p /\ call[c].at \in {"remove", "erase"}

-----------------------------------------------------------------------------
Init ==
  /\ project = [p \in Ids |-> NoProject]
  /\ dir = [p \in Ids |-> "none"]
  /\ launches = <<>>
  /\ call = [c \in Clients |-> Idle]
  /\ monitor = Sleeping
  /\ marred = {}
  /\ requests = 0
  /\ faults = 0

-----------------------------------------------------------------------------
(* create_project *)

\* ensure_project: the row of the repository and branch, inserted if need be.
EnsureProject(c) ==
  \/ \E p \in Ids : /\ There(p)
                    /\ Begin(c, "register", "mark", p, 0)
                    /\ marred' = IF Deleting(p) THEN marred \cup {p} ELSE marred
                    /\ UNCHANGED <<project, dir, launches, monitor, faults>>
  \/ \E p \in Ids : /\ \A q \in Ids : ~There(q)
                    /\ project[p] = NoProject /\ \A q \in Ids : q < p => project[q] # NoProject
                    /\ project' = [project EXCEPT ![p] = [life |-> "ACTIVE", provision |-> "PROVISIONING"]]
                    /\ Begin(c, "register", "mark", p, 0)
                    /\ UNCHANGED <<dir, launches, monitor, marred, faults>>

\* An update of a row that is gone raises.
MarkProvisioning(c) ==
  LET p == call[c].p IN
  /\ call[c].at = "mark"
  /\ IF There(p) THEN project' = [project EXCEPT ![p].provision = "PROVISIONING"] /\ Go(c, "look")
                 ELSE UNCHANGED project /\ Return(c)
  /\ UNCHANGED <<dir, launches, monitor, marred, faults, requests>>

\* provision: a directory that is there is checked, not made.
LookForDirectory(c) ==
  LET p == call[c].p IN
  /\ call[c].at = "look"
  /\ Go(c, CASE dir[p] = "none" -> "clone" [] Ready(p) -> "sync" [] OTHER -> "fail")
  /\ UNCHANGED <<project, dir, launches, monitor, marred, faults, requests>>

\* After the remote was probed.  git refuses a directory that has appeared,
\* and the handler of that error removes it, whoever made it.
BeginClone(c) ==
  LET p == call[c].p IN
  /\ call[c].at = "clone"
  /\ IF dir[p] = "none"
     THEN dir' = [dir EXCEPT ![p] = "partial"] /\ Go(c, "cloning") /\ UNCHANGED marred
     ELSE /\ dir' = [dir EXCEPT ![p] = "none"] /\ Go(c, "fail")
          /\ marred' = marred \cup {p}
  /\ UNCHANGED <<project, launches, monitor, faults, requests>>

\* Fault: what a failed clone left behind stays.
EndCloneLeaving(c) ==
  LET p == call[c].p IN
  /\ call[c].at = "cloning"
  /\ \/ /\ dir[p] = "partial"
        /\ dir' = [dir EXCEPT ![p] = "ready"] /\ Go(c, "sync") /\ UNCHANGED faults
     \/ /\ dir[p] # "partial"
        /\ Go(c, "fail") /\ UNCHANGED <<dir, faults>>
     \/ Fault /\ Go(c, "fail") /\ UNCHANGED dir
  /\ UNCHANGED <<project, launches, monitor, marred, requests>>

\* A clone whose directory was taken away fails, as one may that git gives up.
EndClone(c) ==
  LET p == call[c].p IN
  /\ call[c].at = "cloning"
  /\ \/ /\ dir[p] = "partial"
        /\ dir' = [dir EXCEPT ![p] = "ready"] /\ Go(c, "sync") /\ UNCHANGED faults
     \/ /\ dir[p] # "partial"
        /\ dir' = [dir EXCEPT ![p] = "none"] /\ Go(c, "fail") /\ UNCHANGED faults
     \/ Fault /\ dir' = [dir EXCEPT ![p] = "none"] /\ Go(c, "fail")
  /\ UNCHANGED <<project, launches, monitor, marred, requests>>

\* readiness and synchronize.
Synchronize(c) ==
  /\ call[c].at = "sync"
  /\ \/ /\ Ready(call[c].p)
        /\ Go(c, IF call[c].op = "register" THEN "ready" ELSE "start") /\ UNCHANGED faults
     \/ /\ ~Ready(call[c].p)
        /\ IF call[c].op = "register" THEN Go(c, "fail") ELSE Return(c)
        /\ UNCHANGED faults
     \/ /\ Fault
        /\ IF call[c].op = "register" THEN Go(c, "fail") ELSE Return(c)
  /\ UNCHANGED <<project, dir, launches, monitor, marred, requests>>

\* mark_project_ready and mark_project_failed; the second has nobody to tell.
MarkReady(c) ==
  LET p == call[c].p IN
  /\ call[c].at = "ready"
  /\ IF There(p) THEN project' = [project EXCEPT ![p].provision = "READY"] /\ Return(c)
                 ELSE UNCHANGED project /\ Go(c, "fail")
  /\ UNCHANGED <<dir, launches, monitor, marred, faults, requests>>

MarkFailed(c) ==
  LET p == call[c].p IN
  /\ call[c].at = "fail"
  /\ project' = IF There(p) THEN [project EXCEPT ![p].provision = "FAILED"] ELSE project
  /\ Return(c)
  /\ UNCHANGED <<dir, launches, monitor, marred, faults, requests>>

-----------------------------------------------------------------------------
(* create_requirement_run and create_run *)

EnsureProjectActive(c) ==
  \E p \in Ids : /\ project[p].life = "ACTIVE" /\ Len(launches) < MaxLaunches
                 /\ Begin(c, "launch", "sync", p, 0)
                 /\ UNCHANGED <<project, dir, launches, monitor, marred, faults>>

\* Whether a deletion has been cleared that does not know of the row to come.
Late(p) == Deleting(p) \/ ~Ready(p)

\* A planned launch begins with its session; one that a workflow matches, or
\* that comes with its task, begins with the Run.
StartLaunch(c) ==
  LET p == call[c].p IN
  /\ call[c].at = "start"
  /\ \/ /\ ~There(p) \/ Len(launches) = MaxLaunches
        /\ Return(c) /\ UNCHANGED launches
     \/ /\ There(p) /\ Len(launches) < MaxLaunches
        /\ launches' = Append(launches, NewLaunch(p, "PLANNING", "NONE", Late(p)))
        /\ call' = [call EXCEPT ![c].at = "plan", ![c].run = Len(launches) + 1]
     \/ /\ There(p) /\ Len(launches) < MaxLaunches
        /\ launches' = Append(launches, NewLaunch(p, "NONE", "RUNNING", Late(p)))
        /\ Return(c)
  /\ UNCHANGED <<project, dir, monitor, marred, faults, requests>>

\* The plan is stored, or its failure; both need the row.
FinishPlanning(c) ==
  LET l == call[c].run IN
  /\ call[c].at = "plan"
  /\ \/ /\ launches[l].session = "PLANNING"
        /\ launches' = [launches EXCEPT ![l].session = "READY_TO_RUN"] /\ Go(c, "run")
     \/ /\ launches[l].session = "PLANNING"
        /\ launches' = [launches EXCEPT ![l].session = "PLANNING_FAILED"] /\ Return(c)
     \/ launches[l].session # "PLANNING" /\ Return(c) /\ UNCHANGED launches
  /\ UNCHANGED <<project, dir, monitor, marred, faults, requests>>

\* start_run, and attach_run right after it.
StartRun(c) ==
  LET l == call[c].run IN
  /\ call[c].at = "run"
  /\ launches' = IF launches[l].session = "READY_TO_RUN"
                 THEN [launches EXCEPT ![l].status = "RUNNING", ![l].session = "RUNNING"]
                 ELSE launches
  /\ Return(c)
  /\ UNCHANGED <<project, dir, monitor, marred, faults, requests>>

\* continue_development_session finds nothing left to do.
CompleteSession(l) ==
  /\ Count
  /\ launches[l].session = "RUNNING" /\ launches[l].status = "SUCCEEDED"
  /\ launches' = [launches EXCEPT ![l].session = "COMPLETED"]
  /\ UNCHANGED <<project, dir, call, monitor, marred, faults>>

-----------------------------------------------------------------------------
(* Workers and time *)

Running(l) == launches[l].status = "RUNNING"

\* A lease is taken; its event is progress.
AcquireLease(l) ==
  /\ Running(l) /\ ~launches[l].lease /\ ~launches[l].gap
  /\ launches' = [launches EXCEPT ![l].lease = TRUE, ![l].dispatched = TRUE, ![l].clock = "young"]
  /\ UNCHANGED <<project, dir, call, monitor, marred, faults, requests>>

\* Nothing succeeds without the workspace.
FinishRun(l, status) ==
  /\ Running(l) /\ launches[l].lease
  /\ status = "SUCCEEDED" => Ready(launches[l].p)
  /\ launches' = [launches EXCEPT ![l].status = status, ![l].lease = FALSE,
                                  ![l].clock = "young"]
  /\ UNCHANGED <<project, dir, call, monitor, marred, faults, requests>>

\* The worker is lost and its lease expires, or it is released without evidence.
LoseLease(l) ==
  /\ Running(l) /\ launches[l].lease /\ Fault
  /\ \E released \in BOOLEAN :
       launches' = [launches EXCEPT ![l].lease = FALSE, ![l].gap = released]
  /\ UNCHANGED <<project, dir, call, monitor, marred, requests>>

\* The startup threshold passes if nothing was dispatched yet, else the progress
\* threshold since the last event.
TimePasses(l) ==
  /\ Running(l) /\ launches[l].clock # "quiet"
  /\ launches' = [launches EXCEPT ![l].clock = "quiet"]
  /\ UNCHANGED <<project, dir, call, monitor, marred, faults, requests>>

-----------------------------------------------------------------------------
(* The projection that users see *)

\* Fault: a lost worker is shown as a failure.
ClassifyGapFailed(l) ==
  CASE launches[l].status # "RUNNING" -> launches[l].status
    [] launches[l].gap -> "FAILED"
    [] launches[l].clock = "quiet" /\ ~launches[l].dispatched -> "RECOVERY_REQUIRED"
    [] launches[l].clock = "quiet" /\ ~launches[l].lease -> "RECOVERY_REQUIRED"
    [] launches[l].clock = "quiet" /\ launches[l].lease -> "WAITING_EXTERNAL"
    [] OTHER -> "RUNNING"

\* _classify
Classify(l) ==
  CASE launches[l].status # "RUNNING" -> launches[l].status
    [] launches[l].gap -> "RECOVERY_REQUIRED"
    [] launches[l].clock = "quiet" /\ ~launches[l].dispatched -> "RECOVERY_REQUIRED"
    [] launches[l].clock = "quiet" /\ ~launches[l].lease -> "RECOVERY_REQUIRED"
    [] launches[l].clock = "quiet" /\ launches[l].lease -> "WAITING_EXTERNAL"
    [] OTHER -> "RUNNING"

\* Fault: the newest come first.
RefreshedNewest ==
  LET running == {l \in RunIds : Running(l)} IN
  {l \in running : Cardinality({k \in running : k > l}) < Limit}

\* refresh_running: the RUNNING Runs that were started first.
Refreshed ==
  LET running == {l \in RunIds : Running(l)} IN
  {l \in running : Cardinality({k \in running : k < l}) < Limit}

MonitorWakes ==
  /\ monitor.at = "sleeping" /\ Refreshed # {}
  /\ monitor' = [monitor EXCEPT !.at = "reading", !.todo = Refreshed]
  /\ UNCHANGED <<project, dir, launches, call, marred, faults, requests>>

\* inspect reads, classifies and stores; a Run that is gone raises, and the
\* exception ends the monitor's task.
MonitorInspects ==
  LET l == Min(monitor.todo) IN
  /\ monitor.at = "reading"
  /\ monitor' = IF launches[l].status = "DELETED" THEN [Sleeping EXCEPT !.at = "dead"]
                ELSE [monitor EXCEPT !.at = "storing", !.run = l, !.verdict = Classify(l)]
  /\ UNCHANGED <<project, dir, launches, call, marred, faults, requests>>

\* _persist_projection; the row may be gone, which is no error here.
PersistProjection(l, verdict) ==
  launches' = IF launches[l].status = "DELETED" THEN launches
              ELSE [launches EXCEPT ![l].display = verdict]

MonitorStores ==
  /\ monitor.at = "storing"
  /\ PersistProjection(monitor.run, monitor.verdict)
  /\ monitor' = IF monitor.todo = {monitor.run} THEN Sleeping
                ELSE [Sleeping EXCEPT !.at = "reading", !.todo = monitor.todo \ {monitor.run}]
  /\ UNCHANGED <<project, dir, call, marred, faults, requests>>

\* get_run and the recovery preview inspect as well, at the same time.
InspectRun(c) ==
  \E l \in RunIds :
    /\ launches[l].status \notin {"NONE", "DELETED"}
    /\ call[c].at = "idle" /\ Count
    /\ call' = [call EXCEPT ![c] = [op |-> "inspect", at |-> "store", p |-> 0, run |-> l,
                                    verdict |-> Classify(l)]]
    /\ UNCHANGED <<project, dir, launches, monitor, marred, faults>>

StoreInspection(c) ==
  /\ call[c].at = "store"
  /\ PersistProjection(call[c].run, call[c].verdict)
  /\ Return(c)
  /\ UNCHANGED <<project, dir, monitor, marred, faults, requests>>

-----------------------------------------------------------------------------
(* Archiving and deletion *)

ArchiveRun(l) ==
  /\ Count
  /\ launches[l].status \notin {"NONE", "DELETED"} /\ ~launches[l].archived
  /\ ~Running(l) \/ launches[l].display = "RECOVERY_REQUIRED"
  /\ launches' = [launches EXCEPT ![l].archived = TRUE]
  /\ UNCHANGED <<project, dir, call, monitor, marred, faults>>

SetProjectLifecycle(p, expected, target) ==
  /\ Count
  /\ project[p].life = expected
  /\ project' = [project EXCEPT ![p].life = target]
  /\ UNCHANGED <<dir, launches, call, monitor, marred, faults>>

\* Fault: only Runs stand in the way of a deletion.
DeletionAllowedRunsOnly(p) ==
  There(p) /\ \A l \in RunIds : launches[l].p = p => ~Running(l)

DeletionAllowed(p) ==
  /\ There(p)
  /\ \A l \in RunIds : launches[l].p = p =>
       ~Running(l) /\ launches[l].session \notin {"PLANNING", "READY_TO_RUN", "RUNNING"}

EnsureDeletionAllowed(c) ==
  \E p \in Ids :
    /\ DeletionAllowed(p)
    /\ Begin(c, "delete", "remove", p, 0)
    /\ marred' = IF \E d \in Clients : call[d].op = "register" /\ call[d].p = p
                 THEN marred \cup {p} ELSE marred
    /\ UNCHANGED <<project, dir, launches, monitor, faults>>

\* Fault: the directory stays.
RemoveNothing(c) ==
  /\ call[c].at = "remove"
  /\ Go(c, "erase")
  /\ UNCHANGED <<project, dir, launches, monitor, marred, faults, requests>>

\* A removal that fails half way ends the request.
RemoveArtifacts(c) ==
  LET p == call[c].p IN
  /\ call[c].at = "remove"
  /\ \/ dir' = [dir EXCEPT ![p] = "none"] /\ Go(c, "erase") /\ UNCHANGED <<marred, faults>>
     \/ /\ dir[p] # "none" /\ Fault
        /\ dir' = [dir EXCEPT ![p] = "partial"] /\ Return(c)
        /\ marred' = marred \cup {p}
  /\ UNCHANGED <<project, launches, monitor, requests>>

\* Fault: sessions and Runs are not deleted with their project.
DeleteRowAlone(c) ==
  /\ call[c].at = "erase"
  /\ project' = [project EXCEPT ![call[c].p] = Erased]
  /\ Return(c)
  /\ UNCHANGED <<dir, launches, monitor, marred, faults, requests>>

\* The row of the project, with everything that refers to it.
DeleteRow(c) ==
  LET p == call[c].p IN
  /\ call[c].at = "erase"
  /\ project' = [project EXCEPT ![p] = Erased]
  /\ launches' = [l \in RunIds |-> IF launches[l].p = p
                    THEN NewLaunch(p, "DELETED", "DELETED", FALSE)
                    ELSE launches[l]]
  /\ Return(c)
  /\ UNCHANGED <<dir, monitor, marred, faults, requests>>

\* The process of a request dies.
RequestDies(c) ==
  /\ call[c].at # "idle" /\ Fault
  /\ marred' = IF call[c].at = "cloning" THEN marred \cup {call[c].p} ELSE marred
  /\ Return(c)
  /\ UNCHANGED <<project, dir, launches, monitor, requests>>

-----------------------------------------------------------------------------
Request(c) == EnsureProject(c) \/ EnsureProjectActive(c) \/ InspectRun(c) \/ EnsureDeletionAllowed(c)

Proceed(c) ==
  \/ MarkProvisioning(c) \/ LookForDirectory(c) \/ BeginClone(c) \/ EndClone(c) \/ Synchronize(c)
  \/ MarkReady(c) \/ MarkFailed(c) \/ StartLaunch(c) \/ FinishPlanning(c) \/ StartRun(c)
  \/ StoreInspection(c) \/ RemoveArtifacts(c) \/ DeleteRow(c)

Work(l) ==
  \/ AcquireLease(l) \/ LoseLease(l) \/ TimePasses(l) \/ CompleteSession(l) \/ ArchiveRun(l)
  \/ \E status \in {"SUCCEEDED", "FAILED"} : FinishRun(l, status)

Monitor == MonitorWakes \/ MonitorInspects \/ MonitorStores

Next ==
  \/ \E c \in Clients : Request(c) \/ Proceed(c) \/ RequestDies(c)
  \/ \E l \in RunIds : Work(l)
  \/ \E p \in Ids : SetProjectLifecycle(p, "ACTIVE", "ARCHIVED")
                    \/ SetProjectLifecycle(p, "ARCHIVED", "ACTIVE")
  \/ Monitor

Spec == Init /\ [][Next]_vars

\* The monitor is a loop of the event loop; nobody has to send a request.
FairSpec == Spec /\ WF_vars(Monitor)

-----------------------------------------------------------------------------
(* Properties *)

\* Types; a lease belongs to a RUNNING Run, and no row of a deleted project
\* is left.
TypeOK ==
  /\ project \in [Ids -> [life : {"NONE", "ACTIVE", "ARCHIVED", "ERASED"},
                          provision : {"NONE", "PROVISIONING", "READY", "FAILED"}]]
  /\ dir \in [Ids -> {"none", "partial", "ready"}]
  /\ \A l \in RunIds :
       /\ launches[l] \in
            [p : Ids, session : {"NONE", "PLANNING", "PLANNING_FAILED", "READY_TO_RUN", "RUNNING",
                                 "COMPLETED", "DELETED"},
             status : {"NONE", "RUNNING", "SUCCEEDED", "FAILED", "DELETED"}, late : BOOLEAN,
             dispatched : BOOLEAN, lease : BOOLEAN, gap : BOOLEAN, archived : BOOLEAN,
             clock : {"young", "quiet"},
             display : {"RUNNING", "WAITING_EXTERNAL", "RECOVERY_REQUIRED", "SUCCEEDED", "FAILED"}]
       /\ launches[l].lease => Running(l)
       /\ launches[l].status # "DELETED" => There(launches[l].p)
  /\ monitor.at \in {"sleeping", "reading", "storing", "dead"}
  /\ monitor.todo \subseteq RunIds
  /\ marred \subseteq Ids /\ requests \in 0..MaxRequests /\ faults \in 0..MaxFaults

\* What users are told of a Run that ended is how it ended, whichever of the
\* concurrent inspections is stored last.
DisplayTruthful ==
  \A l \in RunIds : launches[l].display \in {"SUCCEEDED", "FAILED"} =>
    launches[l].status \in {launches[l].display, "DELETED"}

\* A deletion does not take the workspace from a Run that it could know of:
\* one is only without it if its first row was written after the deletion had
\* been cleared, or if registrations collided.
WorkspaceKept ==
  \A l \in RunIds : Running(l) /\ ~Ready(launches[l].p) =>
    launches[l].late \/ launches[l].p \in marred

\* A deleted project leaves no directory behind, unless it was being registered
\* at the same time.
NoOrphanDirectory == \A p \in Ids : ~There(p) /\ dir[p] # "none" => p \in marred

\* A directory that no registration accepts, and only a deletion removes, is
\* one that is still being cloned, or the trace of a crash or a collision.
HalfCloneOwned ==
  \A p \in Ids : dir[p] = "partial" =>
    p \in marred \/ \E c \in Clients : call[c].at = "cloning" /\ call[c].p = p

Orphan(l) == l \in RunIds /\ Running(l) /\ launches[l].clock = "quiet" /\ ~launches[l].lease

\* Older Runs that are RUNNING take all the places of the refresh.
Starved(l) == Cardinality({k \in RunIds : k < l /\ Running(k)}) >= Limit

\* A Run that nobody works on any more is shown as RECOVERY_REQUIRED, unless it
\* comes back, the monitor has died, or too many older ones are still RUNNING.
OrphanDiagnosed ==
  \A l \in 1..MaxLaunches :
    Orphan(l) ~> (~Orphan(l) \/ launches[l].display = "RECOVERY_REQUIRED"
                  \/ monitor.at = "dead" \/ Starved(l))

\* A Run keeps its workspace against deletions that could know of it, and is
\* shown with the end it had.
RunsSound == TypeOK /\ DisplayTruthful /\ WorkspaceKept

\* Every directory is a live project's, or somebody is responsible for it.
DirectoriesOwned == NoOrphanDirectory /\ HalfCloneOwned

=============================================================================
