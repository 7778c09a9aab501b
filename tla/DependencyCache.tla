--------------------------- MODULE DependencyCache ---------------------------
(***************************************************************************)
(* Verification commands run in a container without network.  The third-   *)
(* party packages that a project declares are installed beforehand into a  *)
(* cache on the host, one directory per fingerprint of the manifests, and  *)
(* mounted read-only.  Workers, launch preflights and the environment      *)
(* controls of the product share the cache; nothing locks it.              *)
(*                                                                         *)
(* A tree stands for the files of a workspace that matter here: which      *)
(* manifests there are, whether the requirements are pinned, and, as one   *)
(* value, what the manifests say.                                          *)
(***************************************************************************)
EXTENDS Integers, Sequences, FiniteSets, SequencesExt

CONSTANTS Actors,       \* processes that use the cache
          Trees,        \* [files, pinned, pin]
          Commands,     \* runtimes that the verification commands need
          Limit,        \* entries that max_cache_bytes leaves room for
          MaxRequests,  \* bound
          MaxEdits,     \* bound: changes of a manifest while it is in use
          MaxFaults     \* bound: failures of Docker, the registry and processes

ASSUME CacheAssumption == Commands \subseteq {"PYTHON", "NODE"} /\ Limit \in Nat
                          /\ MaxRequests \in Nat /\ MaxEdits \in Nat /\ MaxFaults \in Nat

VARIABLES cache,      \* [Keys -> entry]
          order,      \* keys of the directories, oldest first
          call,       \* [Actors -> request in flight, with its workspace]
          done,       \* how the last request that ended did so
          temps,      \* temporary directories, by the request that made them
          containers, \* verification containers, likewise
          messy,      \* history: requests that died or whose container timed out
          wrecks,     \* history: entries whose removal was cut off
          images,     \* runtimes whose trusted image is there
          requests, edits, faults

cacheVars == <<cache, order, call, done, temps, containers, messy, wrecks, images, requests,
               edits, faults>>

PythonManifests == {"requirements", "pyproject.toml", "uv.lock", "poetry.lock"}
NodeManifests == {"package.json", "package-lock.json", "yarn.lock"}
Runtimes == {"PYTHON", "NODE"}

-----------------------------------------------------------------------------
(* Profiles *)

\* resolve: the environments that can be built from what the files say.
Kind(t) ==
  CASE "package.json" \in t.files ->
         IF "package-lock.json" \in t.files THEN "NODE_NPM_LOCK" ELSE "NONE"
    [] "package.json" \notin t.files /\ t.files \cap NodeManifests # {} -> "NONE"
    [] t.files \cap NodeManifests = {} /\ "requirements" \in t.files ->
         IF t.pinned THEN "PYTHON_PINNED_REQUIREMENTS" ELSE "NONE"
    [] t.files = {} -> "PYTHON_BASE"
    [] OTHER -> "NONE"

\* DependencyManifestInspector.inspect
PackageManager(t) ==
  LET python == t.files \cap PythonManifests # {}
      node == t.files \cap NodeManifests # {}
  IN CASE python /\ node -> "MIXED" [] python /\ ~node -> "PYTHON"
       [] ~python /\ node -> "NODE" [] OTHER -> "NONE"

\* Fault: the fingerprint leaves out what the manifests say.
FingerprintOfKind(t) == [kind |-> Kind(t), pin |-> "any"]

\* _profile: the digest of the kind and of the manifests' bytes.
Fingerprint(t) == [kind |-> Kind(t), pin |-> t.pin]

\* A base profile installs nothing.
Cached(t) == Kind(t) \notin {"NONE", "PYTHON_BASE"}

RequiredRuntimes(t, command) ==
  {IF Kind(t) = "NODE_NPM_LOCK" THEN "NODE" ELSE "PYTHON", command}

Keys == {Fingerprint(t) : t \in {t \in Trees : Cached(t)}}

-----------------------------------------------------------------------------
NoEntry == [at |-> "none", pin |-> "none"]

\* An entry is whole, or a removal has begun: hollow still has its marker
\* .complete, torn has lost it.
Marked(f) == cache[f].at \in {"whole", "hollow"}
Damaged(f) == cache[f].at \in {"hollow", "torn"}

Nothing == [kind |-> "none", pin |-> "none"]
NoTree == [files |-> {}, pinned |-> TRUE, pin |-> "none"]
NoRequest == [id |-> 0, op |-> "none", at |-> "idle", tree |-> NoTree, f |-> Nothing,
              command |-> "PYTHON", declared |-> "none", built |-> "none", victims |-> <<>>, excuses |-> {}]

NotDone == [result |-> "none", excuses |-> {}]

Go(a, at) == call' = [call EXCEPT ![a].at = at]

\* A request ends; what may have kept it from succeeding is remembered.
Finish(a, result, excuses) ==
  /\ call' = [call EXCEPT ![a] = NoRequest]
  /\ done' = [result |-> result, excuses |-> call[a].excuses \cup excuses]

Fault == faults < MaxFaults /\ faults' = faults + 1

\* The entry that a is about to remove, or is removing.
Victim(a) == Head(call[a].victims)
Removing(f) == \E b \in Actors : call[b].at = "removing" /\ Victim(b) = f

-----------------------------------------------------------------------------
CacheInit ==
  /\ cache = [f \in Keys |-> NoEntry]
  /\ order = <<>>
  /\ call = [a \in Actors |-> NoRequest]
  /\ done = NotDone
  /\ temps = {} /\ containers = {} /\ messy = {} /\ wrecks = {} /\ images = Runtimes
  /\ requests = 0 /\ edits = 0 /\ faults = 0

\* A request comes with the workspace it is about.
Begin(a, op, at, command) ==
  /\ call[a].at = "idle" /\ requests < MaxRequests
  /\ requests' = requests + 1
  /\ done' = NotDone
  /\ \E t \in IF op = "cleanup" THEN {NoTree} ELSE Trees :
       call' = [call EXCEPT ![a] = [NoRequest EXCEPT !.id = requests + 1, !.op = op, !.at = at,
                                                     !.tree = t, !.command = command]]
  /\ UNCHANGED <<cache, order, temps, containers, messy, wrecks, images, edits, faults>>

\* ProjectAwareVerificationRunner.run
Verify(a) == \E command \in Commands : Begin(a, "verify", "resolve", command)

\* DependencyEnvironmentPreflight.check and its rebuild and cleanup
Check(a) == \E command \in Commands : Begin(a, "check", "resolve", command)
Rebuild(a) == Begin(a, "rebuild", "resolve", "PYTHON")
Cleanup(a) == Begin(a, "cleanup", "sweep", "PYTHON")

-----------------------------------------------------------------------------
\* _resolve_profile; only the preflight looks for manifests of both kinds.
Unsupported(op, t) == \/ Kind(t) = "NONE"
                      \/ op # "verify" /\ PackageManager(t) = "MIXED"

\* The profile is resolved from the manifests as they are now.
Resolve(a) ==
  LET t == call[a].tree
      f == Fingerprint(t)
      met == IF ~Cached(t) \/ ~Damaged(f) THEN {} ELSE {IF Removing(f) THEN "removal" ELSE "wreck"}
  IN
  /\ call[a].at = "resolve"
  /\ CASE Unsupported(call[a].op, t) ->
            Finish(a, IF call[a].op = "verify" THEN "ENV_UNAVAILABLE" ELSE "refused", {"tree"})
       [] ~Unsupported(call[a].op, t) /\ call[a].op = "rebuild" /\ ~Cached(t) -> Finish(a, "ready", {})
       [] OTHER ->
            /\ call' = [call EXCEPT ![a].f = IF Cached(t) THEN f ELSE Nothing, ![a].declared = t.pin,
                          ![a].excuses = @ \cup met,
                          ![a].at = CASE call[a].op # "verify" -> "docker"
                                      [] call[a].op = "verify" /\ Cached(t) -> "lookup"
                                      [] OTHER -> "start"]
            /\ UNCHANGED done
  /\ UNCHANGED <<cache, order, temps, containers, messy, wrecks, images, requests, edits, faults>>

\* _check_docker
CheckDocker(a) ==
  LET required == IF call[a].op = "check" THEN RequiredRuntimes(call[a].tree, call[a].command)
                  ELSE {IF call[a].f.kind = "NODE_NPM_LOCK" THEN "NODE" ELSE "PYTHON"}
  IN
  /\ call[a].at = "docker"
  /\ \/ /\ ~(required \subseteq images)
        /\ Finish(a, "refused", {"image"}) /\ UNCHANGED faults
     \/ /\ Fault /\ Finish(a, "refused", {"fault"})
     \/ /\ required \subseteq images /\ call[a].f = Nothing
        /\ Finish(a, "ready", {}) /\ UNCHANGED faults
     \/ /\ required \subseteq images /\ call[a].f # Nothing
        /\ Go(a, IF call[a].op = "check" THEN "peek" ELSE "clear") /\ UNCHANGED <<done, faults>>
  /\ UNCHANGED <<cache, order, temps, containers, messy, wrecks, images, requests, edits>>

\* _check_cache: a marker is a hit, whatever is beside it.
PeekCache(a) ==
  /\ call[a].at = "peek"
  /\ IF Marked(call[a].f) THEN Finish(a, "ready", {}) ELSE Go(a, "probe") /\ UNCHANGED done
  /\ UNCHANGED <<cache, order, temps, containers, messy, wrecks, images, requests, edits, faults>>

\* The registry is asked for the packages before they are downloaded.
CheckRegistryPackage(a) ==
  /\ call[a].at = "probe"
  /\ \/ Go(a, "lookup") /\ UNCHANGED <<done, faults>>
     \/ Fault /\ Finish(a, "refused", {"fault"})
  /\ UNCHANGED <<cache, order, temps, containers, messy, wrecks, images, requests, edits>>

\* rebuild removes the entry before it calls ensure.
ClearEntry(a) ==
  /\ call[a].at = "clear"
  /\ IF cache[call[a].f].at = "none" THEN Go(a, "lookup")
     ELSE call' = [call EXCEPT ![a].victims = <<call[a].f>>, ![a].at = "remove"]
  /\ UNCHANGED <<cache, order, done, temps, containers, messy, wrecks, images, requests, edits, faults>>

-----------------------------------------------------------------------------
(* ensure *)

Lookup(a) ==
  /\ call[a].at = "lookup"
  /\ Go(a, IF Marked(call[a].f) THEN "validate" ELSE "sweep")
  /\ UNCHANGED <<cache, order, done, temps, containers, messy, wrecks, images, requests, edits, faults>>

\* What a caller gets once the entry can be mounted.
Mounted(a) ==
  IF call[a].op = "verify"
  THEN call' = [call EXCEPT ![a].at = "start", ![a].tree = NoTree, ![a].built = "none"] /\ UNCHANGED done
  ELSE Finish(a, "ready", {})

\* ProjectVerificationEnvironmentError, which every caller handles.
EnsureFails(a, excuses) ==
  Finish(a, IF call[a].op = "verify" THEN "ENV_UNAVAILABLE" ELSE "refused", excuses)

\* Fault: a marker is enough.
ValidateMarker(a) ==
  /\ call[a].at = "validate"
  /\ Mounted(a)
  /\ UNCHANGED <<cache, order, temps, containers, messy, wrecks, images, requests, edits, faults>>

\* _validate_artifact
Validate(a) ==
  /\ call[a].at = "validate"
  /\ IF cache[call[a].f].at = "whole" THEN Mounted(a) ELSE EnsureFails(a, {})
  /\ UNCHANGED <<cache, order, temps, containers, messy, wrecks, images, requests, edits, faults>>

\* cleanup: the oldest of the other entries, until the rest fits.
Victims(a) ==
  LET others == RemoveFirst(order, call[a].f)
      excess == Len(order) - Limit
  IN IF excess <= 0 THEN <<>> ELSE SubSeq(others, 1, IF excess < Len(others) THEN excess ELSE Len(others))

\* A directory that vanishes while its size is taken raises an OSError, which
\* no caller handles.
Sweep(a) ==
  LET next == IF Victims(a) # <<>> THEN "remove" ELSE "build" IN
  /\ call[a].at = "sweep"
  /\ \/ /\ call[a].op = "cleanup" /\ Victims(a) = <<>>
        /\ Finish(a, "ready", {})
     \/ /\ call[a].op # "cleanup" \/ Victims(a) # <<>>
        /\ call' = [call EXCEPT ![a].victims = Victims(a), ![a].at = next]
        /\ UNCHANGED done
     \/ /\ \E f \in Keys : Removing(f)
        /\ Finish(a, "exception", {"removal"})
  /\ UNCHANGED <<cache, order, temps, containers, messy, wrecks, images, requests, edits, faults>>

\* rmtree deletes file by file, in any order.
BeginRemoval(a) ==
  LET v == Victim(a) IN
  /\ call[a].at = "remove"
  /\ \/ /\ cache[v].at = "none" /\ Finish(a, "exception", {"removal"}) /\ UNCHANGED cache
     \/ /\ cache[v].at # "none"
        /\ \E left \in {"torn"} \cup (IF cache[v].at = "torn" THEN {} ELSE {"hollow"}) :
             cache' = [cache EXCEPT ![v].at = left]
        /\ call' = [b \in Actors |->
             CASE b = a -> [call[b] EXCEPT !.at = "removing"]
               [] b # a /\ call[b].f = v -> [call[b] EXCEPT !.excuses = @ \cup {"removal"}]
               [] OTHER -> call[b]]
        /\ UNCHANGED done
  /\ UNCHANGED <<order, temps, containers, messy, wrecks, images, requests, edits, faults>>

AfterRemoval(a) ==
  LET rest == Tail(call[a].victims) IN
  CASE rest # <<>> -> call' = [call EXCEPT ![a].victims = rest, ![a].at = "remove"] /\ UNCHANGED done
    [] rest = <<>> /\ call[a].op = "cleanup" -> Finish(a, "ready", {})
    [] OTHER -> /\ call' = [call EXCEPT ![a].victims = rest,
                                        ![a].at = IF Victim(a) = call[a].f THEN "lookup" ELSE "build"]
                /\ UNCHANGED done

\* Fault: files that cannot be deleted are skipped.
EndRemovalLeaving(a) ==
  /\ call[a].at = "removing"
  /\ AfterRemoval(a)
  /\ UNCHANGED <<cache, order, temps, containers, messy, wrecks, images, requests, edits, faults>>

\* Someone else may have removed it first.
EndRemoval(a) ==
  LET v == Victim(a) IN
  /\ call[a].at = "removing"
  /\ IF Damaged(v)
     THEN /\ cache' = [cache EXCEPT ![v] = NoEntry]
          /\ order' = RemoveFirst(order, v)
          /\ AfterRemoval(a)
     ELSE Finish(a, "exception", {"removal"}) /\ UNCHANGED <<cache, order>>
  /\ UNCHANGED <<temps, containers, messy, wrecks, images, requests, edits, faults>>

\* The manifests are copied and installed: what they say now, not what was
\* fingerprinted.  A manifest that is gone raises.
CopyManifests(a) ==
  /\ call[a].at = "build"
  /\ IF Kind(call[a].tree) = call[a].f.kind
     THEN /\ call' = [call EXCEPT ![a].at = "downloading", ![a].built = call[a].tree.pin,
                               ![a].tree = NoTree]
          /\ temps' = temps \cup {call[a].id} /\ UNCHANGED done
     ELSE Finish(a, "exception", {"edit"}) /\ UNCHANGED temps
  /\ UNCHANGED <<cache, order, containers, messy, wrecks, images, requests, edits, faults>>

\* Fault: what a failed build has installed stays.
RunLeaving(a, from, to) ==
  /\ call[a].at = from
  /\ \/ Go(a, to) /\ UNCHANGED <<done, temps, faults>>
     \/ Fault /\ EnsureFails(a, {"fault"}) /\ UNCHANGED temps
  /\ UNCHANGED <<cache, order, containers, messy, wrecks, images, requests, edits>>

\* A stage of a build; one that times out leaves its container, which goes on
\* writing to the directory that is being deleted.
RunDependencyContainer(a, from, to) ==
  /\ call[a].at = from
  /\ \/ Go(a, to) /\ UNCHANGED <<done, temps, messy, faults>>
     \/ Fault /\ EnsureFails(a, {"fault"}) /\ temps' = temps \ {call[a].id} /\ UNCHANGED messy
     \/ /\ Fault /\ EnsureFails(a, {"fault"})
        /\ messy' = messy \cup {call[a].id} /\ UNCHANGED temps
  /\ UNCHANGED <<cache, order, containers, wrecks, images, requests, edits>>

\* _build_python and _build_node: a download, then an install without network.
Build(a) == \/ RunDependencyContainer(a, "downloading", "installing")
            \/ RunDependencyContainer(a, "installing", "publish")

\* _write_artifact_evidence: what is installed, and the marker.
Artifact(a) == [at |-> "whole", pin |-> call[a].built]

\* Fault: a directory that is there already is an error.
PublishFirst(a) ==
  LET f == call[a].f IN
  /\ call[a].at = "publish"
  /\ IF cache[f].at = "none"
     THEN /\ cache' = [cache EXCEPT ![f] = Artifact(a)]
          /\ order' = Append(order, f)
          /\ Mounted(a)
     ELSE Finish(a, "exception", {}) /\ UNCHANGED <<cache, order>>
  /\ temps' = temps \ {call[a].id}
  /\ UNCHANGED <<containers, messy, wrecks, images, requests, edits, faults>>

\* Fault: an entry that is there already is replaced.
PublishOver(a) ==
  /\ call[a].at = "publish"
  /\ cache' = [cache EXCEPT ![call[a].f] = Artifact(a)]
  /\ order' = Append(order, call[a].f)
  /\ Mounted(a)
  /\ temps' = temps \ {call[a].id}
  /\ UNCHANGED <<containers, messy, wrecks, images, requests, edits, faults>>

\* os.replace: the loser of a race uses the winner's entry; a directory without
\* a marker is in the way, and the OSError is not handled.
Publish(a) ==
  LET f == call[a].f IN
  /\ call[a].at = "publish"
  /\ CASE cache[f].at = "none" ->
            /\ cache' = [cache EXCEPT ![f] = Artifact(a)]
            /\ order' = Append(order, f)
            /\ Mounted(a)
       [] Marked(f) -> Mounted(a) /\ UNCHANGED <<cache, order>>
       [] OTHER -> Finish(a, "exception", {}) /\ UNCHANGED <<cache, order>>
  /\ temps' = temps \ {call[a].id}
  /\ UNCHANGED <<containers, messy, wrecks, images, requests, edits, faults>>

-----------------------------------------------------------------------------
(* DockerSandboxRunner.run *)

\* _preflight
ImageThere(a) == call[a].command \in images

\* The directory that docker run is to mount.
MountDamaged(a) == call[a].f # Nothing /\ cache[call[a].f].at # "whole"
MountMissing(a) == call[a].f # Nothing /\ cache[call[a].f].at = "none"

\* _normalize_runtime_failure
Normalized(a, failure) ==
  IF failure = "TOOL_FAILURE" /\ ~ImageThere(a) THEN "ENV_UNAVAILABLE" ELSE failure

\* No daemon, no image, or a mount whose directory is gone.
StartContainer(a) ==
  /\ call[a].at = "start"
  /\ \/ /\ Fault
        /\ Finish(a, Normalized(a, "TOOL_FAILURE"), {"fault"}) /\ UNCHANGED containers
     \/ /\ ~ImageThere(a) \/ MountDamaged(a)
        /\ Finish(a, Normalized(a, "TOOL_FAILURE"), IF ImageThere(a) THEN {} ELSE {"image"})
        /\ UNCHANGED <<containers, faults>>
     \/ /\ ImageThere(a) /\ ~MountMissing(a)
        /\ Go(a, "running") /\ containers' = containers \cup {call[a].id} /\ UNCHANGED <<done, faults>>
  /\ UNCHANGED <<cache, order, temps, messy, wrecks, images, requests, edits>>

\* What the exit code is taken for.  Packages that disappear under a command
\* make it fail as a wrong program would.
Outcomes(a) ==
  {"passed", "TEST_FAILURE"} \cup (IF MountDamaged(a) THEN {"spurious TEST_FAILURE"} ELSE {})

EndContainer(a) ==
  /\ call[a].at = "running"
  /\ \/ \E result \in Outcomes(a) : Finish(a, result, {}) /\ UNCHANGED faults
     \/ Fault /\ Finish(a, Normalized(a, "TOOL_FAILURE"), {"fault"})
  /\ containers' = containers \ {call[a].id}
  /\ UNCHANGED <<cache, order, temps, messy, wrecks, images, requests, edits>>

\* The container is removed by its name, which can fail as well.
ForceRemove(a) ==
  \/ containers' = containers \ {call[a].id} /\ UNCHANGED messy
  \/ messy' = messy \cup {call[a].id} /\ UNCHANGED containers

\* Only the client is killed.
TimeOut(a) ==
  /\ call[a].at = "running" /\ Fault
  /\ Finish(a, "SANDBOX_TIMEOUT", {"fault"})
  /\ ForceRemove(a)
  /\ UNCHANGED <<cache, order, temps, wrecks, images, requests, edits>>

-----------------------------------------------------------------------------
(* The environment *)

\* A tool call that outlived its agent writes a manifest that is still to be read.
EditManifest(a) ==
  \E t \in Trees \ {call[a].tree} :
    /\ call[a].tree # NoTree /\ edits < MaxEdits
    /\ edits' = edits + 1
    /\ call' = [call EXCEPT ![a].tree = t, ![a].excuses = @ \cup {"edit"}]
    /\ UNCHANGED <<cache, order, done, temps, containers, messy, wrecks, images, requests, faults>>

RemoveImage ==
  /\ images = Runtimes /\ Fault
  /\ \E runtime \in Runtimes : images' = Runtimes \ {runtime}
  /\ UNCHANGED <<cache, order, call, done, temps, containers, messy, wrecks, requests, edits>>

Die(a) ==
  /\ call[a].at # "idle" /\ Fault
  /\ Finish(a, "died", {"fault"})
  /\ messy' = messy \cup {call[a].id}
  /\ wrecks' = IF call[a].at = "removing" THEN wrecks \cup {Victim(a)} ELSE wrecks
  /\ UNCHANGED <<cache, order, temps, containers, images, requests, edits>>

-----------------------------------------------------------------------------
Ensure(a) ==
  \/ Lookup(a) \/ Validate(a) \/ Sweep(a) \/ BeginRemoval(a) \/ EndRemoval(a)
  \/ CopyManifests(a) \/ Build(a) \/ Publish(a)

CacheNext ==
  \/ \E a \in Actors :
       \/ Verify(a) \/ Check(a) \/ Rebuild(a) \/ Cleanup(a)
       \/ Resolve(a) \/ CheckDocker(a) \/ PeekCache(a) \/ CheckRegistryPackage(a) \/ ClearEntry(a)
       \/ Ensure(a) \/ StartContainer(a) \/ EndContainer(a) \/ TimeOut(a)
       \/ EditManifest(a) \/ Die(a)
  \/ RemoveImage

CacheSpec == CacheInit /\ [][CacheNext]_cacheVars

-----------------------------------------------------------------------------
(* Properties *)

\* Types; the order of use lists every entry on disk once, and a request that
\* looks at an entry has resolved its fingerprint.
CacheTypeOK ==
  /\ cache \in [Keys -> [at : {"none", "whole", "hollow", "torn"}, pin : {t.pin : t \in Trees} \cup {"none"}]]
  /\ \A f \in Keys : cache[f].at # "none" <=> \E i \in DOMAIN order : order[i] = f
  /\ Len(order) = Cardinality({f \in Keys : cache[f].at # "none"})
  /\ \A a \in Actors :
       /\ call[a].f \in Keys \cup {Nothing}
       /\ call[a].at \in {"remove", "removing"} <=> call[a].victims # <<>>
       /\ call[a].at \in {"lookup", "validate", "build", "downloading", "installing", "publish"} => call[a].f # Nothing
  /\ temps \subseteq 1..requests /\ containers \subseteq 1..requests /\ messy \subseteq 1..requests
  /\ images \subseteq Runtimes

\* A command runs against the packages that its workspace declared when the
\* profile was resolved, unless some manifest was edited while it was in use:
\* an entry is not shared by different manifests.
MountMatchesManifest ==
  edits = 0 => \A a \in Actors :
    call[a].at = "running" /\ call[a].f # Nothing /\ cache[call[a].f].at = "whole" =>
      cache[call[a].f].pin = call[a].declared

\* The program is only blamed for missing packages if somebody removed the
\* entry during the request; remains of an earlier removal are recognised.
NotBlamedOnCode ==
  done.result = "spurious TEST_FAILURE" => "removal" \in done.excuses

\* A request that finds no environment, or ends in an exception that nobody
\* handles, met a fault, a removal or its remains, an edit, or manifests that
\* cannot be resolved; losing the race to build an entry is no reason.
EnvFailureHasCause ==
  done.result \in {"ENV_UNAVAILABLE", "TOOL_FAILURE", "refused", "exception"} =>
    done.excuses # {}

\* An entry that is neither whole nor gone, which no build can replace, is
\* being removed, or its removal was cut off.
WreckOwned == \A f \in Keys : Damaged(f) => Removing(f) \/ f \in wrecks

\* Temporary directories and containers belong to requests in flight, or to
\* ones that died or timed out.
NothingLeftBehind ==
  \A i \in temps \cup containers :
    i \in messy \/ \E a \in Actors : call[a].id = i /\ call[a].at \in {"downloading", "installing", "publish", "running"}

\* A failed verification is put down to what caused it: the program only when
\* the environment was whole, the environment only when something hit it.
VerdictHasCause == NotBlamedOnCode /\ EnvFailureHasCause

\* Damaged entries, temporary directories and containers have an owner.
EverythingOwned == CacheTypeOK /\ WreckOwned /\ NothingLeftBehind

=============================================================================
