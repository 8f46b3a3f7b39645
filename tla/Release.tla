------------------------------ MODULE Release ------------------------------
(***************************************************************************)
(* Building the payload of the orchestrator App and releasing both Apps:   *)
(* src/operations/prepare_app_source.py, release_controller.py,            *)
(* databricks_apps_client.py and scripts/deploy_app_rest.py.               *)
(*                                                                         *)
(* A script is the sequence of the calls it has yet to make; every call is *)
(* one step, and a call that fails ends the script there, with what the    *)
(* earlier ones did left in place.  The workspace, the Apps platform and   *)
(* the bundle CLI are external: a snapshot deployment is accepted while    *)
(* none is pending, is finished later, and until then the active           *)
(* deployment is the old one.                                              *)
(***************************************************************************)
EXTENDS Scripts, Sequences, SequencesExt

CONSTANTS Revisions,   \* commits of the repository
          Version,     \* Version[r]: the package version of revision r
          Targets,     \* bundle targets
          Tracked,     \* Tracked[r]: the payload that is committed with r
          None

Wheels == [version : {Version[r] : r \in Revisions},
           code : Revisions, ui : Revisions \cup {None}]
Payloads == [wheels : SUBSET Wheels, env : Targets \cup {None}]

ASSUME ReleaseAssumption == /\ Version \in [Revisions -> Nat]
                            /\ Tracked \in [Revisions -> Payloads]

VARIABLES checkout,  \* the revision in the checkout
          static,    \* the revision of the UI copied into the package
          dist,      \* the newest wheel in dist/
          local,     \* .databricks_app_source
          remote,    \* the payload in the workspace
          manifest,  \* the digests of the last release manifest, by App
          apps,      \* what the platform holds of the two Apps
          todo,      \* the calls the script has yet to make
          reported   \* the deployments the last check reported healthy

sourceVars == <<checkout, static, dist>>
payloadVars == <<local, remote, manifest>>
appVars == <<apps, reported>>
releaseVars == <<sourceVars, payloadVars, appVars, scripts, script, todo>>

Apps == {"hitl", "main"}

Deployments == [content : Revisions \cup Payloads \cup {None},
                state : {"SUCCEEDED", "FAILED"}]
NoApp == [there |-> FALSE, state |-> "NONE", active |-> None, pending |-> <<>>]
Created == [NoApp EXCEPT !.there = TRUE, !.state = "RUNNING"]

ReleaseInit ==
  /\ checkout \in Revisions
  /\ static = None
  /\ dist = None
  /\ local = Tracked[checkout]
  /\ remote = [hitl |-> None, wheels |-> {}, env |-> None]
  /\ manifest = None
  /\ \E known \in {NoApp, Created} : apps = [a \in Apps |-> known]
  /\ scripts = 0
  /\ script = "none"
  /\ todo = <<>>
  /\ reported = [a \in Apps |-> None]

-----------------------------------------------------------------------------
(* The scripts.                                                            *)

Call(op, a) == [op |-> op, of |-> a]
Both(op) == <<Call(op, "hitl"), Call(op, "main")>>

\* A mutant: the wheel is built before the UI it carries.
PrepareWheelFirst(target) ==
  <<Call("wheel", None), Call("ui", None), Call("clear", None),
    Call("copy", None), Call("sync", target)>>

PrepareCalls(target) ==
  <<Call("ui", None), Call("wheel", None), Call("clear", None),
    Call("copy", None), Call("sync", target)>>

\* A mutant: only the orchestrator's payload is imported.
ReleaseWithoutHitl(infrastructure, start) ==
  <<Call("validate", None), Call("import", "main"), Call("manifest", None)>>
    \o Both("deploy") \o Both("wait")

ReleaseCalls(infrastructure, start) ==
  <<Call("validate", None)>>
    \o (IF infrastructure THEN <<Call("bundle", None)>> ELSE <<>>)
    \o Both("import") \o <<Call("manifest", None)>> \o Both("deploy")
    \o (IF start THEN Both("start") ELSE <<>>) \o Both("wait")

JobCalls == <<Call("ensure", "hitl"), Call("deploy", "hitl"),
              Call("ensure", "main"), Call("deploy", "main")>>

Runs(name, calls) ==
  /\ Starts(name)
  /\ todo' = calls
  /\ reported' = [a \in Apps |-> None]
  /\ UNCHANGED <<sourceVars, payloadVars, apps>>

Prepare == \E t \in Targets : Runs("prepare", PrepareCalls(t))
StartRelease ==
  \E infrastructure, start \in BOOLEAN :
    Runs("release", ReleaseCalls(infrastructure, start))
StartAndCheck == Runs("start_and_check", Both("start") \o Both("wait"))
CheckOnly == Runs("check_only", Both("wait"))
DeployJob == Runs("job", JobCalls)

\* What git leaves in the payload: the wheels that neither revision tracks.
CheckedOut(r) ==
  [wheels |-> {w \in local.wheels :
                 \A v \in Tracked[checkout].wheels \cup Tracked[r].wheels : v.version # w.version}
                \cup Tracked[r].wheels,
   env |-> Tracked[r].env]

\* Someone checks out another revision; not while a script reads the tree.
\* Changes to files that both revisions track alike may be kept.
Edit ==
  /\ script = "none"
  /\ \E r \in Revisions \ {checkout} :
       /\ checkout' = r
       /\ \/ local' = CheckedOut(r)
          \/ local' = local /\ Tracked[r] = Tracked[checkout]
  /\ UNCHANGED <<static, dist, remote, manifest, appVars, scripts, script, todo>>

-----------------------------------------------------------------------------
(* The calls.                                                              *)

At(op) == todo # <<>> /\ Head(todo).op = op
Passes ==
  /\ todo' = Tail(todo)
  /\ UNCHANGED scripts
  /\ script' = IF Len(todo) = 1 THEN "none" ELSE script

Ends == todo' = <<>> /\ script' = "none" /\ UNCHANGED scripts

Fails ==
  /\ todo # <<>>
  /\ Ends
  /\ UNCHANGED <<sourceVars, payloadVars, appVars>>

BuildUi ==
  /\ At("ui")
  /\ Passes
  /\ static' = checkout
  /\ UNCHANGED <<checkout, dist, payloadVars, appVars>>

\* uv build --wheel: it takes the UI that is there.
Built == [version |-> Version[checkout], code |-> checkout, ui |-> static]

BuildWheel ==
  /\ At("wheel")
  /\ Passes
  /\ dist' = Built
  /\ UNCHANGED <<checkout, static, payloadVars, appVars>>

FillPayload ==
  /\ \/ At("clear") /\ local' = [local EXCEPT !.wheels = {}]
     \/ At("copy") /\ local' = [local EXCEPT !.wheels = @ \cup {dist}]
     \/ At("sync") /\ local' = [local EXCEPT !.env = Head(todo).of]
  /\ Passes
  /\ UNCHANGED <<sourceVars, remote, manifest, appVars>>

Validate ==
  /\ At("validate")
  /\ Passes
  /\ UNCHANGED <<sourceVars, payloadVars, appVars>>

\* import-dir --overwrite replaces files of the same name and removes none.
Overwritten(wheels) ==
  {w \in remote.wheels : \A v \in wheels : v.version # w.version} \cup wheels

\* The sync of the bundle CLI: it uploads what it takes for changed since its
\* last sync, and may delete what the tree no longer holds.
Synced ==
  [hitl : {remote.hitl, checkout}, env : {remote.env, local.env},
   wheels : {remote.wheels, Overwritten(local.wheels), local.wheels}]

\* databricks bundle deploy: the artifact build empties dist/ and makes a
\* wheel of the tree as it is; the files are synced; missing Apps are created.
BundleDeploy ==
  /\ At("bundle")
  /\ \/ Ends /\ dist' = None /\ UNCHANGED <<remote, apps>>
     \/ /\ dist' = Built
        /\ remote' \in Synced
        /\ \E new \in SUBSET {a \in Apps : ~apps[a].there}, state \in {"RUNNING", "STOPPED"} :
             /\ apps' = [a \in Apps |-> IF a \in new THEN [Created EXCEPT !.state = state]
                                      ELSE apps[a]]
             /\ \/ Passes /\ \A a \in Apps : apps'[a].there
                \/ Ends
  /\ UNCHANGED <<checkout, static, local, manifest, reported>>

Import ==
  /\ At("import")
  /\ IF Head(todo).of = "hitl"
       THEN Passes /\ remote' = [remote EXCEPT !.hitl = checkout]
       ELSE \/ Passes /\ remote' = [remote EXCEPT !.wheels = Overwritten(local.wheels),
                                                  !.env = local.env]
            \/ Ends /\ remote' = [remote EXCEPT !.wheels = Overwritten(local.wheels)]
  /\ UNCHANGED <<sourceVars, local, manifest, appVars>>

WriteManifest ==
  /\ At("manifest")
  /\ Passes
  /\ manifest' = [hitl |-> checkout, main |-> local]
  /\ UNCHANGED <<sourceVars, local, remote, appVars>>

Content(a) == IF a = "hitl" THEN remote.hitl
              ELSE [wheels |-> remote.wheels, env |-> remote.env]

\* A POST to an App that is missing or has a deployment pending is refused.
DeploySnapshot ==
  /\ At("deploy")
  /\ LET a == Head(todo).of IN
       /\ apps[a].there
       /\ apps[a].pending = <<>>
       /\ apps' = [apps EXCEPT ![a].pending = <<Content(a)>>]
  /\ Passes
  /\ UNCHANGED <<sourceVars, payloadVars, reported>>

\* The App's record is read; when the read raises, for whatever reason, the
\* App is created, which the platform refuses when it exists.
EnsureApp ==
  /\ At("ensure")
  /\ LET a == Head(todo).of IN
       \/ apps[a].there /\ UNCHANGED apps
       \/ ~apps[a].there /\ apps' = [apps EXCEPT ![a] = Created]
  /\ Passes
  /\ UNCHANGED <<sourceVars, payloadVars, reported>>

StartApp ==
  /\ At("start")
  /\ LET a == Head(todo).of IN
       /\ apps[a].there
       /\ apps' = [apps EXCEPT ![a].state = IF @ = "STOPPED" THEN "STARTING" ELSE @]
  /\ Passes
  /\ UNCHANGED <<sourceVars, payloadVars, reported>>

Healthy(a) == /\ apps[a].state = "RUNNING"
              /\ apps[a].active # None
              /\ apps[a].active.state = "SUCCEEDED"

\* One poll that finds the App healthy; Fails covers a failed deployment and
\* the deadline, and a poll that finds neither changes nothing.
WaitForHealth ==
  /\ At("wait")
  /\ LET a == Head(todo).of IN
       /\ Healthy(a)
       /\ reported' = [reported EXCEPT ![a] = apps[a].active.content]
  /\ Passes
  /\ UNCHANGED <<sourceVars, payloadVars, apps>>

-----------------------------------------------------------------------------
(* The platform.                                                           *)

\* A pending deployment ends.  A failed one becomes the active one, or leaves
\* the active one as it was.
DeploymentEnds(a) ==
  /\ apps[a].pending # <<>>
  /\ \E ended \in {[content |-> apps[a].pending[1], state |-> s] : s \in {"SUCCEEDED", "FAILED"}} :
       \/ apps' = [apps EXCEPT ![a].pending = <<>>, ![a].active = ended]
       \/ /\ ended.state = "FAILED"
          /\ apps' = [apps EXCEPT ![a].pending = <<>>]

StateChanges(a) ==
  /\ apps[a].there
  /\ \E s \in {"RUNNING", "STOPPED"} \ {apps[a].state} :
       /\ s = "RUNNING" => apps[a].state = "STARTING"
       /\ apps' = [apps EXCEPT ![a].state = s]

Deleted(a) == apps[a].there /\ apps' = [apps EXCEPT ![a] = NoApp]

Platform ==
  /\ \E a \in Apps : DeploymentEnds(a) \/ StateChanges(a) \/ Deleted(a)
  /\ UNCHANGED <<sourceVars, payloadVars, scripts, script, todo, reported>>

-----------------------------------------------------------------------------
ScriptStarts == Prepare \/ StartRelease \/ StartAndCheck \/ CheckOnly \/ DeployJob
Calls == \/ BuildUi \/ BuildWheel \/ FillPayload \/ Validate \/ BundleDeploy \/ Import
         \/ WriteManifest \/ DeploySnapshot \/ EnsureApp \/ StartApp
         \/ WaitForHealth \/ Fails

ReleaseNext == ScriptStarts \/ Calls \/ Edit \/ Platform

ReleaseSpec == ReleaseInit /\ [][ReleaseNext]_releaseVars

-----------------------------------------------------------------------------
(* Properties.                                                             *)

\* Every value stays within its type; a script runs while it has calls to make.
ReleaseTypeOK ==
  /\ checkout \in Revisions
  /\ static \in Revisions \cup {None}
  /\ dist \in Wheels \cup {None}
  /\ local \in Payloads
  /\ remote.hitl \in Revisions \cup {None}
  /\ remote.wheels \subseteq Wheels
  /\ manifest = None \/ manifest.main \in Payloads
  /\ script \in {"none", "prepare", "release", "start_and_check", "check_only", "job"}
  /\ (script = "none") <=> (todo = <<>>)

\* A wheel that can reach an App and was not committed carries the UI of its
\* own revision, whatever preparation failed before, whatever the UI and the
\* wheels of other builds that lie around, those of a bundle deployment too
\* (src/operations/prepare_app_source.py:51: "Must run before `uv build
\* --wheel` so the built wheel bundles the UI").
Committed == UNION {Tracked[r].wheels : r \in Revisions}
UiMatchesCode == \A w \in (local.wheels \cup remote.wheels) \ Committed : w.ui = w.code

\* Content that carries what the manifest's digests name: the revision of the
\* HITL App, and for the orchestrator at least the wheels and the environment.
Carries(a, content) ==
  IF a = "hitl" THEN content = manifest.hitl
  ELSE /\ manifest.main.wheels \subseteq content.wheels
       /\ manifest.main.env = content.env

\* Once a release has submitted an App's deployment, what is pending for that
\* App carries what the manifest names, even when earlier imports or
\* deployments stopped half-way (release_controller.py: build_manifest after
\* both imports, one path for both).
SubmittedIsManifest ==
  \A a \in Apps :
    (/\ script = "release"
     /\ Call("wait", a) \in ToSet(todo)
     /\ {Call("deploy", a), Call("manifest", None)} \cap ToSet(todo) = {}
     /\ apps[a].pending # <<>>) => Carries(a, apps[a].pending[1])

\* What a release reports as healthy is what it has released
\* (src/operations/release_controller.py:155: "publish App snapshots, and
\* verify App health").  Refuted: the deployment that was active before is
\* reported while the one just submitted is still pending.
ReportedIsReleased ==
  \A a \in Apps :
    (script = "release" /\ reported[a] # None) => Carries(a, reported[a])
=============================================================================
