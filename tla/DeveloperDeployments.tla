------------------------ MODULE DeveloperDeployments -------------------------
(***************************************************************************)
(* Deployments of one developer project whose source is staged and built   *)
(* from a Dockerfile, its origin trusted (web/routes/developer-projects,   *)
(* developer-project-sync and developer-operations.ts,                     *)
(* developer/deployment-runtime and deployment-source.ts).                 *)
(*                                                                         *)
(* A revision is synchronized, approved if it changes what runs, validated *)
(* and installed.  An install stages the source, stops the container of    *)
(* the active deployment, builds and starts its own, checks the manifest   *)
(* that is served, registers the application and makes its deployment the  *)
(* active one in a transaction.  What fails on the way is undone by the    *)
(* request itself.  A rollback does the same with the previous deployment. *)
(*                                                                         *)
(* All containers of the project answer to one network alias.  Nothing     *)
(* keeps two requests apart but the unique index of active deployments.    *)
(***************************************************************************)
EXTENDS Naturals, FiniteSets

CONSTANTS
    Revs, Manifests, Requests, None,
    \* Bounds of the model, not of the code.
    MaxDeployments,     \* installs that are tried
    MaxMishaps          \* mishaps in one behaviour, each of its own kind

Deployments == 1..MaxDeployments

\* What has gone wrong since the project began (history).
Mishaps == {"overlap",      \* two requests under way at once
            "abandoned",    \* a crash or a failed cleanup left containers as they were
            "half",         \* an action or an install failed when its effect was there
            "late"}         \* before all else, a deployment failed after its registration

Updates == {"up_to_date", "runtime_approval_required", "deployment_required",
            "validation_required", "validation_failed", "deployment_failed"}
Diff == [before : Manifests \cup {None}, after : Manifests, moved : BOOLEAN, approve : BOOLEAN]
Project == [revision : Revs \cup {None}, diff : Diff \cup {None}, approval : Diff \cup {None},
            update : Updates,
           valid : BOOLEAN,                             \* status is "source_valid"
            selected : Manifests \cup {None},           \* manifest_result_json.selected
            manifest : Manifests \cup {None}, validated : Revs \cup {None},
            deployed : Revs \cup {None}, runtime : {"healthy", "stopped"},
            compared : BOOLEAN, checked : BOOLEAN]      \* history, see WriteSync
Deployment == [rev : Revs, manifest : Manifests, active : BOOLEAN,
               status : {"pending", "running", "failed", "rolled_back"},
               previous : Deployments \cup {None}]

Forward == {"stage", "stop", "build", "serve", "register", "runtime", "switch", "commit"}
SyncRequest == [kind : {"sync"}, rev : Revs, diff : Diff, update : Updates, compared : BOOLEAN]
ApproveRequest == [kind : {"approve"}, diff : Diff, rev : Revs]
ValidateRequest == [kind : {"validate"}, manifest : Manifests \cup {None}]
PrepareRequest == [kind : {"prepare"}, rev : Revs, manifest : Manifests, selected : Manifests]
DeployRequest ==
    [kind : {"install", "rollback"}, rev : Revs, manifest : Manifests, selected : Manifests,
     step : Forward \cup {"remove", "log", "undo", "restore", "mark"},
     new : Deployments, old : Deployments \cup {None}, stopped : BOOLEAN, saw : SUBSET Deployments]
ActionRequest == [kind : {"action"}, action : {"start", "stop", "rebuild"}, of : Deployments,
                  step : {"perform", "run", "record"}]
Request == SyncRequest \cup ApproveRequest \cup ValidateRequest \cup PrepareRequest
             \cup DeployRequest \cup ActionRequest

ASSUME DeploymentAssumption == MaxDeployments \in Nat /\ MaxMishaps \in Nat

ASSUME AbsenceAssumption ==
    /\ None \notin Revs \cup Manifests \cup Diff \cup Deployments
    /\ None \notin Deployment \cup Request

VARIABLES
    source,         \* the revision the repository or workspace is at (external)
    manifestOf,     \* the manifest of each revision (external)
    project,        \* its row of core.local_app_projects
    dep,            \* core.developer_deployments
    container,      \* the container of each deployment
    app,            \* core.installed_apps and core.app_runtime_installations
    req,            \* the requests under way
    accepted,       \* history: revisions approved by an operator or once deployed
    past            \* history: the mishaps so far

vars == <<source, manifestOf, project, dep, container, app, req, accepted, past>>
records == <<project, dep, app>>
world == <<source, manifestOf>>

TypeOK ==
    /\ source \in Revs /\ manifestOf \in [Revs -> Manifests]
    /\ project \in Project
    /\ dep \in [Deployments -> Deployment \cup {None}]
    /\ container \in [Deployments -> {"none", "stopped", "running"}]
    /\ app \in [manifest : Manifests \cup {None}, runtime : Deployments \cup {None}]
    /\ req \in [Requests -> Request \cup {None}]
    /\ accepted \subseteq Revs /\ past \subseteq Mishaps

Init ==
    /\ source \in Revs /\ manifestOf \in [Revs -> Manifests]
    /\ project = [revision |-> None, diff |-> None, approval |-> None, update |-> "validation_required",
                  valid |-> FALSE, selected |-> None, manifest |-> None,
                  validated |-> None, deployed |-> None, runtime |-> "stopped",
                  compared |-> FALSE, checked |-> FALSE]
    /\ dep = [d \in Deployments |-> None]
    /\ container = [d \in Deployments |-> "none"]
    /\ app = [manifest |-> None, runtime |-> None]
    /\ req = [q \in Requests |-> None]
    /\ accepted = {} /\ past = {}

Active == {d \in Deployments : dep[d] # None /\ dep[d].active}

-----------------------------------------------------------------------------
(* Requests *)

Mishap(what) ==
    /\ what \notin past
    /\ past' = past \cup {what}
    /\ Cardinality(past') <= MaxMishaps

Begin(q, x) ==
    /\ req[q] = None
    /\ req' = [req EXCEPT ![q] = x]
    /\ IF \E p \in Requests : req[p] # None THEN Mishap("overlap") ELSE UNCHANGED past

Doing(q, kind) == req[q] # None /\ req[q].kind = kind
Deploying(q, step) ==
    req[q] # None /\ req[q].kind \in {"install", "rollback"} /\ req[q].step = step
Goto(q, step) == req' = [req EXCEPT ![q].step = step]
End(q) == req' = [req EXCEPT ![q] = None]

(* The catch block of an install or a rollback that has not committed. *)
Catch(q) ==
    /\ Goto(q, "undo")
    /\ past' = IF past = {} /\ req[q].step \in {"runtime", "switch", "commit"} THEN {"late"} ELSE past

-----------------------------------------------------------------------------
(* Synchronization, approval and validation: a row is read, then written *)

(* Whether a manifest differs from the validated one in a field that       *)
(* matters for security; with nothing validated every field differs.       *)
SecurityChanges(before, after) ==
    IF before = after THEN {FALSE} ELSE IF before = None THEN {TRUE} ELSE BOOLEAN

(* POST /developer-projects/:id/sync: the row and the source are read. *)
StartSync(q) ==
    \E security \in SecurityChanges(project.selected, manifestOf[source]) :
    LET after == manifestOf[source]
        sameRevision == project.deployed = source
        sameManifest == project.manifest = after
        moved == project.deployed # None /\ ~sameRevision
        approve == project.deployed # None /\ (moved \/ security)
    IN  /\ Begin(q, [kind |-> "sync", rev |-> source, compared |-> project.deployed # None,
                     diff |-> [before |-> project.selected, after |-> after,
                               moved |-> moved, approve |-> approve],
                     update |-> IF sameRevision /\ sameManifest THEN "up_to_date"
                                ELSE IF approve THEN "runtime_approval_required"
                                ELSE IF sameManifest THEN "deployment_required"
                                ELSE "validation_required"])
        /\ UNCHANGED <<world, records, container, accepted>>

(* compared (history): the diff was taken against a deployed revision. *)
WriteSync(q) ==
    /\ Doing(q, "sync")
    /\ project' = [project EXCEPT !.revision = req[q].rev, !.diff = req[q].diff,
                     !.approval = None, !.update = req[q].update, !.compared = req[q].compared]
    /\ End(q)
    /\ UNCHANGED <<world, dep, app, container, accepted, past>>

(* POST /developer-projects/:id/approve-runtime *)
StartApprove(q) ==
    /\ project.update = "runtime_approval_required" /\ project.diff # None
    /\ Begin(q, [kind |-> "approve", diff |-> project.diff, rev |-> project.revision])
    /\ UNCHANGED <<world, records, container, accepted>>

WriteApproval(q) ==
    /\ Doing(q, "approve")
    /\ project' = [project EXCEPT !.approval = req[q].diff, !.update = "validation_required"]
    /\ accepted' = accepted \cup {req[q].rev}
    /\ End(q)
    /\ UNCHANGED <<world, dep, app, container, past>>

(* Mutant: validation does not ask for the approval. *)
StartValidateUnapproved(q) ==
    /\ Begin(q, [kind |-> "validate",
                 manifest |-> IF project.revision = None THEN None
                              ELSE manifestOf[project.revision]])
    /\ UNCHANGED <<world, records, container, accepted>>

(* POST /developer-projects/:id/validate-source: without a synchronized    *)
(* manifest the source is found invalid.                                   *)
StartValidate(q) ==
    /\ project.diff # None /\ project.diff.approve => project.approval = project.diff
    /\ Begin(q, [kind |-> "validate",
                 manifest |-> IF project.revision = None THEN None
                              ELSE manifestOf[project.revision]])
    /\ UNCHANGED <<world, records, container, accepted>>

(* checked (history): the diff behind the validation was so compared. *)
WriteValidation(q) ==
    /\ Doing(q, "validate")
    /\ LET valid == req[q].manifest # None IN
         project' = [project EXCEPT
           !.valid = valid, !.selected = req[q].manifest, !.manifest = req[q].manifest,
           !.validated = project.revision, !.checked = project.compared,
           !.update = IF valid THEN "deployment_required" ELSE "validation_failed"]
    /\ End(q)
    /\ UNCHANGED <<world, dep, app, container, accepted, past>>

-----------------------------------------------------------------------------
(* Deployment *)

(* POST /developer-projects/:id/install *)
StartInstall(q) ==
    /\ project.valid /\ project.selected # None
    /\ Begin(q, [kind |-> "prepare", rev |-> project.validated, manifest |-> project.manifest,
                 selected |-> project.selected])
    /\ UNCHANGED <<world, records, container, accepted>>

(* The active deployment is read, the new one inserted. *)
InsertDeployment(q) ==
    /\ Doing(q, "prepare")
    /\ \E d \in Deployments, old \in IF Active = {} THEN {None} ELSE Active :
         /\ dep[d] = None /\ \A e \in 1..(d - 1) : dep[e] # None
         /\ dep' = [dep EXCEPT ![d] = [rev |-> req[q].rev, manifest |-> req[q].manifest,
                      active |-> FALSE, status |-> "pending", previous |-> old]]
         /\ req' = [req EXCEPT ![q] = [kind |-> "install", rev |-> req[q].rev,
                      manifest |-> req[q].manifest, selected |-> req[q].selected,
                      step |-> "stage", new |-> d, old |-> old, stopped |-> FALSE, saw |-> {}]]
    /\ UNCHANGED <<world, project, app, container, accepted, past>>

(* POST /developer-deployments/:id/rollback *)
StartRollback(q, d) ==
    /\ d \in Active /\ dep[d].previous # None
    /\ LET target == dep[d].previous IN
         Begin(q, [kind |-> "rollback", rev |-> dep[target].rev, manifest |-> dep[target].manifest,
                   selected |-> dep[target].manifest, step |-> "stop", new |-> target, old |-> d,
                   stopped |-> FALSE, saw |-> {}])
    /\ UNCHANGED <<world, records, container, accepted>>

(* The source is copied or checked out anew and must be what was validated. *)
Stage(q) ==
    /\ Deploying(q, "stage")
    /\ IF source = req[q].rev /\ manifestOf[source] = req[q].manifest
         THEN Goto(q, "stop") /\ UNCHANGED past
         ELSE Catch(q)
    /\ UNCHANGED <<world, records, container, accepted>>

(* Mutant: the old container goes on until the new one has taken over. *)
StopNothing(q) ==
    /\ Deploying(q, "stop")
    /\ Goto(q, "build")
    /\ UNCHANGED <<world, records, container, accepted, past>>

StopOld(q) ==
    /\ Deploying(q, "stop")
    /\ LET old == req[q].old IN
         \/ /\ old = None
            /\ Goto(q, "build")
            /\ UNCHANGED <<container, past>>
         \/ /\ old # None /\ container[old] # "none"
            /\ container' = [container EXCEPT ![old] = "stopped"]
            /\ req' = [req EXCEPT ![q].step = "build", ![q].stopped = TRUE]
            /\ UNCHANGED past
         \/ /\ old # None /\ container[old] = "none"
            /\ Catch(q)
            /\ UNCHANGED container
    /\ UNCHANGED <<world, records, accepted>>

(* docker build and run; the name of a container is taken while it exists. *)
BuildNew(q) ==
    /\ Deploying(q, "build")
    /\ LET new == req[q].new IN
         \/ /\ container[new] = "none"
            /\ container' = [container EXCEPT ![new] = "running"]
            /\ Goto(q, "serve") /\ UNCHANGED past
         \/ /\ container[new] # "none"
            /\ Catch(q) /\ UNCHANGED container
    /\ UNCHANGED <<world, records, accepted>>

Running == {d \in Deployments : container[d] = "running"}

(* Health and manifest are asked of the alias: any running container       *)
(* answers, or none does.                                                  *)
CheckServed(q) ==
    /\ Deploying(q, "serve")
    /\ \/ /\ \E d \in Running : manifestOf[dep[d].rev] = req[q].selected
          /\ Goto(q, "register") /\ UNCHANGED past
       \/ /\ Running = {} \/ \E d \in Running : manifestOf[dep[d].rev] # req[q].selected
          /\ Catch(q)
    /\ UNCHANGED <<world, records, container, accepted>>

(* installFetchedApp: the row, and the audit entry after it, whose failure *)
(* is one of the next step, with the application registered.               *)
Register(q) ==
    /\ Deploying(q, "register")
    /\ app' = [app EXCEPT !.manifest = req[q].selected]
    /\ Goto(q, "runtime")
    /\ UNCHANGED <<world, project, dep, container, accepted, past>>

(* Mutant: a rollback leaves the registered runtime as it is. *)
RegisterRuntimeOnce(q) ==
    /\ Deploying(q, "runtime")
    /\ app' = IF req[q].kind = "install" THEN [app EXCEPT !.runtime = req[q].new] ELSE app
    /\ Goto(q, IF req[q].kind = "install" THEN "switch" ELSE "commit")
    /\ UNCHANGED <<world, project, dep, container, accepted, past>>

(* upsertDeveloperAppRuntimeInstallation *)
RegisterRuntime(q) ==
    /\ Deploying(q, "runtime")
    /\ app' = [app EXCEPT !.runtime = req[q].new]
    /\ Goto(q, IF req[q].kind = "install" THEN "switch" ELSE "commit")
    /\ UNCHANGED <<world, project, dep, container, accepted, past>>

(* The transaction of an install begins: it will deactivate what is active *)
(* in its snapshot.                                                        *)
SwitchInstall(q) ==
    /\ Deploying(q, "switch")
    /\ req' = [req EXCEPT ![q].step = "commit", ![q].saw = Active]
    /\ UNCHANGED <<world, records, container, accepted, past>>

Installed(rev) ==
    [project EXCEPT !.valid = FALSE, !.deployed = rev, !.runtime = "healthy",
                    !.update = "up_to_date"]

Switched(new, saw) ==
    [d \in Deployments |->
       IF d = new THEN [dep[d] EXCEPT !.active = TRUE, !.status = "running"]
       ELSE IF d \in saw THEN [dep[d] EXCEPT !.active = FALSE] ELSE dep[d]]

(* Mutant: no unique index of active deployments. *)
CommitInstallUnindexed(q) ==
    /\ Deploying(q, "commit") /\ req[q].kind = "install"
    /\ dep' = Switched(req[q].new, req[q].saw)
    /\ project' = Installed(req[q].rev)
    /\ accepted' = accepted \cup {req[q].rev}
    /\ Goto(q, "remove")
    /\ UNCHANGED <<world, app, container, past>>

(* Mutant: the revision validated last is taken for the deployed one. *)
CommitInstallRereading(q) ==
    /\ Deploying(q, "commit") /\ req[q].kind = "install"
    /\ IF Active \subseteq req[q].saw
         THEN /\ dep' = Switched(req[q].new, req[q].saw)
              /\ project' = Installed(project.validated)
              /\ accepted' = accepted \cup {req[q].rev}
              /\ Goto(q, "remove") /\ UNCHANGED past
         ELSE Catch(q) /\ UNCHANGED <<dep, project, accepted>>
    /\ UNCHANGED <<world, app, container>>

(* Another deployment, activated since, violates the unique index. *)
CommitInstall(q) ==
    /\ Deploying(q, "commit") /\ req[q].kind = "install"
    /\ IF Active \subseteq req[q].saw
         THEN /\ dep' = Switched(req[q].new, req[q].saw)
              /\ project' = Installed(req[q].rev)
              /\ accepted' = accepted \cup {req[q].rev}
              /\ Goto(q, "remove") /\ UNCHANGED past
         ELSE Catch(q) /\ UNCHANGED <<dep, project, accepted>>
    /\ UNCHANGED <<world, app, container>>

(* The transaction of a rollback names both deployments. *)
CommitRollback(q) ==
    /\ Deploying(q, "commit") /\ req[q].kind = "rollback"
    /\ LET new == req[q].new
           old == req[q].old
       IN  IF Active \subseteq {old, new}
             THEN /\ dep' = [dep EXCEPT ![old].active = FALSE, ![old].status = "rolled_back",
                                        ![new].active = TRUE, ![new].status = "running"]
                  /\ project' = [project EXCEPT !.deployed = req[q].rev,
                                   !.manifest = req[q].manifest, !.runtime = "healthy",
                                   !.update = "up_to_date"]
                  /\ Goto(q, "remove") /\ UNCHANGED past
             ELSE Catch(q) /\ UNCHANGED <<dep, project>>
    /\ UNCHANGED <<world, app, container, accepted>>

(* Removing the old container is best effort. *)
RemoveOld(q) ==
    /\ Deploying(q, "remove")
    /\ LET old == req[q].old IN
         \/ /\ container' = IF old = None THEN container ELSE [container EXCEPT ![old] = "none"]
            /\ UNCHANGED past
         \/ /\ old # None /\ Mishap("abandoned") /\ UNCHANGED container
    /\ Goto(q, "log")
    /\ UNCHANGED <<world, records, accepted>>

(* An install whose log entry fails runs into its catch block; a rollback  *)
(* knows that it has switched.                                             *)
WriteLog(q) ==
    /\ Deploying(q, "log")
    /\ \/ End(q) /\ UNCHANGED past
       \/ req[q].kind = "install" /\ Mishap("half") /\ Goto(q, "undo")
    /\ UNCHANGED <<world, records, container, accepted>>

(* The catch block: remove the new container, restart the old one, *)
UndoNew(q) ==
    /\ Deploying(q, "undo")
    /\ \/ container' = [container EXCEPT ![req[q].new] = "none"] /\ UNCHANGED past
       \/ container[req[q].new] # "none" /\ Mishap("abandoned") /\ UNCHANGED container
    /\ Goto(q, "restore")
    /\ UNCHANGED <<world, records, accepted>>

(* Mutant: the old container is left stopped. *)
RestoreNothing(q) ==
    /\ Deploying(q, "restore")
    /\ IF req[q].kind = "install" THEN Goto(q, "mark") ELSE End(q)
    /\ UNCHANGED <<world, records, container, accepted, past>>

RestoreOld(q) ==
    /\ Deploying(q, "restore")
    /\ IF req[q].stopped /\ container[req[q].old] # "none"
         THEN \/ container' = [container EXCEPT ![req[q].old] = "running"] /\ UNCHANGED past
              \/ Mishap("abandoned") /\ UNCHANGED container
         ELSE UNCHANGED <<container, past>>
    /\ IF req[q].kind = "install" THEN Goto(q, "mark") ELSE End(q)
    /\ UNCHANGED <<world, records, accepted>>

(* and record the failure. *)
MarkFailed(q) ==
    /\ Deploying(q, "mark")
    /\ dep' = [dep EXCEPT ![req[q].new].status = "failed"]
    /\ project' = IF req[q].old = None THEN [project EXCEPT !.update = "deployment_failed"]
                  ELSE project
    /\ End(q)
    /\ UNCHANGED <<world, app, container, accepted, past>>

-----------------------------------------------------------------------------
(* POST /developer-projects/:id/runtime/action; a restart is a start *)

StartAction(q, d, action) ==
    /\ d \in Active
    /\ Begin(q, [kind |-> "action", action |-> action, of |-> d, step |-> "perform"])
    /\ UNCHANGED <<world, records, container, accepted>>

Acting(q, step) == Doing(q, "action") /\ req[q].step = step

Perform(q) ==
    /\ Acting(q, "perform")
    /\ LET d == req[q].of IN
         \/ /\ req[q].action = "rebuild"
            /\ container' = [container EXCEPT ![d] = "none"]
            /\ Goto(q, "run")
         \/ /\ req[q].action # "rebuild" /\ container[d] # "none"
            /\ container' = [container EXCEPT ![d] =
                               IF req[q].action = "stop" THEN "stopped" ELSE "running"]
            /\ Goto(q, "record")
    /\ UNCHANGED <<world, records, accepted, past>>

RunRebuilt(q) ==
    /\ Acting(q, "run")
    /\ container[req[q].of] = "none"
    /\ container' = [container EXCEPT ![req[q].of] = "running"]
    /\ Goto(q, "record")
    /\ UNCHANGED <<world, records, accepted, past>>

RecordAction(q) ==
    /\ Acting(q, "record")
    /\ project' = [project EXCEPT !.runtime =
                     IF req[q].action = "stop" THEN "stopped" ELSE "healthy"]
    /\ End(q)
    /\ UNCHANGED <<world, dep, app, container, accepted, past>>

-----------------------------------------------------------------------------
(* A query, a file operation, docker or the application fails *)

Fails(q) ==
    /\ req[q] # None
    /\ \/ /\ req[q].kind \in {"sync", "approve", "validate", "prepare"}
          /\ End(q) /\ UNCHANGED past
       \/ /\ req[q].kind \in {"install", "rollback"} /\ req[q].step \in Forward
          /\ Catch(q)
       \/ /\ req[q].kind = "install" /\ req[q].step \in {"stage", "mark"}
          /\ End(q) /\ UNCHANGED past
       \/ /\ req[q].kind = "action" /\ req[q].step = "perform"
          /\ End(q) /\ UNCHANGED past
       \/ /\ req[q].kind = "action" /\ req[q].step \in {"run", "record"}
          /\ End(q) /\ Mishap("half")
    /\ UNCHANGED <<world, records, container, accepted>>

Restart ==
    /\ \E q \in Requests : req[q] # None
    /\ req' = [q \in Requests |-> None]
    /\ Mishap("abandoned")
    /\ UNCHANGED <<world, records, container, accepted>>

(* POST .../test-origin and .../trust-origin: a validated source is to be  *)
(* validated again.                                                        *)
RetestOrigin ==
    /\ project' = [project EXCEPT !.valid = FALSE]
    /\ UNCHANGED <<world, dep, app, container, req, accepted, past>>

MoveSource ==
    /\ source' \in Revs \ {source}
    /\ UNCHANGED <<manifestOf, records, container, req, accepted, past>>

Step(q) ==
    \/ WriteSync(q) \/ WriteApproval(q) \/ WriteValidation(q) \/ InsertDeployment(q)
    \/ Stage(q) \/ StopOld(q) \/ BuildNew(q) \/ CheckServed(q) \/ Register(q)
    \/ RegisterRuntime(q) \/ SwitchInstall(q) \/ CommitInstall(q) \/ CommitRollback(q)
    \/ RemoveOld(q) \/ WriteLog(q) \/ UndoNew(q) \/ RestoreOld(q) \/ MarkFailed(q)
    \/ Perform(q) \/ RunRebuilt(q) \/ RecordAction(q) \/ Fails(q)

Start(q) ==
    \/ StartSync(q) \/ StartApprove(q) \/ StartValidate(q) \/ StartInstall(q)
    \/ \E d \in Deployments : StartRollback(q, d)
    \/ \E d \in Deployments, a \in {"start", "stop", "rebuild"} : StartAction(q, d, a)

Next ==
    \/ \E q \in Requests : Start(q) \/ Step(q)
    \/ Restart
    \/ RetestOrigin
    \/ MoveSource

Spec == Init /\ [][Next]_vars

-----------------------------------------------------------------------------
(* What holds under any interleaving *)

(* At most one deployment is active, however installs and rollbacks race.  *)
OneActive == Cardinality(Active) <= 1

(* The revision the project reports as deployed is the one of its active   *)
(* deployment, though two tables hold them and requests overlap.           *)
DeployedIsActive == \A d \in Active : project.deployed = dep[d].rev

-----------------------------------------------------------------------------
(* What holds as long as certain things have not happened *)

Spared(what) == past \cap what = {}
AtRest == \A q \in Requests : req[q] = None

(* Outside of overlaps, crashes and failed cleanups one container at most  *)
(* answers to the alias, so the manifest checked is that of the new one.   *)
OneAnswers == Spared({"overlap", "abandoned"}) => Cardinality(Running) <= 1

(* When nothing is under way, a runtime reported healthy runs: a failed    *)
(* deployment has put the previous one back.                               *)
HealthyRuns ==
    Spared({"overlap", "abandoned", "half"}) /\ AtRest /\ project.runtime = "healthy"
      => Active \subseteq Running

(* Without any mishap: when nothing is under way, the registered manifest  *)
(* and runtime are those of the active deployment.                         *)
RegisteredIsActive ==
    past = {} /\ AtRest
      => \A d \in Active : app = [manifest |-> dep[d].manifest, runtime |-> d]

(* A revision that replaces another was approved, or deployed before, if   *)
(* the diff behind its validation was taken against a deployed revision.   *)
ReplacedWithApproval ==
    \A d \in Deployments :
      /\ d \in Active' /\ d \notin Active /\ Spared({"overlap"}) /\ project.checked
      /\ project.deployed \notin {None, dep[d].rev}
      => dep[d].rev \in accepted
ReplacedOnlyWithApproval == [][ReplacedWithApproval]_vars

-----------------------------------------------------------------------------
(* What the repository says and the code does not do *)

(* developer-managed-deployment.test.ts: a failed deployment is not active. *)
FailedIsInactive == \A d \in Deployments : dep[d] # None /\ dep[d].status = "failed"
                                           => ~dep[d].active

(* developer-update-lifecycle.test.ts: a change of the revision of a       *)
(* managed runtime requires approval.                                      *)
NewRevisionApproved ==
    \A d \in Deployments :
      d \in Active' /\ d \notin Active /\ project.deployed \notin {None, dep[d].rev}
        => dep[d].rev \in accepted
NewRevisionsApproved == [][NewRevisionApproved]_vars
=============================================================================
