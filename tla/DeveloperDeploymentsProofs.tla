---------------------- MODULE DeveloperDeploymentsProofs ----------------------
(***************************************************************************)
(* Proofs about DeveloperDeployments, for any number of revisions,         *)
(* manifests, deployments and overlapping requests.  The inductive         *)
(* invariant adds to the types what the row of the project implies         *)
(* (RowSound), that deployments never vanish (PreviousExists), what each   *)
(* request may rely on between two of its steps (Held), and states         *)
(* OneActive without cardinalities (Unique).  A second invariant, AInv,    *)
(* follows an approval from the diff to the install it permits; a third,   *)
(* DInv, the containers and the registration of a request under way alone. *)
(***************************************************************************)
EXTENDS DeveloperDeployments, FiniteSetTheorems, TLAPS

USE DeploymentAssumption, AbsenceAssumption

(* A diff is of a synchronized revision; what was found valid has a        *)
(* manifest and a revision.                                                *)
RowSound ==
    /\ project.diff # None => project.revision # None
    /\ project.selected # None => project.manifest # None /\ project.validated # None

PreviousExists ==
    \A d \in Deployments :
      dep[d] # None /\ dep[d].previous # None => dep[dep[d].previous] # None

(* What a request that holds x may rely on in row p and deployments ds. *)
Sound(x, p, ds) ==
    /\ x.kind = "validate" /\ x.manifest # None => p.revision # None
    /\ x.kind \in {"install", "rollback"} =>
         /\ ds[x.new] # None /\ ds[x.new].rev = x.rev
         /\ x.old # None => ds[x.old] # None
         /\ \A d \in x.saw : ds[d] # None
    /\ x.kind = "rollback" => x.old # None

Held == \A q \in Requests : req[q] # None => Sound(req[q], project, dep)

Unique == \A d, e \in Active : d = e

IInv == TypeOK /\ RowSound /\ PreviousExists /\ Held /\ Unique /\ DeployedIsActive

-----------------------------------------------------------------------------
(* Records *)

DeploySteps == Forward \cup {"remove", "log", "undo", "restore", "mark"}

(* The kind of a request tells its fields. *)
LEMMA KindTells ==
    ASSUME NEW x \in Request
    PROVE  /\ x # None
           /\ x.kind = "sync" => x \in SyncRequest
           /\ x.kind = "approve" => x \in ApproveRequest
           /\ x.kind = "validate" => x \in ValidateRequest
           /\ x.kind = "prepare" => x \in PrepareRequest
           /\ x.kind \in {"install", "rollback"} => x \in DeployRequest
           /\ x.kind = "action" => x \in ActionRequest
  BY DEF Request, SyncRequest, ApproveRequest, ValidateRequest, PrepareRequest,
         DeployRequest, ActionRequest

(* A deployment that takes another step stays one, and stays sound. *)
LEMMA DeployStep ==
    ASSUME NEW x \in DeployRequest, NEW p, NEW ds, Sound(x, p, ds), NEW t \in DeploySteps
    PROVE  /\ [x EXCEPT !.step = t] \in DeployRequest
           /\ Sound([x EXCEPT !.step = t], p, ds)
  <1>1. [x EXCEPT !.step = t] \in DeployRequest
    BY DEF DeployRequest, DeploySteps
  <1>2. Sound([x EXCEPT !.step = t], p, ds)
    BY DEF DeployRequest, Sound
  <1> QED BY <1>1, <1>2

LEMMA StoppedStep ==
    ASSUME NEW x \in DeployRequest, NEW p, NEW ds, Sound(x, p, ds)
    PROVE  /\ [x EXCEPT !.step = "build", !.stopped = TRUE] \in DeployRequest
           /\ Sound([x EXCEPT !.step = "build", !.stopped = TRUE], p, ds)
  <1>1. [x EXCEPT !.step = "build", !.stopped = TRUE] \in DeployRequest
    BY DEF DeployRequest, Forward
  <1>2. Sound([x EXCEPT !.step = "build", !.stopped = TRUE], p, ds)
    BY DEF DeployRequest, Sound
  <1> QED BY <1>1, <1>2

LEMMA SnapshotStep ==
    ASSUME NEW x \in DeployRequest, NEW p, NEW ds, Sound(x, p, ds),
           NEW s \in SUBSET Deployments, \A d \in s : ds[d] # None
    PROVE  /\ [x EXCEPT !.step = "commit", !.saw = s] \in DeployRequest
           /\ Sound([x EXCEPT !.step = "commit", !.saw = s], p, ds)
  <1>1. [x EXCEPT !.step = "commit", !.saw = s] \in DeployRequest
    BY DEF DeployRequest, Forward
  <1>2. Sound([x EXCEPT !.step = "commit", !.saw = s], p, ds)
    BY DEF DeployRequest, Sound
  <1> QED BY <1>1, <1>2

(* Nothing a request relies on is taken away from row p and deployments ds. *)
Grown(p, ds, p1, ds1) ==
    /\ p.revision # None => p1.revision # None
    /\ \A d \in Deployments : ds[d] # None => ds1[d] # None /\ ds1[d].rev = ds[d].rev

LEMMA SoundStays ==
    ASSUME NEW x \in Request, NEW p, NEW ds, NEW p1, NEW ds1,
           Sound(x, p, ds), Grown(p, ds, p1, ds1)
    PROVE  Sound(x, p1, ds1)
  <1>1. CASE x.kind \in {"install", "rollback"}
    <2>1. x \in DeployRequest
      BY <1>1, KindTells
    <2>2. x.new \in Deployments /\ x.old \in Deployments \cup {None}
          /\ x.saw \subseteq Deployments
      BY <2>1 DEF DeployRequest
    <2> QED BY <1>1, <2>2 DEF Sound, Grown
  <1>2. CASE x.kind \notin {"install", "rollback"}
    BY <1>2 DEF Sound, Grown
  <1> QED BY <1>1, <1>2

(* One request begins, goes on or ends; the others keep what they hold. *)
LEMMA OneMoves ==
    ASSUME TypeOK, Held, Grown(project, dep, project', dep'), NEW q \in Requests, NEW y,
           req' = [req EXCEPT ![q] = y],
           y # None => y \in Request /\ Sound(y, project', dep')
    PROVE  req' \in [Requests -> Request \cup {None}] /\ Held'
  <1>1. req \in [Requests -> Request \cup {None}]
    BY DEF TypeOK
  <1>2. req' \in [Requests -> Request \cup {None}]
    BY <1>1
  <1>3. ASSUME NEW p \in Requests, req'[p] # None PROVE Sound(req'[p], project', dep')
    <2>1. CASE p = q
      BY <1>1, <1>3, <2>1
    <2>2. CASE p # q
      <3>1. req'[p] = req[p] /\ req[p] \in Request
        BY <1>1, <1>3, <2>2
      <3>2. Sound(req[p], project, dep)
        BY <1>3, <3>1 DEF Held
      <3> QED BY <3>1, <3>2, SoundStays
    <2> QED BY <2>1, <2>2
  <1> QED BY <1>2, <1>3 DEF Held

Containers == [Deployments -> {"none", "stopped", "running"}]

(* A step that leaves the records alone. *)
LEMMA RecordsKept ==
    ASSUME IInv, NEW q \in Requests, NEW y,
           req' = [req EXCEPT ![q] = y],
           y # None => y \in Request /\ Sound(y, project, dep),
           UNCHANGED <<world, records, accepted>>,
           container' \in Containers, past' \subseteq Mishaps
    PROVE  IInv'
  <1>1. Grown(project, dep, project', dep') /\ project' = project /\ dep' = dep
    BY DEF Grown, records
  <1>2. req' \in [Requests -> Request \cup {None}] /\ Held'
    BY <1>1, OneMoves DEF IInv
  <1>3. TypeOK'
    BY <1>2 DEF IInv, TypeOK, world, records, Containers
  <1>4. RowSound' /\ PreviousExists' /\ Unique' /\ DeployedIsActive'
    BY <1>1 DEF IInv, RowSound, PreviousExists, Unique, DeployedIsActive, Active
  <1> QED BY <1>2, <1>3, <1>4 DEF IInv

LEMMA BeginKeeps ==
    ASSUME IInv, NEW q \in Requests, NEW x \in Request, Sound(x, project, dep),
           Begin(q, x), UNCHANGED <<world, records, container, accepted>>
    PROVE  IInv'
  <1>1. req' = [req EXCEPT ![q] = x] /\ past' \subseteq Mishaps
    BY DEF Begin, Mishap, Mishaps, IInv, TypeOK
  <1>2. container' \in Containers /\ UNCHANGED <<world, records, accepted>>
    BY DEF IInv, TypeOK, Containers
  <1> QED BY <1>1, <1>2, RecordsKept

(* A deployment that only takes another step. *)
LEMMA GotoKeeps ==
    ASSUME IInv, NEW q \in Requests, NEW s, Deploying(q, s), NEW t \in DeploySteps, Goto(q, t),
           UNCHANGED <<world, records, accepted>>,
           container' \in Containers, past' \subseteq Mishaps
    PROVE  IInv'
  <1>1. req[q] \in DeployRequest /\ Sound(req[q], project, dep)
    BY KindTells DEF Deploying, IInv, TypeOK, Held
  <1> DEFINE y == [req[q] EXCEPT !.step = t]
  <1>2. y \in DeployRequest /\ Sound(y, project, dep)
    BY <1>1, DeployStep
  <1>3. y \in Request
    BY <1>2 DEF Request
  <1>4. req' = [req EXCEPT ![q] = y]
    BY DEF Goto, IInv, TypeOK
  <1> QED BY <1>2, <1>3, <1>4, RecordsKept

LEMMA CatchKeeps ==
    ASSUME IInv, NEW q \in Requests, NEW s, Deploying(q, s), Catch(q),
           UNCHANGED <<world, records, container, accepted>>
    PROVE  IInv'
  <1>1. container' \in Containers /\ past' \subseteq Mishaps
    BY DEF IInv, TypeOK, Containers, Catch, Mishaps
  <1>2. Goto(q, "undo") /\ "undo" \in DeploySteps
    BY DEF Catch, DeploySteps
  <1>3. UNCHANGED <<world, records, accepted>>
    OBVIOUS
  <1> QED BY <1>1, <1>2, <1>3, GotoKeeps

LEMMA EndKeeps ==
    ASSUME IInv, NEW q \in Requests, End(q), UNCHANGED <<world, records, accepted>>,
           container' \in Containers, past' \subseteq Mishaps
    PROVE  IInv'
  BY RecordsKept DEF End

-----------------------------------------------------------------------------
(* Requests that begin *)

LEMMA StartKeeps ==
    ASSUME IInv, NEW q \in Requests, Start(q)
    PROVE  IInv'
  <1> USE DEF IInv
  <1>1. ASSUME StartSync(q) PROVE IInv'
    <2>1. PICK security \in SecurityChanges(project.selected, manifestOf[source]) :
            StartSync(q)!(security)
      BY <1>1 DEF StartSync
    <2> DEFINE after == manifestOf[source]
               sameRevision == project.deployed = source
               sameManifest == project.manifest = after
               moved == project.deployed # None /\ ~sameRevision
               approve == project.deployed # None /\ (moved \/ security)
               update == IF sameRevision /\ sameManifest THEN "up_to_date"
                                ELSE IF approve THEN "runtime_approval_required"
                                ELSE IF sameManifest THEN "deployment_required"
                                ELSE "validation_required"
               x == [kind |-> "sync", rev |-> source, compared |-> project.deployed # None,
                     diff |-> [before |-> project.selected, after |-> after,
                               moved |-> moved, approve |-> approve],
                     update |-> update]
    <2>2. Begin(q, x) /\ UNCHANGED <<world, records, container, accepted>>
      BY <2>1
    <2>3. source \in Revs /\ after \in Manifests /\ project.selected \in Manifests \cup {None}
      BY DEF TypeOK, Project
    <2>4. moved \in BOOLEAN /\ approve \in BOOLEAN
      BY DEF SecurityChanges
    <2>5. update \in Updates
      BY DEF Updates
    <2>6. x \in SyncRequest
      <3> HIDE DEF update, moved, approve, after
      <3>1. [before |-> project.selected, after |-> after, moved |-> moved, approve |-> approve]
              \in Diff
        BY <2>3, <2>4 DEF Diff
      <3> QED BY <2>3, <2>5, <3>1 DEF SyncRequest
    <2>7. x \in Request /\ Sound(x, project, dep)
      BY <2>6 DEF Request, Sound
    <2> QED BY <2>2, <2>7, BeginKeeps
  <1>2. ASSUME StartApprove(q) PROVE IInv'
    <2> DEFINE x == [kind |-> "approve", diff |-> project.diff, rev |-> project.revision]
    <2>1. Begin(q, x) /\ UNCHANGED <<world, records, container, accepted>>
      BY <1>2 DEF StartApprove
    <2>2. project.diff \in Diff /\ project.revision \in Revs
      BY <1>2 DEF StartApprove, RowSound, TypeOK, Project
    <2>3. x \in Request /\ Sound(x, project, dep)
      BY <2>2 DEF Request, ApproveRequest, Sound
    <2> QED BY <2>1, <2>3, BeginKeeps
  <1>3. ASSUME StartValidate(q) PROVE IInv'
    <2> DEFINE m == IF project.revision = None THEN None ELSE manifestOf[project.revision]
               x == [kind |-> "validate", manifest |-> m]
    <2>1. Begin(q, x) /\ UNCHANGED <<world, records, container, accepted>>
      BY <1>3 DEF StartValidate
    <2>2. m \in Manifests \cup {None} /\ (m # None => project.revision # None)
      BY DEF TypeOK, Project
    <2>3. x \in Request /\ Sound(x, project, dep)
      BY <2>2 DEF Request, ValidateRequest, Sound
    <2> QED BY <2>1, <2>3, BeginKeeps
  <1>4. ASSUME StartInstall(q) PROVE IInv'
    <2> DEFINE x == [kind |-> "prepare", rev |-> project.validated, manifest |-> project.manifest,
                     selected |-> project.selected]
    <2>1. Begin(q, x) /\ UNCHANGED <<world, records, container, accepted>>
      BY <1>4 DEF StartInstall
    <2>2. /\ project.validated \in Revs /\ project.manifest \in Manifests
          /\ project.selected \in Manifests
      BY <1>4 DEF StartInstall, RowSound, TypeOK, Project
    <2>3. x \in Request /\ Sound(x, project, dep)
      BY <2>2 DEF Request, PrepareRequest, Sound
    <2> QED BY <2>1, <2>3, BeginKeeps
  <1>5. ASSUME NEW d \in Deployments, StartRollback(q, d) PROVE IInv'
    <2> DEFINE target == dep[d].previous
               x == [kind |-> "rollback", rev |-> dep[target].rev,
                     manifest |-> dep[target].manifest, selected |-> dep[target].manifest,
                     step |-> "stop", new |-> target, old |-> d,
                     stopped |-> FALSE, saw |-> {}]
    <2>1. Begin(q, x) /\ UNCHANGED <<world, records, container, accepted>>
      BY <1>5 DEF StartRollback
    <2>2. dep[d] \in Deployment /\ target \in Deployments
      BY <1>5 DEF StartRollback, Active, TypeOK, Deployment
    <2>3. dep[target] # None
      BY <1>5, <2>2 DEF StartRollback, Active, PreviousExists
    <2>4. dep[target] \in Deployment
      BY <2>2, <2>3 DEF TypeOK
    <2>5. dep[target].rev \in Revs /\ dep[target].manifest \in Manifests
      BY <2>4 DEF Deployment
    <2>6. x \in DeployRequest
      BY <2>2, <2>5 DEF DeployRequest, Forward
    <2>7. x \in Request
      BY <2>6 DEF Request
    <2>8. Sound(x, project, dep)
      BY <2>2, <2>3 DEF Sound
    <2> QED BY <2>1, <2>7, <2>8, BeginKeeps
  <1>6. ASSUME NEW d \in Deployments, NEW a \in {"start", "stop", "rebuild"}, StartAction(q, d, a)
        PROVE  IInv'
    <2> DEFINE x == [kind |-> "action", action |-> a, of |-> d, step |-> "perform"]
    <2>1. Begin(q, x) /\ UNCHANGED <<world, records, container, accepted>>
      BY <1>6 DEF StartAction
    <2>2. x \in Request /\ Sound(x, project, dep)
      BY DEF Request, ActionRequest, Sound
    <2> QED BY <2>1, <2>2, BeginKeeps
  <1> QED BY <1>1, <1>2, <1>3, <1>4, <1>5, <1>6 DEF Start

-----------------------------------------------------------------------------
(* Requests that go on *)

(* A step that writes the row of the project and ends. *)
LEMMA RowKept ==
    ASSUME IInv, NEW q \in Requests, End(q),
           project' \in Project, project'.deployed = project.deployed,
           project.revision # None => project'.revision # None, RowSound',
           accepted' \subseteq Revs, UNCHANGED <<world, dep, app, container, past>>
    PROVE  IInv'
  <1>1. Grown(project, dep, project', dep')
    BY DEF Grown
  <1>2. req' = [req EXCEPT ![q] = None]
    BY DEF End
  <1>3. req' \in [Requests -> Request \cup {None}] /\ Held'
    BY <1>1, <1>2, OneMoves DEF IInv
  <1>4. TypeOK'
    BY <1>3 DEF IInv, TypeOK, world
  <1>5. PreviousExists' /\ Unique' /\ DeployedIsActive'
    BY DEF IInv, PreviousExists, Unique, DeployedIsActive, Active
  <1> QED BY <1>3, <1>4, <1>5 DEF IInv

LEMMA RowStepsKeep ==
    ASSUME IInv, NEW q \in Requests,
           WriteSync(q) \/ WriteApproval(q) \/ WriteValidation(q) \/ RecordAction(q)
    PROVE  IInv'
  <1> USE DEF IInv
  <1>0. project \in Project /\ accepted \subseteq Revs
    BY DEF TypeOK
  <1>1. ASSUME WriteSync(q) PROVE IInv'
    <2>1. req[q] \in SyncRequest
      BY <1>1, KindTells DEF WriteSync, Doing, TypeOK
    <2>2. /\ req[q].rev \in Revs /\ req[q].diff \in Diff /\ req[q].update \in Updates
          /\ req[q].compared \in BOOLEAN
      BY <2>1 DEF SyncRequest
    <2>3. project' \in Project
      BY <1>0, <1>1, <2>2 DEF WriteSync, Project
    <2>4. /\ project'.deployed = project.deployed /\ project'.revision = req[q].rev
          /\ project'.selected = project.selected /\ project'.manifest = project.manifest
          /\ project'.validated = project.validated
      BY <1>0, <1>1 DEF WriteSync, Project
    <2>5. RowSound'
      BY <2>2, <2>4 DEF RowSound
    <2>6. accepted' \subseteq Revs /\ UNCHANGED <<world, dep, app, container, past>> /\ End(q)
      BY <1>0, <1>1 DEF WriteSync
    <2> QED BY <2>2, <2>3, <2>4, <2>5, <2>6, RowKept
  <1>2. ASSUME WriteApproval(q) PROVE IInv'
    <2>1. req[q] \in ApproveRequest
      BY <1>2, KindTells DEF WriteApproval, Doing, TypeOK
    <2>2. req[q].rev \in Revs /\ req[q].diff \in Diff
      BY <2>1 DEF ApproveRequest
    <2>3. project' \in Project
      BY <1>0, <1>2, <2>2 DEF WriteApproval, Project, Updates
    <2>4. /\ project'.deployed = project.deployed /\ project'.revision = project.revision
          /\ project'.selected = project.selected /\ project'.manifest = project.manifest
          /\ project'.validated = project.validated /\ project'.diff = project.diff
      BY <1>0, <1>2 DEF WriteApproval, Project
    <2>5. RowSound'
      BY <2>4 DEF RowSound
    <2>6. accepted' \subseteq Revs /\ UNCHANGED <<world, dep, app, container, past>> /\ End(q)
      BY <1>0, <1>2, <2>2 DEF WriteApproval
    <2> QED BY <2>3, <2>4, <2>5, <2>6, RowKept
  <1>3. ASSUME WriteValidation(q) PROVE IInv'
    <2>1. req[q] \in ValidateRequest /\ Sound(req[q], project, dep)
      BY <1>3, KindTells DEF WriteValidation, Doing, TypeOK, Held
    <2>2. req[q].manifest \in Manifests \cup {None}
      BY <2>1 DEF ValidateRequest
    <2>3. req[q].manifest # None => project.revision # None
      BY <2>1 DEF Sound, ValidateRequest
    <2>4. project' \in Project
      <3> DEFINE valid == req[q].manifest # None
                 update == IF valid THEN "deployment_required" ELSE "validation_failed"
      <3>1. project' = [project EXCEPT
              !.valid = valid, !.selected = req[q].manifest, !.manifest = req[q].manifest,
              !.validated = project.revision, !.checked = project.compared, !.update = update]
        BY <1>3 DEF WriteValidation
      <3>2. valid \in BOOLEAN /\ update \in Updates
        BY DEF Updates
      <3>3. project.revision \in Revs \cup {None} /\ project.compared \in BOOLEAN
        BY <1>0 DEF Project
      <3> HIDE DEF valid, update
      <3> QED BY <1>0, <2>2, <3>1, <3>2, <3>3 DEF Project
    <2>5. /\ project'.deployed = project.deployed /\ project'.revision = project.revision
          /\ project'.selected = req[q].manifest /\ project'.manifest = req[q].manifest
          /\ project'.validated = project.revision /\ project'.diff = project.diff
      BY <1>0, <1>3 DEF WriteValidation, Project
    <2>6. RowSound'
      BY <2>3, <2>5 DEF RowSound
    <2>7. accepted' \subseteq Revs /\ UNCHANGED <<world, dep, app, container, past>> /\ End(q)
      BY <1>0, <1>3 DEF WriteValidation
    <2> QED BY <2>4, <2>5, <2>6, <2>7, RowKept
  <1>4. ASSUME RecordAction(q) PROVE IInv'
    <2>1. project' \in Project
      BY <1>0, <1>4 DEF RecordAction, Project
    <2>2. /\ project'.deployed = project.deployed /\ project'.revision = project.revision
          /\ project'.selected = project.selected /\ project'.manifest = project.manifest
          /\ project'.validated = project.validated /\ project'.diff = project.diff
      BY <1>0, <1>4 DEF RecordAction, Project
    <2>3. RowSound'
      BY <2>2 DEF RowSound
    <2>4. accepted' \subseteq Revs /\ UNCHANGED <<world, dep, app, container, past>> /\ End(q)
      BY <1>0, <1>4 DEF RecordAction
    <2> QED BY <2>1, <2>2, <2>3, <2>4, RowKept
  <1> QED BY <1>1, <1>2, <1>3, <1>4

(* Steps of a deployment that touch containers and the request only. *)
LEMMA ContainerStepsKeep ==
    ASSUME IInv, NEW q \in Requests,
           Stage(q) \/ StopOld(q) \/ BuildNew(q) \/ CheckServed(q) \/ SwitchInstall(q)
             \/ RemoveOld(q) \/ WriteLog(q) \/ UndoNew(q) \/ RestoreOld(q)
    PROVE  IInv'
  <1> USE DEF IInv
  <1>0. container \in Containers /\ past \subseteq Mishaps
    BY DEF TypeOK, Containers
  <1>a. {"stop", "build", "serve", "register", "log", "undo", "restore", "mark"}
           \subseteq DeploySteps
    BY DEF DeploySteps, Forward
  <1>b. \A m : Mishap(m) /\ m \in Mishaps => past' \subseteq Mishaps
    BY <1>0 DEF Mishap
  <1>1. ASSUME Stage(q) PROVE IInv'
    <2>1. CASE Goto(q, "stop") /\ UNCHANGED past
      BY <1>0, <1>1, <1>a, <2>1, GotoKeeps DEF Stage, records
    <2>2. CASE Catch(q)
      BY <1>1, <2>2, CatchKeeps DEF Stage
    <2> QED BY <1>1, <2>1, <2>2 DEF Stage
  <1>2. ASSUME StopOld(q) PROVE IInv'
    <2> DEFINE old == req[q].old
    <2>1. CASE old = None /\ Goto(q, "build") /\ UNCHANGED <<container, past>>
      BY <1>0, <1>2, <1>a, <2>1, GotoKeeps DEF StopOld
    <2>2. CASE /\ old # None /\ container[old] # "none"
               /\ container' = [container EXCEPT ![old] = "stopped"]
               /\ req' = [req EXCEPT ![q].step = "build", ![q].stopped = TRUE]
               /\ UNCHANGED past
      <3> DEFINE y == [req[q] EXCEPT !.step = "build", !.stopped = TRUE]
      <3>1. req[q] \in DeployRequest /\ Sound(req[q], project, dep)
        BY <1>2, KindTells DEF StopOld, Deploying, TypeOK, Held
      <3>2. y \in DeployRequest /\ Sound(y, project, dep)
        BY <3>1, StoppedStep
      <3>3. y \in Request
        BY <3>2 DEF Request
      <3>4. req' = [req EXCEPT ![q] = y]
        BY <2>2 DEF TypeOK
      <3>5. container' \in Containers /\ past' \subseteq Mishaps
        BY <1>0, <2>2 DEF Containers
      <3>6. UNCHANGED <<world, records, accepted>>
        BY <1>2 DEF StopOld
      <3> QED BY <3>2, <3>3, <3>4, <3>5, <3>6, RecordsKept
    <2>3. CASE old # None /\ container[old] = "none" /\ Catch(q) /\ UNCHANGED container
      BY <1>2, <2>3, CatchKeeps DEF StopOld
    <2> QED BY <1>2, <2>1, <2>2, <2>3 DEF StopOld
  <1>3. ASSUME BuildNew(q) PROVE IInv'
    <2> DEFINE new == req[q].new
    <2>1. CASE /\ container' = [container EXCEPT ![new] = "running"]
               /\ Goto(q, "serve") /\ UNCHANGED past
      <3>1. container' \in Containers
        BY <1>0, <2>1 DEF Containers
      <3> QED BY <1>0, <1>3, <1>a, <2>1, <3>1, GotoKeeps DEF BuildNew
    <2>2. CASE Catch(q) /\ UNCHANGED container
      BY <1>3, <2>2, CatchKeeps DEF BuildNew
    <2> QED BY <1>3, <2>1, <2>2 DEF BuildNew
  <1>4. ASSUME CheckServed(q) PROVE IInv'
    <2>1. CASE Goto(q, "register") /\ UNCHANGED past
      BY <1>0, <1>4, <1>a, <2>1, GotoKeeps DEF CheckServed
    <2>2. CASE Catch(q)
      BY <1>4, <2>2, CatchKeeps DEF CheckServed
    <2> QED BY <1>4, <2>1, <2>2 DEF CheckServed
  <1>5. ASSUME SwitchInstall(q) PROVE IInv'
    <2> DEFINE y == [req[q] EXCEPT !.step = "commit", !.saw = Active]
    <2>1. req[q] \in DeployRequest /\ Sound(req[q], project, dep)
      BY <1>5, KindTells DEF SwitchInstall, Deploying, TypeOK, Held
    <2>2. Active \in SUBSET Deployments /\ \A d \in Active : dep[d] # None
      BY DEF Active
    <2>3. y \in DeployRequest /\ Sound(y, project, dep)
      BY <2>1, <2>2, SnapshotStep
    <2>4. y \in Request
      BY <2>3 DEF Request
    <2>5. req' = [req EXCEPT ![q] = y]
      BY <1>5 DEF SwitchInstall, TypeOK
    <2>6. container' \in Containers /\ past' \subseteq Mishaps
          /\ UNCHANGED <<world, records, accepted>>
      BY <1>0, <1>5 DEF SwitchInstall
    <2> QED BY <2>3, <2>4, <2>5, <2>6, RecordsKept
  <1>6. ASSUME RemoveOld(q) PROVE IInv'
    <2>1. container' \in Containers /\ past' \subseteq Mishaps
      BY <1>0, <1>6, <1>b DEF RemoveOld, Containers, Mishaps
    <2> QED BY <1>6, <1>a, <2>1, GotoKeeps DEF RemoveOld
  <1>7. ASSUME WriteLog(q) PROVE IInv'
    <2>1. container' \in Containers /\ past' \subseteq Mishaps
          /\ UNCHANGED <<world, records, accepted>>
      BY <1>0, <1>7, <1>b DEF WriteLog, Mishaps
    <2>2. CASE End(q)
      BY <2>1, <2>2, EndKeeps
    <2>3. CASE Goto(q, "undo")
      BY <1>7, <1>a, <2>1, <2>3, GotoKeeps DEF WriteLog
    <2> QED BY <1>7, <2>2, <2>3 DEF WriteLog
  <1>8. ASSUME UndoNew(q) PROVE IInv'
    <2>1. container' \in Containers /\ past' \subseteq Mishaps
      BY <1>0, <1>8, <1>b DEF UndoNew, Containers, Mishaps
    <2> QED BY <1>8, <1>a, <2>1, GotoKeeps DEF UndoNew
  <1>9. ASSUME RestoreOld(q) PROVE IInv'
    <2>1. container' \in Containers /\ past' \subseteq Mishaps
      BY <1>0, <1>9, <1>b DEF RestoreOld, Containers, Mishaps
    <2>2. CASE End(q)
      BY <1>9, <2>1, <2>2, EndKeeps DEF RestoreOld
    <2>3. CASE Goto(q, "mark")
      BY <1>9, <1>a, <2>1, <2>3, GotoKeeps DEF RestoreOld
    <2> QED BY <1>9, <2>2, <2>3 DEF RestoreOld
  <1> QED BY <1>1, <1>2, <1>3, <1>4, <1>5, <1>6, <1>7, <1>8, <1>9

(* The steps of an action, which a deployment does not notice. *)
LEMMA ActionStepsKeep ==
    ASSUME IInv, NEW q \in Requests, Perform(q) \/ RunRebuilt(q)
    PROVE  IInv'
  <1> USE DEF IInv
  <1>0. container \in Containers /\ past \subseteq Mishaps
    BY DEF TypeOK, Containers
  <1>1. req[q] \in ActionRequest
    BY KindTells DEF Perform, RunRebuilt, Acting, Doing, TypeOK
  <1>2. ASSUME NEW t \in {"run", "record"}, Goto(q, t), container' \in Containers
        PROVE  IInv'
    <2> DEFINE y == [req[q] EXCEPT !.step = t]
    <2>1. y \in ActionRequest /\ y.kind = "action"
      BY <1>1, <1>2 DEF ActionRequest
    <2>2. y \in Request /\ Sound(y, project, dep)
      BY <2>1 DEF Request, Sound
    <2>3. req' = [req EXCEPT ![q] = y]
      BY <1>2 DEF Goto, TypeOK
    <2>4. UNCHANGED <<world, records, accepted, past>>
      BY DEF Perform, RunRebuilt
    <2>5. past' \subseteq Mishaps
      BY <1>0, <2>4
    <2> QED BY <1>2, <2>2, <2>3, <2>4, <2>5, RecordsKept
  <1>3. container' \in Containers
    BY <1>0 DEF Perform, RunRebuilt, Containers
  <1>4. Goto(q, "run") \/ Goto(q, "record")
    BY DEF Perform, RunRebuilt
  <1> QED BY <1>2, <1>3, <1>4

LEMMA FailsKeeps ==
    ASSUME IInv, NEW q \in Requests, Fails(q)
    PROVE  IInv'
  <1>1. container' \in Containers /\ UNCHANGED <<world, records, container, accepted>>
    BY DEF Fails, IInv, TypeOK, Containers
  <1>2. past' \subseteq Mishaps
    BY DEF Fails, Catch, Mishap, Mishaps, IInv, TypeOK
  <1>3. CASE End(q)
    BY <1>1, <1>2, <1>3, EndKeeps
  <1>4. CASE Catch(q) /\ req[q] # None /\ req[q].kind \in {"install", "rollback"}
    <2>1. Deploying(q, req[q].step)
      BY <1>4 DEF Deploying
    <2> QED BY <1>1, <1>4, <2>1, CatchKeeps
  <1> QED BY <1>3, <1>4 DEF Fails

(* The registration of the application is a record of its own. *)
LEMMA RegisterKeeps ==
    ASSUME IInv, NEW q \in Requests, Register(q) \/ RegisterRuntime(q)
    PROVE  IInv'
  <1> USE DEF IInv
  <1>1. req[q] \in DeployRequest /\ Sound(req[q], project, dep)
    BY KindTells DEF Register, RegisterRuntime, Deploying, TypeOK, Held
  <1>2. PICK t \in {"runtime", "switch", "commit"} : Goto(q, t)
    BY DEF Register, RegisterRuntime
  <1> DEFINE y == [req[q] EXCEPT !.step = t]
  <1>3. t \in DeploySteps
    BY DEF DeploySteps, Forward
  <1>4. y \in DeployRequest /\ Sound(y, project, dep)
    BY <1>1, <1>3, DeployStep
  <1>5. y \in Request
    BY <1>4 DEF Request
  <1>6. req' = [req EXCEPT ![q] = y]
    BY <1>2 DEF Goto, TypeOK
  <1>7. UNCHANGED <<world, project, dep, container, accepted, past>>
    BY DEF Register, RegisterRuntime
  <1>8. Grown(project, dep, project', dep') /\ Sound(y, project', dep')
    BY <1>4, <1>7 DEF Grown
  <1>9. req' \in [Requests -> Request \cup {None}] /\ Held'
    <2> HIDE DEF y
    <2> QED BY <1>5, <1>6, <1>8, OneMoves
  <1>10. app' \in [manifest : Manifests \cup {None}, runtime : Deployments \cup {None}]
    <2>1. req[q].selected \in Manifests /\ req[q].new \in Deployments
      BY <1>1 DEF DeployRequest
    <2> QED BY <2>1 DEF Register, RegisterRuntime, TypeOK
  <1>11. TypeOK'
    BY <1>7, <1>9, <1>10 DEF TypeOK, world
  <1>12. RowSound' /\ PreviousExists' /\ Unique' /\ DeployedIsActive'
    BY <1>7 DEF RowSound, PreviousExists, Unique, DeployedIsActive, Active
  <1> QED BY <1>9, <1>11, <1>12

-----------------------------------------------------------------------------
(* Steps that write the deployments *)

LEMMA InsertKeeps ==
    ASSUME IInv, NEW q \in Requests, InsertDeployment(q)
    PROVE  /\ IInv' /\ Active' = Active
           /\ \A e \in Deployments : dep[e] # None => dep'[e] = dep[e]
           /\ \A e \in Deployments : dep[e] = None /\ dep'[e] # None
                => dep'[e].previous \in Active \cup {None}
  <1> USE DEF IInv
  <1>1. PICK d \in Deployments, old \in IF Active = {} THEN {None} ELSE Active :
         /\ dep[d] = None
         /\ dep' = [dep EXCEPT ![d] = [rev |-> req[q].rev, manifest |-> req[q].manifest,
                      active |-> FALSE, status |-> "pending", previous |-> old]]
         /\ req' = [req EXCEPT ![q] = [kind |-> "install", rev |-> req[q].rev,
                      manifest |-> req[q].manifest, selected |-> req[q].selected,
                      step |-> "stage", new |-> d, old |-> old, stopped |-> FALSE, saw |-> {}]]
    BY DEF InsertDeployment
  <1> DEFINE row == [rev |-> req[q].rev, manifest |-> req[q].manifest,
                     active |-> FALSE, status |-> "pending", previous |-> old]
             y == [kind |-> "install", rev |-> req[q].rev,
                   manifest |-> req[q].manifest, selected |-> req[q].selected,
                   step |-> "stage", new |-> d, old |-> old, stopped |-> FALSE, saw |-> {}]
  <1>2. req[q].rev \in Revs /\ req[q].manifest \in Manifests /\ req[q].selected \in Manifests
    <2>1. req[q] \in PrepareRequest
      BY KindTells DEF InsertDeployment, Doing, TypeOK
    <2> QED BY <2>1 DEF PrepareRequest
  <1>3. old \in Deployments \cup {None} /\ (old # None => dep[old] # None)
    BY DEF Active
  <1>4. row \in Deployment /\ row # None /\ row.active = FALSE /\ row.rev = req[q].rev
        /\ row.previous = old
    <2>1. row \in Deployment
      BY <1>2, <1>3 DEF Deployment
    <2> QED BY <2>1
  <1>5. y \in Request
    <2>1. y \in DeployRequest
      BY <1>2, <1>3 DEF DeployRequest, Forward
    <2> QED BY <2>1 DEF Request
  <1>6. dep \in [Deployments -> Deployment \cup {None}]
    BY DEF TypeOK
  <1>7. dep' \in [Deployments -> Deployment \cup {None}]
        /\ dep'[d] = row /\ \A e \in Deployments : e # d => dep'[e] = dep[e]
    BY <1>1, <1>4, <1>6
  <1> HIDE DEF row
  <1>8. UNCHANGED <<world, project, app, container, accepted, past>>
    BY DEF InsertDeployment
  <1>9. Grown(project, dep, project', dep')
    BY <1>1, <1>7, <1>8 DEF Grown
  <1>10. Sound(y, project', dep')
    BY <1>3, <1>4, <1>7, <1>9 DEF Sound, Grown
  <1>11. req' = [req EXCEPT ![q] = y]
    BY <1>1
  <1> HIDE DEF y
  <1>12. req' \in [Requests -> Request \cup {None}] /\ Held'
    BY <1>5, <1>9, <1>10, <1>11, OneMoves
  <1>13. TypeOK'
    BY <1>7, <1>8, <1>12 DEF TypeOK, world
  <1>14. RowSound'
    BY <1>8 DEF RowSound
  <1>15. PreviousExists'
    <2> SUFFICES ASSUME NEW e \in Deployments, dep'[e] # None, dep'[e].previous # None
                 PROVE  dep'[dep'[e].previous] # None
      BY DEF PreviousExists
    <2>1. CASE e = d
      BY <1>3, <1>4, <1>7, <2>1
    <2>2. CASE e # d
      <3>1. dep'[e] = dep[e] /\ dep[e].previous \in Deployments
        BY <1>6, <1>7, <2>2 DEF Deployment
      <3>2. dep[dep[e].previous] # None
        BY <3>1 DEF PreviousExists
      <3> QED BY <1>4, <1>7, <3>1, <3>2
    <2> QED BY <2>1, <2>2
  <1>16. Active' = Active
    BY <1>1, <1>4, <1>7 DEF Active
  <1>17. Unique'
    BY <1>16 DEF Unique
  <1>18. DeployedIsActive'
    BY <1>1, <1>7, <1>8, <1>16 DEF DeployedIsActive, Active
  <1>19. \A e \in Deployments : dep[e] # None => dep'[e] = dep[e]
    BY <1>1, <1>7
  <1>20. \A e \in Deployments : dep[e] = None /\ dep'[e] # None
           => dep'[e].previous \in Active \cup {None}
    BY <1>1, <1>4, <1>7
  <1> QED BY <1>12, <1>13, <1>14, <1>15, <1>16, <1>17, <1>18, <1>19, <1>20

(* Deployments that only change their status or whether they are active. *)
Rewritten ==
    /\ dep' \in [Deployments -> Deployment \cup {None}]
    /\ \A d \in Deployments :
         /\ dep[d] = None => dep'[d] = None
         /\ dep[d] # None => /\ dep'[d] # None /\ dep'[d].rev = dep[d].rev
                            /\ dep'[d].previous = dep[d].previous

LEMMA RewrittenKeeps ==
    ASSUME IInv, NEW q \in Requests, NEW y, req' = [req EXCEPT ![q] = y],
           y # None => y \in Request /\ Sound(y, project, dep),
           Rewritten, project' \in Project, project'.revision = project.revision, RowSound',
           accepted' \subseteq Revs, past' \subseteq Mishaps, UNCHANGED <<world, app, container>>
    PROVE  TypeOK' /\ RowSound' /\ PreviousExists' /\ Held'
  <1> USE DEF IInv
  <1>1. Grown(project, dep, project', dep')
    BY DEF Grown, Rewritten
  <1>2. y # None => y \in Request /\ Sound(y, project', dep')
    BY <1>1, SoundStays
  <1>3. req' \in [Requests -> Request \cup {None}] /\ Held'
    BY <1>1, <1>2, OneMoves
  <1>4. TypeOK'
    BY <1>3 DEF TypeOK, Rewritten, world
  <1>5. PreviousExists'
    <2> SUFFICES ASSUME NEW e \in Deployments, dep'[e] # None, dep'[e].previous # None
                 PROVE  dep'[dep'[e].previous] # None
      BY DEF PreviousExists
    <2>1. dep[e] # None /\ dep'[e].previous = dep[e].previous
      BY DEF Rewritten
    <2>2. dep[e].previous \in Deployments
      BY <2>1 DEF TypeOK, Deployment
    <2>3. dep[dep[e].previous] # None
      BY <2>1, <2>2 DEF PreviousExists
    <2> QED BY <2>1, <2>2, <2>3 DEF Rewritten
  <1> QED BY <1>3, <1>4, <1>5

(* A deployment whose status, or whether it is active, is rewritten. *)
LEMMA StatusField ==
    ASSUME NEW r \in Deployment, NEW st \in {"pending", "running", "failed", "rolled_back"}
    PROVE  /\ [r EXCEPT !.status = st] \in Deployment
           /\ [r EXCEPT !.status = st].rev = r.rev
           /\ [r EXCEPT !.status = st].previous = r.previous
           /\ [r EXCEPT !.status = st].active = r.active
  BY DEF Deployment

LEMMA ActiveField ==
    ASSUME NEW r \in Deployment
    PROVE  /\ [r EXCEPT !.active = FALSE] \in Deployment
           /\ [r EXCEPT !.active = FALSE].rev = r.rev
           /\ [r EXCEPT !.active = FALSE].previous = r.previous
           /\ [r EXCEPT !.active = FALSE].active = FALSE
  BY DEF Deployment

LEMMA BothFields ==
    ASSUME NEW r \in Deployment, NEW a \in BOOLEAN, NEW st \in {"running", "rolled_back"}
    PROVE  /\ [r EXCEPT !.active = a, !.status = st] \in Deployment
           /\ [r EXCEPT !.active = a, !.status = st].rev = r.rev
           /\ [r EXCEPT !.active = a, !.status = st].previous = r.previous
           /\ [r EXCEPT !.active = a, !.status = st].active = a
  BY DEF Deployment

(* The record of a failure. *)
LEMMA MarkWrites ==
    ASSUME IInv, NEW q \in Requests, MarkFailed(q)
    PROVE  /\ Rewritten /\ Active' = Active /\ \A d \in Active : dep'[d].rev = dep[d].rev
           /\ project' \in Project /\ project'.revision = project.revision
           /\ project'.diff = project.diff /\ project'.selected = project.selected
           /\ project'.manifest = project.manifest /\ project'.validated = project.validated
           /\ project'.deployed = project.deployed /\ project'.approval = project.approval
           /\ project'.compared = project.compared /\ project'.checked = project.checked
  <1> USE DEF IInv
  <1> DEFINE new == req[q].new
  <1>1. req[q] \in DeployRequest /\ Sound(req[q], project, dep)
    BY KindTells DEF MarkFailed, Deploying, TypeOK, Held
  <1>2. new \in Deployments /\ dep[new] # None
    BY <1>1 DEF DeployRequest, Sound
  <1>3. dep \in [Deployments -> Deployment \cup {None}] /\ dep[new] \in Deployment
    BY <1>2 DEF TypeOK
  <1> DEFINE r == [dep[new] EXCEPT !.status = "failed"]
  <1>a. r \in Deployment /\ r.rev = dep[new].rev /\ r.previous = dep[new].previous
        /\ r.active = dep[new].active
    BY <1>3, StatusField
  <1>4. dep' = [dep EXCEPT ![new] = r]
    BY <1>2, <1>3 DEF MarkFailed
  <1> HIDE DEF r
  <1>5. dep'[new] = r /\ dep'[new] # None
    BY <1>2, <1>3, <1>4, <1>a
  <1>6. Rewritten
    BY <1>2, <1>3, <1>4, <1>5, <1>a DEF Rewritten
  <1>7. project' \in Project /\ project'.revision = project.revision
        /\ project'.diff = project.diff /\ project'.selected = project.selected
        /\ project'.manifest = project.manifest /\ project'.validated = project.validated
        /\ project'.deployed = project.deployed /\ project'.approval = project.approval
        /\ project'.compared = project.compared /\ project'.checked = project.checked
    <2>1. project \in Project
      BY DEF TypeOK
    <2>2. CASE project' = project
      BY <2>1, <2>2
    <2>3. CASE project' = [project EXCEPT !.update = "deployment_failed"]
      BY <2>1, <2>3 DEF Project, Updates
    <2> QED BY <2>2, <2>3 DEF MarkFailed
  <1>8. \A d \in Deployments : d # new => dep'[d] = dep[d]
    BY <1>3, <1>4
  <1>9. Active' = Active /\ \A d \in Active : dep'[d].rev = dep[d].rev
    BY <1>2, <1>5, <1>8, <1>a DEF Active
  <1> QED BY <1>6, <1>7, <1>9

LEMMA MarkKeeps ==
    ASSUME IInv, NEW q \in Requests, MarkFailed(q)
    PROVE  IInv'
  <1>1. RowSound'
    BY MarkWrites DEF IInv, RowSound
  <1>2. /\ UNCHANGED <<world, app, container>> /\ accepted' \subseteq Revs
        /\ past' \subseteq Mishaps
        /\ req' = [req EXCEPT ![q] = None]
    BY DEF MarkFailed, End, IInv, TypeOK
  <1>3. TypeOK' /\ RowSound' /\ PreviousExists' /\ Held'
    BY <1>1, <1>2, MarkWrites, RewrittenKeeps
  <1>4. Unique' /\ DeployedIsActive'
    BY MarkWrites DEF IInv, Unique, DeployedIsActive
  <1> QED BY <1>3, <1>4 DEF IInv

(* A transaction that activates the deployment of request q, and no other. *)
LEMMA CommitKeeps ==
    ASSUME IInv, NEW q \in Requests, req[q] \in DeployRequest, Sound(req[q], project, dep),
           Rewritten, Active' = {req[q].new}, dep'[req[q].new].rev = req[q].rev,
           project' \in Project, project'.revision = project.revision,
           project'.diff = project.diff, project'.selected = project.selected,
           project'.manifest \in {project.manifest, req[q].manifest},
           project'.validated = project.validated, project'.deployed = req[q].rev,
           accepted' = accepted \/ accepted' = accepted \cup {req[q].rev},
           Goto(q, "remove"), UNCHANGED <<world, app, container, past>>
    PROVE  IInv'
  <1> USE DEF IInv
  <1> DEFINE y == [req[q] EXCEPT !.step = "remove"]
  <1>1. /\ req[q].new \in Deployments /\ req[q].rev \in Revs /\ req[q].manifest \in Manifests
    BY DEF DeployRequest
  <1>2. RowSound'
    BY <1>1 DEF RowSound
  <1>3. y \in DeployRequest /\ Sound(y, project, dep)
    BY DeployStep DEF DeploySteps
  <1>4. y \in Request /\ req' = [req EXCEPT ![q] = y]
    BY <1>3 DEF Request, Goto, TypeOK
  <1>5. accepted' \subseteq Revs /\ past' \subseteq Mishaps /\ UNCHANGED <<world, app, container>>
    BY <1>1 DEF TypeOK
  <1> HIDE DEF y
  <1>6. TypeOK' /\ RowSound' /\ PreviousExists' /\ Held'
    BY <1>2, <1>3, <1>4, <1>5, RewrittenKeeps
  <1>7. Unique' /\ DeployedIsActive'
    BY DEF Unique, DeployedIsActive
  <1> QED BY <1>6, <1>7

(* The transaction of an install that commits. *)
LEMMA InstallSwitches ==
    ASSUME IInv, NEW q \in Requests, CommitInstall(q), Active \subseteq req[q].saw
    PROVE  /\ req[q] \in DeployRequest /\ Sound(req[q], project, dep)
           /\ Rewritten /\ Active' = {req[q].new} /\ dep'[req[q].new].rev = req[q].rev
           /\ project' \in Project /\ project'.revision = project.revision
           /\ project'.diff = project.diff /\ project'.selected = project.selected
           /\ project'.manifest = project.manifest /\ project'.validated = project.validated
           /\ project'.approval = project.approval /\ project'.compared = project.compared
           /\ project'.checked = project.checked /\ project'.deployed = req[q].rev
           /\ accepted' = accepted \cup {req[q].rev}
           /\ Goto(q, "remove") /\ UNCHANGED <<world, app, container, past>>
  <1> USE DEF IInv
  <1> DEFINE new == req[q].new
             saw == req[q].saw
  <1>1. /\ dep' = Switched(new, saw)
        /\ project' = Installed(req[q].rev)
        /\ accepted' = accepted \cup {req[q].rev}
        /\ Goto(q, "remove") /\ UNCHANGED past /\ UNCHANGED <<world, app, container>>
    BY DEF CommitInstall
  <1>2. req[q] \in DeployRequest /\ Sound(req[q], project, dep)
    BY KindTells DEF CommitInstall, Deploying, TypeOK, Held
  <1>3. /\ new \in Deployments /\ dep[new] # None /\ dep[new].rev = req[q].rev
        /\ saw \subseteq Deployments /\ \A d \in saw : dep[d] # None
        /\ req[q].rev \in Revs
    BY <1>2 DEF DeployRequest, Sound
  <1>4. dep \in [Deployments -> Deployment \cup {None}]
    BY DEF TypeOK
  <1> DEFINE on == [dep[new] EXCEPT !.active = TRUE, !.status = "running"]
  <1>5. on \in Deployment /\ on # None /\ on.active = TRUE
        /\ on.rev = dep[new].rev /\ on.previous = dep[new].previous
    <2>1. dep[new] \in Deployment
      BY <1>3, <1>4
    <2>2. on \in Deployment
      BY <2>1, BothFields
    <2> QED BY <2>1, <2>2, BothFields
  <1>6. \A d \in saw :
          /\ [dep[d] EXCEPT !.active = FALSE] \in Deployment
          /\ [dep[d] EXCEPT !.active = FALSE].active = FALSE
          /\ [dep[d] EXCEPT !.active = FALSE].rev = dep[d].rev
          /\ [dep[d] EXCEPT !.active = FALSE].previous = dep[d].previous
    <2>1. \A d \in saw : dep[d] \in Deployment
      BY <1>3, <1>4
    <2> QED BY <2>1, ActiveField
  <1>7. /\ dep'[new] = on
        /\ \A d \in saw : d # new => dep'[d] = [dep[d] EXCEPT !.active = FALSE]
        /\ \A d \in Deployments : d # new /\ d \notin saw => dep'[d] = dep[d]
    BY <1>1, <1>3 DEF Switched
  <1> HIDE DEF on
  <1>8. dep' \in [Deployments -> Deployment \cup {None}]
    <2>1. \A d \in Deployments : dep'[d] \in Deployment \cup {None}
      BY <1>4, <1>5, <1>6, <1>7
    <2>2. dep' = [d \in Deployments |-> dep'[d]]
      BY <1>1 DEF Switched
    <2> QED BY <2>1, <2>2
  <1>9. Rewritten
    <2> SUFFICES ASSUME NEW d \in Deployments
                 PROVE  /\ dep[d] = None => dep'[d] = None
                        /\ dep[d] # None => /\ dep'[d] # None /\ dep'[d].rev = dep[d].rev
                                           /\ dep'[d].previous = dep[d].previous
      BY <1>8 DEF Rewritten
    <2>1. CASE d = new
      BY <1>3, <1>5, <1>7, <2>1
    <2>2. CASE d # new /\ d \in saw
      <3> DEFINE r == [dep[d] EXCEPT !.active = FALSE]
      <3>1. r \in Deployment /\ r.rev = dep[d].rev /\ r.previous = dep[d].previous
        BY <1>6, <2>2
      <3>2. dep'[d] = r /\ dep[d] # None
        BY <1>3, <1>7, <2>2
      <3> HIDE DEF r
      <3> QED BY <3>1, <3>2
    <2>3. CASE d # new /\ d \notin saw
      BY <1>7, <2>3
    <2> QED BY <2>1, <2>2, <2>3
  <1>10. /\ project' \in Project /\ project'.revision = project.revision
         /\ project'.diff = project.diff /\ project'.selected = project.selected
         /\ project'.manifest = project.manifest /\ project'.validated = project.validated
         /\ project'.approval = project.approval /\ project'.compared = project.compared
         /\ project'.checked = project.checked /\ project'.deployed = req[q].rev
    BY <1>1, <1>3 DEF Installed, TypeOK, Project, Updates
  <1>11. Active' = {new}
    <2>1. \A d \in Deployments : d # new /\ d \notin saw => ~(dep[d] # None /\ dep[d].active)
      BY DEF Active
    <2>2. \A d \in Deployments : d # new => ~(dep'[d] # None /\ dep'[d].active)
      BY <1>6, <1>7, <2>1
    <2> QED BY <1>3, <1>5, <1>7, <2>2 DEF Active
  <1>12. dep'[new].rev = req[q].rev
    BY <1>3, <1>5, <1>7
  <1> QED BY <1>1, <1>2, <1>9, <1>10, <1>11, <1>12

LEMMA CommitInstallKeeps ==
    ASSUME IInv, NEW q \in Requests, CommitInstall(q)
    PROVE  IInv'
  <1> USE DEF IInv
  <1>1. CASE Active \subseteq req[q].saw
    BY <1>1, InstallSwitches, CommitKeeps
  <1>2. CASE ~(Active \subseteq req[q].saw)
    BY <1>2, CatchKeeps DEF CommitInstall, records
  <1> QED BY <1>1, <1>2

(* The transaction of a rollback that commits. *)
LEMMA RollbackSwitches ==
    ASSUME IInv, NEW q \in Requests, CommitRollback(q), Active \subseteq {req[q].old, req[q].new}
    PROVE  /\ req[q] \in DeployRequest /\ Sound(req[q], project, dep)
           /\ Rewritten /\ Active' = {req[q].new} /\ dep'[req[q].new].rev = req[q].rev
           /\ project' \in Project /\ project'.revision = project.revision
           /\ project'.diff = project.diff /\ project'.selected = project.selected
           /\ project'.manifest = req[q].manifest /\ project'.validated = project.validated
           /\ project'.approval = project.approval /\ project'.compared = project.compared
           /\ project'.checked = project.checked /\ project'.deployed = req[q].rev
           /\ Goto(q, "remove") /\ UNCHANGED <<world, app, container, accepted, past>>
  <1> USE DEF IInv
  <1> DEFINE new == req[q].new
             old == req[q].old
             off == [dep EXCEPT ![old].active = FALSE, ![old].status = "rolled_back"]
  <1>1. /\ dep' = [dep EXCEPT ![old].active = FALSE, ![old].status = "rolled_back",
                             ![new].active = TRUE, ![new].status = "running"]
        /\ project' = [project EXCEPT !.deployed = req[q].rev, !.manifest = req[q].manifest,
                          !.runtime = "healthy", !.update = "up_to_date"]
        /\ Goto(q, "remove") /\ UNCHANGED <<world, app, container, accepted, past>>
    BY DEF CommitRollback
  <1>2. req[q] \in DeployRequest /\ Sound(req[q], project, dep) /\ req[q].kind = "rollback"
    BY KindTells DEF CommitRollback, Deploying, TypeOK, Held
  <1>3. /\ new \in Deployments /\ dep[new] # None /\ dep[new].rev = req[q].rev
        /\ old \in Deployments /\ dep[old] # None
        /\ req[q].rev \in Revs /\ req[q].manifest \in Manifests
    BY <1>2 DEF DeployRequest, Sound
  <1>4. dep \in [Deployments -> Deployment \cup {None}] /\ dep[old] \in Deployment
    BY <1>3 DEF TypeOK
  <1>5. off = [dep EXCEPT ![old] = [dep[old] EXCEPT !.active = FALSE, !.status = "rolled_back"]]
    BY <1>3, <1>4
  <1>6. /\ off \in [Deployments -> Deployment \cup {None}]
        /\ off[old] \in Deployment /\ off[old].active = FALSE
        /\ off[old].rev = dep[old].rev /\ off[old].previous = dep[old].previous
        /\ \A d \in Deployments : d # old => off[d] = dep[d]
    <2> DEFINE r == [dep[old] EXCEPT !.active = FALSE, !.status = "rolled_back"]
    <2>1. r \in Deployment /\ r.active = FALSE /\ r.rev = dep[old].rev
          /\ r.previous = dep[old].previous
      BY <1>4, BothFields
    <2> HIDE DEF r, off
    <2>2. off = [dep EXCEPT ![old] = r]
      BY <1>5 DEF r
    <2> QED BY <1>3, <1>4, <2>1, <2>2
  <1>7. off[new] \in Deployment /\ off[new].rev = dep[new].rev
        /\ off[new].previous = dep[new].previous
    <2> HIDE DEF off
    <2>1. CASE new = old
      BY <1>6, <2>1
    <2>2. CASE new # old
      BY <1>3, <1>4, <1>6, <2>2
    <2> QED BY <2>1, <2>2
  <1>8. dep' = [off EXCEPT ![new] = [off[new] EXCEPT !.active = TRUE, !.status = "running"]]
    <2>1. dep' = [off EXCEPT ![new].active = TRUE, ![new].status = "running"]
      BY <1>1
    <2> HIDE DEF off
    <2> QED BY <1>3, <1>6, <1>7, <2>1
  <1>9. /\ dep' \in [Deployments -> Deployment \cup {None}]
        /\ dep'[new] \in Deployment /\ dep'[new].active = TRUE
        /\ dep'[new].rev = dep[new].rev /\ dep'[new].previous = dep[new].previous
        /\ \A d \in Deployments : d # new => dep'[d] = off[d]
    <2> DEFINE r == [off[new] EXCEPT !.active = TRUE, !.status = "running"]
    <2> HIDE DEF off
    <2>1. r \in Deployment /\ r.active = TRUE /\ r.rev = dep[new].rev
          /\ r.previous = dep[new].previous
      BY <1>7, BothFields
    <2> HIDE DEF r
    <2>2. dep' = [off EXCEPT ![new] = r]
      BY <1>8 DEF r
    <2> QED BY <1>3, <1>6, <2>1, <2>2
  <1> HIDE DEF off
  <1>10. Rewritten
    BY <1>3, <1>4, <1>6, <1>9 DEF Rewritten
  <1>11. /\ project' \in Project /\ project'.revision = project.revision
         /\ project'.diff = project.diff /\ project'.selected = project.selected
         /\ project'.manifest = req[q].manifest /\ project'.validated = project.validated
         /\ project'.approval = project.approval /\ project'.compared = project.compared
         /\ project'.checked = project.checked /\ project'.deployed = req[q].rev
    BY <1>1, <1>3 DEF TypeOK, Project, Updates
  <1>12. Active' = {new}
    <2>1. \A d \in Deployments : d # new => ~(dep'[d] # None /\ dep'[d].active)
      BY <1>6, <1>9 DEF Active
    <2> QED BY <1>3, <1>9, <2>1 DEF Active
  <1>13. dep'[new].rev = req[q].rev
    BY <1>3, <1>9
  <1> QED BY <1>1, <1>2, <1>10, <1>11, <1>12, <1>13

LEMMA CommitRollbackKeeps ==
    ASSUME IInv, NEW q \in Requests, CommitRollback(q)
    PROVE  IInv'
  <1> USE DEF IInv
  <1>1. CASE Active \subseteq {req[q].old, req[q].new}
    BY <1>1, RollbackSwitches, CommitKeeps
  <1>2. CASE ~(Active \subseteq {req[q].old, req[q].new})
    BY <1>2, CatchKeeps DEF CommitRollback, records
  <1> QED BY <1>1, <1>2

-----------------------------------------------------------------------------
(* The inductive invariant *)

LEMMA Initially == Init => IInv
  <1> SUFFICES ASSUME Init PROVE IInv
    OBVIOUS
  <1>1. TypeOK
    BY DEF Init, TypeOK, Project, Updates, Mishaps
  <1>2. RowSound /\ PreviousExists /\ Held
    BY DEF Init, RowSound, PreviousExists, Held
  <1>3. Active = {}
    BY DEF Init, Active
  <1> QED BY <1>1, <1>2, <1>3 DEF IInv, Unique, DeployedIsActive

LEMMA Inductive == IInv /\ [Next]_vars => IInv'
  <1> SUFFICES ASSUME IInv, [Next]_vars PROVE IInv'
    OBVIOUS
  <1> USE DEF IInv
  <1>1. ASSUME NEW q \in Requests, Start(q) PROVE IInv'
    BY <1>1, StartKeeps
  <1>2. ASSUME NEW q \in Requests, Step(q) PROVE IInv'
    BY <1>2, RowStepsKeep, ContainerStepsKeep, ActionStepsKeep, FailsKeeps, RegisterKeeps,
       InsertKeeps, MarkKeeps, CommitInstallKeeps, CommitRollbackKeeps DEF Step
  <1>3. ASSUME Restart PROVE IInv'
    <2>1. UNCHANGED <<world, records, container, accepted>> /\ req' = [q \in Requests |-> None]
          /\ past' \subseteq Mishaps
      BY <1>3 DEF Restart, Mishap, Mishaps, TypeOK
    <2>2. TypeOK' /\ Held'
      BY <2>1 DEF TypeOK, Held, world, records
    <2>3. RowSound' /\ PreviousExists' /\ Unique' /\ DeployedIsActive'
      BY <2>1 DEF RowSound, PreviousExists, Unique, DeployedIsActive, Active, records
    <2> QED BY <2>2, <2>3
  <1>4. ASSUME RetestOrigin PROVE IInv'
    <2>1. /\ project' \in Project /\ project'.revision = project.revision
          /\ project'.diff = project.diff /\ project'.selected = project.selected
          /\ project'.manifest = project.manifest /\ project'.validated = project.validated
          /\ project'.deployed = project.deployed
      BY <1>4 DEF RetestOrigin, TypeOK, Project
    <2>2. UNCHANGED <<world, dep, app, container, req, accepted, past>>
      BY <1>4 DEF RetestOrigin
    <2>3. TypeOK' /\ RowSound'
      BY <2>1, <2>2 DEF TypeOK, RowSound, world
    <2>4. PreviousExists' /\ Unique' /\ DeployedIsActive'
      BY <2>1, <2>2 DEF PreviousExists, Unique, DeployedIsActive, Active
    <2>5. Held'
      BY <2>1, <2>2 DEF Held, Sound
    <2> QED BY <2>3, <2>4, <2>5
  <1>5. ASSUME MoveSource PROVE IInv'
    <2>1. source' \in Revs /\ UNCHANGED <<manifestOf, records, container, req, accepted, past>>
      BY <1>5 DEF MoveSource
    <2>2. TypeOK'
      BY <2>1 DEF TypeOK, records
    <2>3. RowSound' /\ PreviousExists' /\ Unique' /\ DeployedIsActive' /\ Held'
      BY <2>1 DEF RowSound, PreviousExists, Unique, DeployedIsActive, Active, Held, Sound, records
    <2> QED BY <2>2, <2>3
  <1>6. ASSUME UNCHANGED vars PROVE IInv'
    <2>1. TypeOK' /\ RowSound' /\ PreviousExists'
      BY <1>6 DEF TypeOK, RowSound, PreviousExists, vars
    <2>2. Unique' /\ DeployedIsActive' /\ Held'
      BY <1>6 DEF Unique, DeployedIsActive, Active, Held, Sound, vars
    <2> QED BY <2>1, <2>2
  <1> QED BY <1>1, <1>2, <1>3, <1>4, <1>5, <1>6 DEF Next

(* The inductive invariant holds in every behaviour, however many requests *)
(* overlap, fail or are cut off by a restart.                              *)
THEOREM Invariance == Spec => []IInv
  <1>1. Init => IInv
    BY Initially
  <1>2. IInv /\ [Next]_vars => IInv'
    BY Inductive
  <1> QED BY <1>1, <1>2, PTL DEF Spec

(* The row of the project, the deployments and what the requests carry     *)
(* always have their types: no handler stores a missing revision or        *)
(* manifest in a deployment.                                               *)
THEOREM TypeCorrect == Spec => []TypeOK
  <1>1. IInv => TypeOK
    BY DEF IInv
  <1> QED BY <1>1, Invariance, PTL

(* At most one deployment of the project is active, however many installs  *)
(* and rollbacks race to their transactions.                               *)
THEOREM ActiveUnique == Spec => []OneActive
  <1>1. IInv => OneActive
    <2> SUFFICES ASSUME IInv PROVE OneActive
      OBVIOUS
    <2>1. CASE Active = {}
      BY <2>1, FS_EmptySet DEF OneActive
    <2>2. CASE Active # {}
      <3>1. PICK d \in Active : TRUE
        BY <2>2
      <3>2. Active = {d}
        BY <3>1 DEF IInv, Unique
      <3> QED BY <3>2, FS_Singleton DEF OneActive
    <2> QED BY <2>1, <2>2
  <1> QED BY <1>1, Invariance, PTL

(* The project never reports another revision as deployed than that of its *)
(* active deployment.                                                      *)
THEOREM ReportsActive == Spec => []DeployedIsActive
  <1>1. IInv => DeployedIsActive
    BY DEF IInv
  <1> QED BY <1>1, Invariance, PTL
-----------------------------------------------------------------------------
(* Revisions that replace others were approved.  Among requests that do    *)
(* not overlap, what a request read is still what the row says when the    *)
(* request writes; the approval then travels with the revision from the    *)
(* diff to the row, to the validation and to the install (Licensed).       *)

Solo == "overlap" \notin past

Alone == \A p, q \in Requests : req[p] # None /\ req[q] # None => p = q

(* What was deployed once stays accepted: a rollback needs no approval. *)
Granted ==
    /\ project.deployed # None => project.deployed \in accepted
    /\ \A d \in Deployments :
         dep[d] # None /\ dep[d].previous # None => dep[dep[d].previous].rev \in accepted

RowLicensed ==
    /\ project.approval = project.diff /\ project.diff # None => project.revision \in accepted
    /\ project.compared => /\ project.diff # None
                           /\ project.diff.approve \/ project.revision \in accepted
    /\ project.checked /\ project.validated # None => project.validated \in accepted

Licensed(x, p, acc) ==
    /\ x.kind = "sync" /\ x.compared => x.diff.approve \/ x.rev \in acc
    /\ x.kind = "approve" => x.rev = p.revision /\ x.diff = p.diff
    /\ x.kind = "validate" /\ p.compared => p.revision \in acc
    /\ x.kind \in {"prepare", "install"} /\ p.checked => x.rev \in acc

RollbacksGranted ==
    \A q \in Requests : req[q] # None /\ req[q].kind = "rollback" => req[q].rev \in accepted

AllLicensed ==
    /\ Alone
    /\ \A q \in Requests : req[q] # None => Licensed(req[q], project, accepted)

AInv == Granted /\ RollbacksGranted /\ (Solo => RowLicensed /\ AllLicensed)

(* One request begins, goes on or ends. *)
LEMMA RequestsLicensed ==
    ASSUME TypeOK, RollbacksGranted, accepted \subseteq accepted',
           NEW q \in Requests, NEW y, req' = [req EXCEPT ![q] = y],
           y # None /\ y.kind = "rollback" => y.rev \in accepted',
           Solo' => \A p \in Requests : p # q => req[p] = None,
           Solo' /\ y # None => Licensed(y, project', accepted')
    PROVE  RollbacksGranted' /\ (Solo' => AllLicensed')
  <1>1. req \in [Requests -> Request \cup {None}]
    BY DEF TypeOK
  <1>2. req'[q] = y /\ \A p \in Requests : p # q => req'[p] = req[p]
    BY <1>1
  <1>3. RollbacksGranted'
    BY <1>2 DEF RollbacksGranted
  <1>4. ASSUME Solo' PROVE AllLicensed'
    <2>1. \A p \in Requests : p # q => req'[p] = None
      BY <1>2, <1>4
    <2> QED BY <1>2, <1>4, <2>1 DEF AllLicensed, Alone
  <1> QED BY <1>3, <1>4

LEMMA GrantedStays ==
    ASSUME IInv, Granted, accepted \subseteq accepted',
           project'.deployed = project.deployed \/ project'.deployed \in accepted',
           dep' = dep \/ Rewritten
    PROVE  Granted'
  <1>1. project'.deployed # None => project'.deployed \in accepted'
    BY DEF Granted
  <1>2. ASSUME NEW d \in Deployments, dep'[d] # None, dep'[d].previous # None
        PROVE  dep'[dep'[d].previous].rev \in accepted'
    <2>1. dep[d] # None /\ dep'[d].previous = dep[d].previous
      BY <1>2 DEF Rewritten
    <2>2. dep[d].previous \in Deployments /\ dep[dep[d].previous] # None
      BY <1>2, <2>1 DEF IInv, TypeOK, Deployment, PreviousExists
    <2>3. dep[dep[d].previous].rev \in accepted
      BY <1>2, <2>1 DEF Granted
    <2> QED BY <2>1, <2>2, <2>3 DEF Rewritten
  <1> QED BY <1>1, <1>2 DEF Granted

(* The fields of the row that carry an approval stay. *)
SameApproval ==
    /\ project'.revision = project.revision /\ project'.diff = project.diff
    /\ project'.approval = project.approval /\ project'.compared = project.compared
    /\ project'.validated = project.validated /\ project'.checked = project.checked

LEMMA GoesOn ==
    ASSUME IInv, AInv, NEW q \in Requests, req[q] # None, NEW y, req' = [req EXCEPT ![q] = y],
           y # None => \/ y.kind = "action"
                       \/ /\ y.kind \in {"install", "rollback"}
                          /\ y.kind = req[q].kind /\ y.rev = req[q].rev,
           SameApproval, accepted \subseteq accepted', past \subseteq past',
           project'.deployed = project.deployed \/ project'.deployed \in accepted',
           dep' = dep \/ Rewritten
    PROVE  AInv'
  <1>1. Granted'
    BY GrantedStays DEF AInv
  <1>2. Solo' => Solo
    BY DEF Solo
  <1>3. Solo' => \A p \in Requests : p # q => req[p] = None
    BY <1>2 DEF AInv, AllLicensed, Alone
  <1>4. ASSUME Solo', y # None PROVE Licensed(y, project', accepted')
    <2>1. Licensed(req[q], project, accepted)
      BY <1>2, <1>4 DEF AInv, AllLicensed
    <2> QED BY <1>4, <2>1 DEF Licensed, SameApproval
  <1>5. y # None /\ y.kind = "rollback" => y.rev \in accepted'
    BY DEF AInv, RollbacksGranted
  <1>6. RollbacksGranted' /\ (Solo' => AllLicensed')
    BY <1>3, <1>4, <1>5, RequestsLicensed DEF AInv, IInv
  <1>7. Solo' => RowLicensed'
    BY <1>2 DEF AInv, RowLicensed, SameApproval
  <1> QED BY <1>1, <1>6, <1>7 DEF AInv

LEMMA Moves ==
    ASSUME IInv, AInv, NEW q \in Requests, NEW s, Deploying(q, s), NEW t, Goto(q, t),
           SameApproval, accepted \subseteq accepted', past \subseteq past',
           project'.deployed = project.deployed \/ project'.deployed \in accepted',
           dep' = dep \/ Rewritten
    PROVE  AInv'
  <1> DEFINE y == [req[q] EXCEPT !.step = t]
  <1>1. req[q] \in DeployRequest /\ req[q] # None
    BY KindTells DEF Deploying, IInv, TypeOK
  <1>2. y.kind = req[q].kind /\ y.rev = req[q].rev /\ y.kind \in {"install", "rollback"}
    BY <1>1 DEF DeployRequest
  <1>3. req' = [req EXCEPT ![q] = y]
    BY DEF Goto, IInv, TypeOK
  <1> HIDE DEF y
  <1> QED BY <1>1, <1>2, <1>3, GoesOn

LEMMA Ends ==
    ASSUME IInv, AInv, NEW q \in Requests, req[q] # None, End(q),
           SameApproval, accepted \subseteq accepted', past \subseteq past',
           project'.deployed = project.deployed, dep' = dep \/ Rewritten
    PROVE  AInv'
  BY GoesOn DEF End

LEMMA Begins ==
    ASSUME IInv, AInv, NEW q \in Requests, NEW x, Begin(q, x),
           x.kind = "rollback" => x.rev \in accepted,
           Solo => Licensed(x, project, accepted),
           UNCHANGED <<world, records, container, accepted>>
    PROVE  AInv'
  <1>1. UNCHANGED <<project, dep, accepted>> /\ req' = [req EXCEPT ![q] = x] /\ req[q] = None
    BY DEF records, Begin
  <1>2. past \subseteq past'
    BY DEF Begin, Mishap
  <1>3. Solo' => Solo
    BY <1>2 DEF Solo
  <1>4. Solo' => \A p \in Requests : p # q => req[p] = None
    BY DEF Begin, Mishap, Solo
  <1>5. RollbacksGranted' /\ (Solo' => AllLicensed')
    BY <1>1, <1>3, <1>4, RequestsLicensed DEF AInv, IInv
  <1>6. Granted' /\ (Solo' => RowLicensed')
    BY <1>1, <1>3 DEF AInv, Granted, RowLicensed
  <1> QED BY <1>5, <1>6 DEF AInv

LEMMA StartLicensed ==
    ASSUME IInv, AInv, NEW q \in Requests, Start(q)
    PROVE  AInv'
  <1>1. ASSUME StartSync(q) PROVE AInv'
    <2>1. PICK security \in SecurityChanges(project.selected, manifestOf[source]) :
            StartSync(q)!(security)
      BY <1>1 DEF StartSync
    <2> DEFINE after == manifestOf[source]
               sameRevision == project.deployed = source
               sameManifest == project.manifest = after
               moved == project.deployed # None /\ ~sameRevision
               approve == project.deployed # None /\ (moved \/ security)
               diff == [before |-> project.selected, after |-> after,
                        moved |-> moved, approve |-> approve]
               x == [kind |-> "sync", rev |-> source, compared |-> project.deployed # None,
                     diff |-> diff,
                     update |-> IF sameRevision /\ sameManifest THEN "up_to_date"
                                ELSE IF approve THEN "runtime_approval_required"
                                ELSE IF sameManifest THEN "deployment_required"
                                ELSE "validation_required"]
    <2>2. Begin(q, x) /\ UNCHANGED <<world, records, container, accepted>>
      BY <2>1
    <2>3. /\ x.kind = "sync" /\ x.rev = source /\ x.diff.approve = approve
          /\ x.compared = (project.deployed # None)
      OBVIOUS
    <2>4. x.compared => x.diff.approve \/ x.rev \in accepted
      BY <2>3 DEF AInv, Granted
    <2> HIDE DEF x
    <2>5. Licensed(x, project, accepted)
      BY <2>3, <2>4 DEF Licensed
    <2> QED BY <2>2, <2>3, <2>5, Begins
  <1>2. ASSUME StartApprove(q) PROVE AInv'
    <2> DEFINE x == [kind |-> "approve", diff |-> project.diff, rev |-> project.revision]
    <2>1. Begin(q, x) /\ UNCHANGED <<world, records, container, accepted>>
      BY <1>2 DEF StartApprove
    <2>2. x.kind = "approve" /\ Licensed(x, project, accepted)
      BY DEF Licensed
    <2> QED BY <2>1, <2>2, Begins
  <1>3. ASSUME StartValidate(q) PROVE AInv'
    <2> DEFINE x == [kind |-> "validate",
                     manifest |-> IF project.revision = None THEN None
                                  ELSE manifestOf[project.revision]]
    <2>1. /\ Begin(q, x) /\ UNCHANGED <<world, records, container, accepted>>
          /\ project.diff # None /\ project.diff.approve => project.approval = project.diff
      BY <1>3 DEF StartValidate
    <2>2. x.kind = "validate"
      OBVIOUS
    <2> HIDE DEF x
    <2>3. Solo => Licensed(x, project, accepted)
      BY <2>1, <2>2 DEF Licensed, AInv, RowLicensed
    <2> QED BY <2>1, <2>2, <2>3, Begins
  <1>4. ASSUME StartInstall(q) PROVE AInv'
    <2> DEFINE x == [kind |-> "prepare", rev |-> project.validated, manifest |-> project.manifest,
                     selected |-> project.selected]
    <2>1. /\ Begin(q, x) /\ UNCHANGED <<world, records, container, accepted>>
          /\ project.validated # None
      BY <1>4 DEF StartInstall, IInv, RowSound
    <2>2. x.kind = "prepare" /\ x.rev = project.validated
      OBVIOUS
    <2> HIDE DEF x
    <2>3. Solo => Licensed(x, project, accepted)
      BY <2>1, <2>2 DEF Licensed, AInv, RowLicensed
    <2> QED BY <2>1, <2>2, <2>3, Begins
  <1>5. ASSUME NEW d \in Deployments, StartRollback(q, d) PROVE AInv'
    <2> DEFINE target == dep[d].previous
               x == [kind |-> "rollback", rev |-> dep[target].rev,
                     manifest |-> dep[target].manifest, selected |-> dep[target].manifest,
                     step |-> "stop", new |-> target, old |-> d,
                     stopped |-> FALSE, saw |-> {}]
    <2>1. Begin(q, x) /\ UNCHANGED <<world, records, container, accepted>>
      BY <1>5 DEF StartRollback
    <2>2. dep[target].rev \in accepted
      BY <1>5 DEF StartRollback, Active, AInv, Granted
    <2>3. x.kind = "rollback" /\ x.rev \in accepted
      BY <2>2
    <2> HIDE DEF x
    <2>4. Licensed(x, project, accepted)
      BY <2>3 DEF Licensed
    <2> QED BY <2>1, <2>3, <2>4, Begins
  <1>6. ASSUME NEW d \in Deployments, NEW a \in {"start", "stop", "rebuild"}, StartAction(q, d, a)
        PROVE  AInv'
    <2> DEFINE x == [kind |-> "action", action |-> a, of |-> d, step |-> "perform"]
    <2>1. Begin(q, x) /\ UNCHANGED <<world, records, container, accepted>>
      BY <1>6 DEF StartAction
    <2>2. x.kind = "action"
      OBVIOUS
    <2> HIDE DEF x
    <2>3. Licensed(x, project, accepted)
      BY <2>2 DEF Licensed
    <2> QED BY <2>1, <2>2, <2>3, Begins
  <1> QED BY <1>1, <1>2, <1>3, <1>4, <1>5, <1>6 DEF Start

(* Synchronization, approval and validation hand the approval on. *)
LEMMA RowStepsLicensed ==
    ASSUME IInv, AInv, NEW q \in Requests,
           WriteSync(q) \/ WriteApproval(q) \/ WriteValidation(q)
    PROVE  AInv'
  <1>1. /\ req[q] # None /\ req' = [req EXCEPT ![q] = None] /\ past' = past /\ dep' = dep
        /\ accepted \subseteq accepted' /\ project'.deployed = project.deployed
    BY DEF WriteSync, WriteApproval, WriteValidation, Doing, End, IInv, TypeOK, Project
  <1>2. Solo' => Solo /\ Licensed(req[q], project, accepted)
                 /\ \A p \in Requests : p # q => req[p] = None
    BY <1>1 DEF Solo, AInv, AllLicensed, Alone
  <1>3. RollbacksGranted' /\ (Solo' => AllLicensed')
    BY <1>1, <1>2, RequestsLicensed DEF AInv, IInv
  <1>4. Granted'
    BY <1>1, GrantedStays DEF AInv
  <1>5. project \in Project
    BY DEF IInv, TypeOK
  <1>6. ASSUME Solo', WriteSync(q) PROVE RowLicensed'
    <2>1. req[q] \in SyncRequest
      BY <1>6, KindTells DEF WriteSync, Doing, IInv, TypeOK
    <2>2. req[q].kind = "sync" /\ req[q].diff # None
      BY <2>1 DEF SyncRequest
    <2>3. /\ project'.revision = req[q].rev /\ project'.diff = req[q].diff
          /\ project'.approval = None /\ project'.compared = req[q].compared
          /\ project'.validated = project.validated /\ project'.checked = project.checked
          /\ accepted' = accepted
      BY <1>5, <1>6 DEF WriteSync, Project
    <2>4. req[q].compared => req[q].diff.approve \/ req[q].rev \in accepted
      BY <1>2, <1>6, <2>2 DEF Licensed
    <2> QED BY <1>2, <1>6, <2>2, <2>3, <2>4 DEF RowLicensed, AInv
  <1>7. ASSUME Solo', WriteApproval(q) PROVE RowLicensed'
    <2>1. req[q].rev = project.revision
      BY <1>2, <1>7 DEF WriteApproval, Doing, Licensed
    <2>2. /\ project'.revision = project.revision /\ project'.diff = project.diff
          /\ project'.compared = project.compared
          /\ project'.validated = project.validated /\ project'.checked = project.checked
          /\ project.revision \in accepted' /\ accepted \subseteq accepted'
      BY <1>5, <1>7, <2>1 DEF WriteApproval, Project
    <2> QED BY <1>2, <1>7, <2>2 DEF RowLicensed, AInv
  <1>8. ASSUME Solo', WriteValidation(q) PROVE RowLicensed'
    <2>1. project.compared => project.revision \in accepted
      BY <1>2, <1>8 DEF WriteValidation, Doing, Licensed
    <2>2. /\ project'.revision = project.revision /\ project'.diff = project.diff
          /\ project'.approval = project.approval /\ project'.compared = project.compared
          /\ project'.validated = project.revision /\ project'.checked = project.compared
          /\ accepted' = accepted
      BY <1>5, <1>8 DEF WriteValidation, Project
    <2> QED BY <1>2, <1>8, <2>1, <2>2 DEF RowLicensed, AInv
  <1> QED BY <1>3, <1>4, <1>6, <1>7, <1>8 DEF AInv

(* A new deployment follows the active one. *)
LEMMA InsertLicensed ==
    ASSUME IInv, AInv, NEW q \in Requests, InsertDeployment(q)
    PROVE  AInv'
  <1>1. /\ req[q] # None /\ req[q].kind = "prepare"
        /\ UNCHANGED <<project, accepted, past>>
    BY DEF InsertDeployment, Doing
  <1>2. PICK y : /\ req' = [req EXCEPT ![q] = y]
                 /\ y.kind = "install" /\ y.rev = req[q].rev
    <2>1. PICK d \in Deployments, old \in IF Active = {} THEN {None} ELSE Active :
            req' = [req EXCEPT ![q] = [kind |-> "install", rev |-> req[q].rev,
                      manifest |-> req[q].manifest, selected |-> req[q].selected,
                      step |-> "stage", new |-> d, old |-> old, stopped |-> FALSE, saw |-> {}]]
      BY DEF InsertDeployment
    <2> DEFINE y == [kind |-> "install", rev |-> req[q].rev,
                     manifest |-> req[q].manifest, selected |-> req[q].selected,
                     step |-> "stage", new |-> d, old |-> old, stopped |-> FALSE, saw |-> {}]
    <2>2. y.kind = "install" /\ y.rev = req[q].rev /\ req' = [req EXCEPT ![q] = y]
      BY <2>1
    <2> HIDE DEF y
    <2> QED BY <2>2
  <1>3. Solo' => Solo /\ Licensed(req[q], project, accepted)
                 /\ \A p \in Requests : p # q => req[p] = None
    BY <1>1 DEF Solo, AInv, AllLicensed, Alone
  <1>4. Solo' => Licensed(y, project', accepted')
    BY <1>1, <1>2, <1>3 DEF Licensed
  <1>5. RollbacksGranted' /\ (Solo' => AllLicensed')
    BY <1>1, <1>2, <1>3, <1>4, RequestsLicensed DEF AInv, IInv
  <1>6. Granted'
    <2> SUFFICES ASSUME NEW d \in Deployments, dep'[d] # None, dep'[d].previous # None
                 PROVE  dep'[dep'[d].previous].rev \in accepted
      BY <1>1 DEF Granted, AInv
    <2>1. CASE dep[d] # None
      <3>1. dep'[d] = dep[d]
        BY <2>1, InsertKeeps
      <3>2. dep[d].previous \in Deployments /\ dep[dep[d].previous] # None
        BY <2>1, <3>1 DEF IInv, TypeOK, Deployment, PreviousExists
      <3>3. dep'[dep[d].previous] = dep[dep[d].previous]
        BY <3>2, InsertKeeps
      <3> QED BY <2>1, <3>1, <3>3 DEF AInv, Granted
    <2>2. CASE dep[d] = None
      <3> DEFINE e == dep'[d].previous
      <3>1. e \in Active
        BY <2>2, InsertKeeps
      <3>2. dep'[e] = dep[e] /\ dep[e].rev = project.deployed
        BY <3>1, InsertKeeps DEF Active, IInv, DeployedIsActive
      <3>3. dep[e].rev \in Revs /\ None \notin Revs
        <4>1. dep[e] \in Deployment
          BY <3>1 DEF Active, IInv, TypeOK
        <4> QED BY <4>1 DEF Deployment
      <3> QED BY <3>2, <3>3 DEF AInv, Granted
    <2> QED BY <2>1, <2>2
  <1>7. Solo' => RowLicensed'
    BY <1>1, <1>3 DEF RowLicensed, AInv
  <1> QED BY <1>5, <1>6, <1>7 DEF AInv

(* Whatever else a request does leaves the approval where it is. *)
LEMMA OtherStepsLicensed ==
    ASSUME IInv, AInv, NEW q \in Requests,
           \/ Stage(q) \/ StopOld(q) \/ BuildNew(q) \/ CheckServed(q) \/ Register(q)
           \/ RegisterRuntime(q) \/ SwitchInstall(q) \/ RemoveOld(q) \/ WriteLog(q)
           \/ UndoNew(q) \/ RestoreOld(q) \/ Perform(q) \/ RunRebuilt(q) \/ RecordAction(q)
           \/ Fails(q)
    PROVE  AInv'
  <1>1. /\ req[q] # None /\ dep' = dep /\ accepted' = accepted /\ past \subseteq past'
    BY DEF Stage, StopOld, BuildNew, CheckServed, Register, RegisterRuntime, SwitchInstall,
           RemoveOld, WriteLog, UndoNew, RestoreOld, Perform, RunRebuilt, RecordAction, Fails,
           Deploying, Acting, Doing, Catch, Mishap, records
  <1>2. SameApproval /\ project'.deployed = project.deployed
    <2>1. CASE RecordAction(q)
      BY <2>1 DEF RecordAction, SameApproval, IInv, TypeOK, Project
    <2>2. CASE project' = project
      BY <2>2 DEF SameApproval
    <2> QED BY <2>1, <2>2
          DEF Stage, StopOld, BuildNew, CheckServed, Register, RegisterRuntime, SwitchInstall,
              RemoveOld, WriteLog, UndoNew, RestoreOld, Perform, RunRebuilt, Fails, records
  <1>3. CASE End(q)
    BY <1>1, <1>2, <1>3, Ends
  <1>4. ASSUME NEW s, Deploying(q, s), NEW t, Goto(q, t) PROVE AInv'
    BY <1>1, <1>2, <1>4, Moves
  <1>5. CASE Perform(q) \/ RunRebuilt(q)
    <2>1. req[q] \in ActionRequest
      BY <1>5, KindTells DEF Perform, RunRebuilt, Acting, Doing, IInv, TypeOK
    <2>2. PICK t \in {"run", "record"} : Goto(q, t)
      BY <1>5 DEF Perform, RunRebuilt
    <2> DEFINE y == [req[q] EXCEPT !.step = t]
    <2>3. y.kind = "action"
      BY <2>1 DEF ActionRequest
    <2>4. req' = [req EXCEPT ![q] = y]
      BY <2>2 DEF Goto, IInv, TypeOK
    <2> HIDE DEF y
    <2> QED BY <1>1, <1>2, <2>3, <2>4, GoesOn
  <1>6. CASE SwitchInstall(q) \/ StopOld(q)
    <2>1. req[q] \in DeployRequest
      BY <1>6, KindTells DEF SwitchInstall, StopOld, Deploying, IInv, TypeOK
    <2>2. CASE req' = [req EXCEPT ![q].step = "commit", ![q].saw = Active]
      <3> DEFINE y == [req[q] EXCEPT !.step = "commit", !.saw = Active]
      <3>1. y.kind \in {"install", "rollback"} /\ y.kind = req[q].kind /\ y.rev = req[q].rev
        BY <2>1 DEF DeployRequest
      <3>2. req' = [req EXCEPT ![q] = y]
        BY <2>2 DEF IInv, TypeOK
      <3> HIDE DEF y
      <3> QED BY <1>1, <1>2, <3>1, <3>2, GoesOn
    <2>3. CASE req' = [req EXCEPT ![q].step = "build", ![q].stopped = TRUE]
      <3> DEFINE y == [req[q] EXCEPT !.step = "build", !.stopped = TRUE]
      <3>1. y.kind \in {"install", "rollback"} /\ y.kind = req[q].kind /\ y.rev = req[q].rev
        BY <2>1 DEF DeployRequest
      <3>2. req' = [req EXCEPT ![q] = y]
        BY <2>3 DEF IInv, TypeOK
      <3> HIDE DEF y
      <3> QED BY <1>1, <1>2, <3>1, <3>2, GoesOn
    <2> QED BY <1>4, <1>6, <2>2, <2>3 DEF SwitchInstall, StopOld, Catch
  <1>7. CASE Stage(q) \/ BuildNew(q) \/ CheckServed(q) \/ Register(q) \/ RegisterRuntime(q)
             \/ RemoveOld(q) \/ WriteLog(q) \/ UndoNew(q) \/ RestoreOld(q)
    BY <1>3, <1>4, <1>7 DEF Stage, BuildNew, CheckServed, Register, RegisterRuntime,
         RemoveOld, WriteLog, UndoNew, RestoreOld, Catch
  <1>8. CASE Fails(q)
    <2>1. CASE Catch(q) /\ req[q].kind \in {"install", "rollback"}
      BY <1>1, <1>4, <2>1 DEF Catch, Deploying
    <2> QED BY <1>3, <1>8, <2>1 DEF Fails
  <1> QED BY <1>3, <1>5, <1>6, <1>7, <1>8 DEF RecordAction

LEMMA CommitsLicensed ==
    ASSUME IInv, AInv, NEW q \in Requests,
           CommitInstall(q) \/ CommitRollback(q) \/ MarkFailed(q)
    PROVE  AInv'
  <1>1. CASE CommitInstall(q)
    <2>1. CASE Active \subseteq req[q].saw
      <3>1. /\ SameApproval /\ Rewritten /\ project'.deployed = req[q].rev
            /\ accepted' = accepted \cup {req[q].rev} /\ Goto(q, "remove") /\ past' = past
        BY <1>1, <2>1, InstallSwitches DEF SameApproval
      <3> QED BY <1>1, <3>1, Moves DEF CommitInstall
    <2>2. CASE ~(Active \subseteq req[q].saw)
      <3>1. Catch(q) /\ UNCHANGED <<dep, project, accepted>>
        BY <1>1, <2>2 DEF CommitInstall
      <3> QED BY <1>1, <3>1, Moves DEF CommitInstall, Catch, SameApproval
    <2> QED BY <2>1, <2>2
  <1>2. CASE CommitRollback(q)
    <2>1. CASE Active \subseteq {req[q].old, req[q].new}
      <3>1. /\ SameApproval /\ Rewritten /\ project'.deployed = req[q].rev
            /\ accepted' = accepted /\ Goto(q, "remove") /\ past' = past
        BY <1>2, <2>1, RollbackSwitches DEF SameApproval
      <3>2. req[q].rev \in accepted
        BY <1>2 DEF CommitRollback, Deploying, AInv, RollbacksGranted
      <3> QED BY <1>2, <3>1, <3>2, Moves DEF CommitRollback
    <2>2. CASE ~(Active \subseteq {req[q].old, req[q].new})
      <3>1. Catch(q) /\ UNCHANGED <<dep, project, accepted>>
        BY <1>2, <2>2 DEF CommitRollback
      <3> QED BY <1>2, <3>1, Moves DEF CommitRollback, Catch, SameApproval
    <2> QED BY <2>1, <2>2
  <1>3. CASE MarkFailed(q)
    <2>1. SameApproval /\ Rewritten /\ project'.deployed = project.deployed
      BY <1>3, MarkWrites DEF SameApproval
    <2>2. req[q] # None /\ End(q) /\ accepted' = accepted /\ past' = past
      BY <1>3 DEF MarkFailed, Deploying
    <2> QED BY <2>1, <2>2, Ends
  <1> QED BY <1>1, <1>2, <1>3

LEMMA ApprovalInitially == Init => AInv
  <1> SUFFICES ASSUME Init PROVE AInv
    OBVIOUS
  <1>1. Granted /\ RollbacksGranted
    BY DEF Init, Granted, RollbacksGranted
  <1>2. RowLicensed /\ AllLicensed
    BY DEF Init, RowLicensed, AllLicensed, Alone
  <1> QED BY <1>1, <1>2 DEF AInv

LEMMA ApprovalInductive == IInv /\ AInv /\ [Next]_vars => AInv'
  <1> SUFFICES ASSUME IInv, AInv, [Next]_vars PROVE AInv'
    OBVIOUS
  <1>1. ASSUME NEW q \in Requests, Start(q) PROVE AInv'
    BY <1>1, StartLicensed
  <1>2. ASSUME NEW q \in Requests, Step(q) PROVE AInv'
    BY <1>2, RowStepsLicensed, InsertLicensed, OtherStepsLicensed, CommitsLicensed DEF Step
  <1>3. ASSUME Restart PROVE AInv'
    <2>1. /\ UNCHANGED <<project, dep, accepted>> /\ past \subseteq past'
          /\ \A q \in Requests : req'[q] = None
      BY <1>3 DEF Restart, Mishap, records
    <2>2. Granted' /\ RollbacksGranted'
      BY <2>1 DEF AInv, Granted, RollbacksGranted
    <2>3. Solo' => RowLicensed' /\ AllLicensed'
      BY <2>1 DEF AInv, Solo, RowLicensed, AllLicensed, Alone
    <2> QED BY <2>2, <2>3 DEF AInv
  <1>4. ASSUME RetestOrigin \/ MoveSource \/ UNCHANGED vars PROVE AInv'
    <2>1. /\ SameApproval /\ project'.deployed = project.deployed
          /\ UNCHANGED <<dep, req, accepted, past>>
      <3>1. CASE RetestOrigin
        BY <3>1 DEF RetestOrigin, SameApproval, IInv, TypeOK, Project
      <3>2. CASE MoveSource \/ UNCHANGED vars
        BY <3>2 DEF MoveSource, SameApproval, vars, records
      <3> QED BY <1>4, <3>1, <3>2
    <2>2. Granted' /\ RollbacksGranted'
      BY <2>1 DEF AInv, Granted, RollbacksGranted
    <2>3. Solo' => RowLicensed'
      BY <2>1 DEF AInv, Solo, RowLicensed, SameApproval
    <2>4. Solo' => AllLicensed'
      BY <2>1 DEF AInv, Solo, AllLicensed, Alone, Licensed, SameApproval
    <2> QED BY <2>2, <2>3, <2>4 DEF AInv
  <1> QED BY <1>1, <1>2, <1>3, <1>4 DEF Next

(* Only the two transactions make a deployment active. *)
LEMMA Activates ==
    ASSUME IInv, AInv, [Next]_vars, NEW d \in Deployments, d \in Active', d \notin Active, Solo,
           project.checked
    PROVE  dep[d].rev \in accepted
  <1>1. PICK q \in Requests : CommitInstall(q) \/ CommitRollback(q)
    <2>1. ASSUME NEW q \in Requests, Step(q), ~CommitInstall(q), ~CommitRollback(q)
          PROVE  Active' = Active
      <3>1. CASE MarkFailed(q)
        BY <3>1, MarkWrites
      <3>2. CASE InsertDeployment(q)
        BY <3>2, InsertKeeps
      <3>3. CASE dep' = dep
        BY <3>3 DEF Active
      <3> QED BY <2>1, <3>1, <3>2, <3>3
            DEF Step, WriteSync, WriteApproval, WriteValidation, Stage, StopOld, BuildNew,
                CheckServed, Register, RegisterRuntime, SwitchInstall, RemoveOld, WriteLog,
                UndoNew, RestoreOld, Perform, RunRebuilt, RecordAction, Fails, records
    <2>2. ASSUME NEW q \in Requests, Start(q) PROVE dep' = dep
      BY <2>2 DEF Start, StartSync, StartApprove, StartValidate, StartInstall, StartRollback,
                  StartAction, records
    <2>3. Restart \/ RetestOrigin \/ MoveSource \/ UNCHANGED vars => dep' = dep
      BY DEF Restart, RetestOrigin, MoveSource, vars, records
    <2>4. dep' # dep
      BY DEF Active
    <2> QED BY <2>1, <2>2, <2>3, <2>4 DEF Next
  <1>2. CASE CommitInstall(q)
    <2>1. Active \subseteq req[q].saw
      BY <1>2 DEF CommitInstall, Active
    <2>2. Sound(req[q], project, dep) /\ Active' = {req[q].new}
      BY <1>2, <2>1, InstallSwitches
    <2>3. d = req[q].new /\ req[q].kind = "install"
      BY <1>2, <2>2 DEF CommitInstall, Deploying
    <2>4. dep[d].rev = req[q].rev
      BY <2>2, <2>3 DEF Sound
    <2>5. Licensed(req[q], project, accepted)
      BY <1>2 DEF CommitInstall, Deploying, AInv, AllLicensed
    <2> QED BY <2>3, <2>4, <2>5 DEF Licensed
  <1>3. CASE CommitRollback(q)
    <2>1. Active \subseteq {req[q].old, req[q].new}
      BY <1>3 DEF CommitRollback, Active
    <2>2. Sound(req[q], project, dep) /\ Active' = {req[q].new}
      BY <1>3, <2>1, RollbackSwitches
    <2>3. d = req[q].new /\ req[q].kind = "rollback"
      BY <1>3, <2>2 DEF CommitRollback, Deploying
    <2>4. dep[d].rev = req[q].rev
      BY <2>2, <2>3 DEF Sound
    <2> QED BY <1>3, <2>3, <2>4 DEF CommitRollback, Deploying, AInv, RollbacksGranted
  <1> QED BY <1>1, <1>2, <1>3

(* Without overlapping requests, a revision whose validation rests on a    *)
(* diff taken against a deployed revision never replaces another unless an *)
(* operator approved it or it was deployed before, whatever fails, is      *)
(* rolled back, restarted or tested again in between.                      *)
THEOREM ReplacementApproved == Spec => ReplacedOnlyWithApproval
  <1>1. Init => AInv
    BY ApprovalInitially
  <1>2. IInv /\ AInv /\ [Next]_vars => AInv'
    BY ApprovalInductive
  <1>3. IInv /\ AInv /\ [Next]_vars => [ReplacedWithApproval]_vars
    <2> SUFFICES ASSUME IInv, AInv, [Next]_vars PROVE ReplacedWithApproval
      OBVIOUS
    <2> QED BY Activates DEF ReplacedWithApproval, Spared, Solo
  <1> QED BY <1>1, <1>2, <1>3, Invariance, PTL DEF Spec, ReplacedOnlyWithApproval
-----------------------------------------------------------------------------
(* Containers and registrations while one request at most is under way.    *)
(* What the request or, at rest, the row allows to conclude gets weaker    *)
(* with each mishap: after a failure past the registration the registered  *)
(* application is open, after a half recorded failure what is reported, and*)
(* after a failed cleanup where containers are.                            *)

Idle(x) == x = None \/ x.kind \notin {"install", "rollback"}
Old(x) == IF x.old = None THEN {} ELSE {x.old}

(* What comes to be checked and registered is the manifest of the revision *)
(* that was validated.                                                     *)
Selected(x) ==
    /\ project.selected # None => project.selected = manifestOf[project.validated]
    /\ x # None /\ x.kind = "validate" /\ x.manifest # None
         => x.manifest = manifestOf[project.revision]
    /\ x # None /\ x.kind = "prepare" => x.selected = manifestOf[x.rev]
    /\ ~Idle(x) =>
         /\ dep[x.new].manifest = x.manifest
         /\ x.kind = "install" => x.selected = manifestOf[x.rev]
         /\ x.kind = "rollback" \/ x.step \in Forward \ {"stage"} => x.selected = x.manifest

(* Where containers are while x is under way: the active deployment has    *)
(* one, a deployment that replaces it another.                             *)
Placed(x) ==
    /\ Idle(x) => \A d \in Deployments \ Active : container[d] = "none"
    /\ x # None /\ x.kind = "action" => x.of \in Active
    /\ ~Idle(x) =>
         /\ x.new \notin Old(x)
         /\ \A d \in Deployments \ (Old(x) \cup {x.new}) : container[d] = "none"
         /\ x.step \in Forward => Active = Old(x)
         /\ x.step \in {"remove", "log"} => Active = {x.new}
         /\ x.step \in {"stage", "stop", "build", "restore", "mark"} => container[x.new] = "none"
         /\ x.step \in {"serve", "register", "runtime", "switch", "commit", "remove", "log"}
              => container[x.new] = "running"
         /\ x.step \in {"build", "serve", "register", "runtime", "switch", "commit", "remove"}
              => \A o \in Old(x) : container[o] = "stopped"
         /\ x.step = "log" => \A o \in Old(x) : container[o] = "none"
         /\ x.step = "undo" =>
              container[x.new] = "none" \/ \A o \in Old(x) : container[o] # "running"
         /\ x.step \in {"undo", "restore", "mark"} =>
              \/ Active = Old(x)
              \/ Active = {x.new} /\ \A o \in Old(x) : container[o] = "none"

ReportedRuns == project.runtime = "healthy" => Active \subseteq Running

(* A runtime reported healthy runs, or is about to be started again.       *)
Healthy(x) ==
    /\ Idle(x) /\ (x = None \/ x.kind # "action") => ReportedRuns
    /\ x # None /\ x.kind = "action" =>
         /\ x.step = "perform" => ReportedRuns
         /\ x.step = "record" /\ x.action # "stop" => container[x.of] = "running"
    /\ ~Idle(x) =>
         /\ x.step \in {"stage", "stop"} => ~x.stopped
         /\ x.step \in {"stage", "stop", "mark"} => ReportedRuns
         /\ x.stopped => x.old # None
         /\ x.step \in {"build", "serve", "register", "runtime", "switch", "commit"}
              /\ x.old # None => x.stopped
         /\ x.step \in {"undo", "restore", "mark"} => Active = Old(x)
         /\ x.step \in {"undo", "restore"} =>
              IF x.stopped THEN container[x.old] = "stopped" ELSE ReportedRuns

ActiveIsRegistered ==
    \A d \in Active : app = [manifest |-> dep[d].manifest, runtime |-> d]

(* What is registered is the active deployment, or the one that will be.   *)
Registered(x) ==
    /\ Idle(x) \/ x.step \notin {"runtime", "switch", "commit"} => ActiveIsRegistered
    /\ ~Idle(x) /\ x.step = "runtime" => app.manifest = x.selected
    /\ ~Idle(x) /\ x.step \in {"switch", "commit"}
         => app = [manifest |-> x.selected, runtime |-> x.new]

Good(x) ==
    /\ Selected(x)
    /\ "abandoned" \notin past => Placed(x)
    /\ Spared({"abandoned", "half"}) => Healthy(x)
    /\ past = {} => Registered(x)

PreviousOther ==
    \A d \in Deployments : dep[d] # None /\ dep[d].previous # None => dep[d].previous # d

Orderly ==
    Solo => /\ AtRest => Good(None)
            /\ \A q \in Requests, x \in Request : req[q] = x => Good(x)

(* One request, at x or not there yet, comes to be at y or to its end. *)
LEMMA Proceeds ==
    ASSUME IInv, AInv, Orderly, NEW q \in Requests, NEW x, x = req[q], NEW y,
           req' = [req EXCEPT ![q] = y], past \subseteq past',
           x = None /\ Solo' => AtRest,
           Selected(x) => Selected(y)',
           "abandoned" \notin past' /\ Selected(x) /\ Placed(x) => Placed(y)',
           Spared({"abandoned", "half"})' /\ Placed(x) /\ Healthy(x) => Healthy(y)',
           past' = {} /\ Selected(x) /\ Placed(x) /\ Registered(x) => Registered(y)'
    PROVE  Orderly'
  <1> SUFFICES ASSUME Solo'
               PROVE  /\ AtRest' => Good(None)'
                      /\ \A p \in Requests, z \in Request : req'[p] = z => Good(z)'
    BY DEF Orderly
  <1>1. req \in [Requests -> Request \cup {None}] /\ Solo
    BY DEF IInv, TypeOK, Solo
  <1>2. req'[q] = y /\ \A p \in Requests : p # q => req'[p] = None
    BY <1>1 DEF AInv, AllLicensed, Alone, AtRest
  <1>3. Good(x)
    BY <1>1 DEF Orderly
  <1>4. Good(y)'
    BY <1>3 DEF Good, Spared
  <1>5. AtRest' => y = None
    BY <1>2 DEF AtRest
  <1>6. \A p \in Requests, z \in Request : req'[p] = z => z = y
    BY <1>2
  <1> QED BY <1>4, <1>5, <1>6

(* Deployment x, at step s, comes to be at y and step t. *)
Onward(x, y, s, t) ==
    /\ ~Idle(x) /\ ~Idle(y) /\ x.step = s /\ y.step = t
    /\ x.new \in Deployments /\ x.old \in Deployments \cup {None} /\ dep[x.new] # None
    /\ y.kind = x.kind /\ y.rev = x.rev /\ y.manifest = x.manifest /\ y.selected = x.selected
    /\ y.new = x.new /\ y.old = x.old

ManifestsStay ==
    /\ project'.selected = project.selected /\ project'.validated = project.validated
    /\ manifestOf' = manifestOf
    /\ \A d \in Deployments : dep[d] # None => dep'[d].manifest = dep[d].manifest

Becomes(x, y) ==
    /\ "abandoned" \notin past' /\ Placed(x) => Placed(y)'
    /\ Spared({"abandoned", "half"})' /\ Placed(x) /\ Healthy(x) => Healthy(y)'
    /\ past' = {} /\ Selected(x) /\ Placed(x) /\ Registered(x) => Registered(y)'

LEMMA Goes ==
    ASSUME IInv, AInv, Orderly, NEW q \in Requests, NEW x, x = req[q], NEW y,
           req' = [req EXCEPT ![q] = y], past \subseteq past',
           NEW s, NEW t, Onward(x, y, s, t), ManifestsStay,
           t \in Forward \ {"stage"}
             => s \in Forward \ {"stage"} \/ manifestOf[x.rev] = x.manifest,
           Becomes(x, y)
    PROVE  Orderly'
  <1>1. x # None
    BY DEF Onward, Idle
  <1>2. Selected(x) => Selected(y)'
    BY DEF Selected, Onward, ManifestsStay, Idle
  <1> QED BY <1>1, <1>2, Proceeds DEF Becomes

LEMMA GoesTo ==
    ASSUME IInv, AInv, Orderly, NEW q \in Requests, NEW s, Deploying(q, s),
           NEW t \in DeploySteps, Goto(q, t), past \subseteq past', ManifestsStay,
           t \in Forward \ {"stage"}
             => s \in Forward \ {"stage"} \/ manifestOf[req[q].rev] = req[q].manifest,
           \A x, y \in DeployRequest :
             x = req[q] /\ Onward(x, y, s, t) /\ y.stopped = x.stopped => Becomes(x, y)
    PROVE  Orderly'
  <1>1. PICK x : x = req[q]
    OBVIOUS
  <1>2. x \in DeployRequest /\ Sound(x, project, dep) /\ x # None /\ x.step = s
        /\ x.kind \in {"install", "rollback"}
    BY <1>1, KindTells DEF Deploying, IInv, TypeOK, Held
  <1>3. PICK y : y = [x EXCEPT !.step = t]
    OBVIOUS
  <1>4. y \in DeployRequest
    BY <1>2, <1>3, DeployStep
  <1>5. y # None
    BY <1>4, KindTells DEF Request
  <1>6. Onward(x, y, s, t) /\ y.stopped = x.stopped
    BY <1>2, <1>3, <1>5 DEF Onward, Idle, DeployRequest, Sound
  <1>7. req' = [req EXCEPT ![q] = y]
    BY <1>1, <1>3 DEF Goto, IInv, TypeOK
  <1>8. Becomes(x, y)
    BY <1>1, <1>2, <1>4, <1>6
  <1> QED BY <1>1, <1>6, <1>7, <1>8, Goes

(* A deployment that fails before it commits. *)
LEMMA Catches ==
    ASSUME IInv, AInv, Orderly, NEW q \in Requests, NEW s \in Forward, Deploying(q, s), Catch(q),
           UNCHANGED <<world, records, container>>
    PROVE  Orderly'
  <1>1. /\ Goto(q, "undo") /\ UNCHANGED <<manifestOf, project, dep, container, app>>
        /\ past' = IF past = {} /\ s \in {"runtime", "switch", "commit"} THEN {"late"} ELSE past
    BY DEF Catch, Deploying, world, records
  <1>2. Active' = Active /\ Running' = Running /\ ManifestsStay /\ past \subseteq past'
    BY <1>1 DEF Active, Running, ManifestsStay
  <1>3. ASSUME NEW x \in DeployRequest, NEW y \in DeployRequest, Onward(x, y, s, "undo"),
               y.stopped = x.stopped
        PROVE  Becomes(x, y)
    <2> USE <1>1, <1>2, <1>3 DEF Onward
    <2>1. Placed(x) => Placed(y)'
      <3> SUFFICES ASSUME Placed(x) PROVE Placed(y)'
        OBVIOUS
      <3>1. Old(y) = Old(x) /\ Active' = Old(y) /\ container' = container
        BY DEF Placed, Old
      <3>2. container[x.new] = "none" \/ \A o \in Old(x) : container[o] # "running"
        BY DEF Placed, Forward
      <3>3. x.new \notin Old(x)
            /\ \A d \in Deployments \ (Old(x) \cup {x.new}) : container[d] = "none"
        BY DEF Placed
      <3> QED BY <3>1, <3>2, <3>3 DEF Placed, Idle
    <2>2. Placed(x) /\ Healthy(x) => Healthy(y)'
      <3> SUFFICES ASSUME Placed(x), Healthy(x) PROVE Healthy(y)'
        OBVIOUS
      <3>1. Active = Old(x)
        BY DEF Placed
      <3>2. x.stopped => x.old # None /\ container[x.old] = "stopped"
        BY DEF Placed, Healthy, Old, Forward
      <3>3. ~x.stopped => ReportedRuns
        BY <3>1 DEF Healthy, Old, ReportedRuns, Forward
      <3>4. Active' = Old(y) /\ container' = container /\ (ReportedRuns <=> ReportedRuns')
        BY <3>1 DEF Old, ReportedRuns
      <3>5. IF y.stopped THEN container[y.old] = "stopped" ELSE ReportedRuns
        BY <3>2, <3>3
      <3>6. y.stopped => y.old # None
        BY <3>2
      <3> QED BY <3>4, <3>5, <3>6 DEF Healthy, Idle
    <2>3. past' = {} /\ Registered(x) => Registered(y)'
      BY DEF Registered, ActiveIsRegistered
    <2> QED BY <2>1, <2>2, <2>3 DEF Becomes, Spared
  <1> QED BY <1>1, <1>2, <1>3, GoesTo DEF DeploySteps, Forward

(* The source is staged as it was validated; the containers stay. *)
LEMMA StageOrderly ==
    ASSUME IInv, AInv, Orderly, NEW q \in Requests, Stage(q)
    PROVE  Orderly'
  <1>1. CASE source = req[q].rev /\ manifestOf[source] = req[q].manifest
    <2>1. /\ Deploying(q, "stage") /\ Goto(q, "stop") /\ past' = past
          /\ UNCHANGED <<manifestOf, project, dep, container, app>>
          /\ manifestOf[req[q].rev] = req[q].manifest
      BY <1>1 DEF Stage, world, records
    <2>2. ManifestsStay /\ Active' = Active /\ Running' = Running
      BY <2>1 DEF ManifestsStay, Active, Running
    <2>3. ASSUME NEW x \in DeployRequest, NEW y \in DeployRequest, Onward(x, y, "stage", "stop"),
                 y.stopped = x.stopped
          PROVE  Becomes(x, y)
      <3> USE <2>1, <2>2, <2>3 DEF Onward
      <3>1. Old(y) = Old(x)
        BY DEF Old
      <3>2. Placed(x) => Placed(y)'
        BY <3>1 DEF Placed, Idle, Forward
      <3>3. Healthy(x) => Healthy(y)'
        BY DEF Healthy, Idle, ReportedRuns
      <3>4. Registered(x) => Registered(y)'
        BY DEF Registered, Idle, ActiveIsRegistered
      <3> QED BY <3>2, <3>3, <3>4 DEF Becomes, Spared
    <2> QED BY <2>1, <2>2, <2>3, GoesTo DEF DeploySteps, Forward
  <1>2. CASE ~(source = req[q].rev /\ manifestOf[source] = req[q].manifest)
    BY <1>2, Catches DEF Stage, Forward
  <1> QED BY <1>1, <1>2

(* What is active has a container to stop. *)
LEMMA StopOrderly ==
    ASSUME IInv, AInv, Orderly, NEW q \in Requests, StopOld(q)
    PROVE  Orderly'
  <1>1. /\ Deploying(q, "stop") /\ UNCHANGED <<manifestOf, project, dep, app>>
        /\ ManifestsStay /\ Active' = Active
    BY DEF StopOld, world, records, ManifestsStay, Active
  <1>2. CASE req[q].old = None /\ Goto(q, "build") /\ UNCHANGED <<container, past>>
    <2>1. ASSUME NEW x \in DeployRequest, NEW y \in DeployRequest, Onward(x, y, "stop", "build"),
                 y.stopped = x.stopped, x = req[q]
          PROVE  Becomes(x, y)
      <3> USE <1>1, <1>2, <2>1 DEF Onward
      <3>1. Old(y) = Old(x) /\ Old(x) = {}
        BY DEF Old
      <3>2. Placed(x) => Placed(y)'
        BY <3>1 DEF Placed, Idle, Forward
      <3>3. Healthy(x) => Healthy(y)'
        BY DEF Healthy, Idle
      <3>4. Registered(x) => Registered(y)'
        BY DEF Registered, Idle, ActiveIsRegistered
      <3> QED BY <3>2, <3>3, <3>4 DEF Becomes, Spared
    <2> QED BY <1>1, <1>2, <2>1, GoesTo DEF DeploySteps, Forward
  <1>3. CASE /\ req[q].old # None /\ container[req[q].old] # "none"
             /\ container' = [container EXCEPT ![req[q].old] = "stopped"]
             /\ req' = [req EXCEPT ![q].step = "build", ![q].stopped = TRUE]
             /\ UNCHANGED past
    <2>1. PICK x : x = req[q]
      OBVIOUS
    <2>2. x \in DeployRequest /\ Sound(x, project, dep) /\ x # None /\ x.step = "stop"
          /\ x.kind \in {"install", "rollback"}
      BY <1>1, <2>1, KindTells DEF Deploying, IInv, TypeOK, Held
    <2>3. PICK y : y = [x EXCEPT !.step = "build", !.stopped = TRUE]
      OBVIOUS
    <2>4. y \in Request /\ y # None
      BY <2>2, <2>3, StoppedStep, KindTells DEF Request
    <2>5. Onward(x, y, "stop", "build") /\ y.stopped
      BY <2>2, <2>3, <2>4 DEF Onward, Idle, DeployRequest, Sound
    <2>6. req' = [req EXCEPT ![q] = y]
      BY <1>3, <2>1, <2>3 DEF IInv, TypeOK
    <2>7. Becomes(x, y)
      <3> USE <1>1, <2>5 DEF Onward
      <3>1. Old(y) = Old(x) /\ Old(x) = {x.old} /\ x.old \in Deployments
        BY <1>3, <2>1 DEF Old
      <3>2. container'[x.old] = "stopped"
            /\ \A d \in Deployments : d # x.old => container'[d] = container[d]
        BY <1>3, <2>1, <3>1 DEF IInv, TypeOK
      <3>3. Placed(x) => Placed(y)'
        <4> SUFFICES ASSUME Placed(x) PROVE Placed(y)'
          OBVIOUS
        <4>1. /\ Active = {x.old} /\ x.new # x.old /\ container[x.new] = "none"
              /\ \A d \in Deployments \ {x.old, x.new} : container[d] = "none"
          BY <3>1 DEF Placed, Forward
        <4> QED BY <3>1, <3>2, <4>1 DEF Placed, Idle, Forward
      <3>4. Healthy(x) => Healthy(y)'
        BY <3>1 DEF Healthy, Idle
      <3>5. Registered(x) => Registered(y)'
        BY DEF Registered, Idle, ActiveIsRegistered
      <3> QED BY <3>3, <3>4, <3>5, <1>3 DEF Becomes, Spared
    <2> QED BY <1>1, <1>3, <2>1, <2>5, <2>6, <2>7, Goes DEF Forward
  <1>4. CASE Catch(q) /\ UNCHANGED container
    BY <1>1, <1>4, Catches DEF StopOld, Forward
  <1> QED BY <1>2, <1>3, <1>4 DEF StopOld

(* The new container starts when no other runs. *)
LEMMA BuildOrderly ==
    ASSUME IInv, AInv, Orderly, NEW q \in Requests, BuildNew(q)
    PROVE  Orderly'
  <1>1. /\ Deploying(q, "build") /\ UNCHANGED <<manifestOf, project, dep, app>>
        /\ ManifestsStay /\ Active' = Active
    BY DEF BuildNew, world, records, ManifestsStay, Active
  <1>2. CASE /\ container' = [container EXCEPT ![req[q].new] = "running"]
             /\ Goto(q, "serve") /\ UNCHANGED past
    <2>1. ASSUME NEW x \in DeployRequest, NEW y \in DeployRequest, Onward(x, y, "build", "serve"),
                 y.stopped = x.stopped, x = req[q]
          PROVE  Becomes(x, y)
      <3> USE <1>1, <1>2, <2>1 DEF Onward
      <3>1. Old(y) = Old(x) /\ Old(x) \subseteq Deployments
        BY DEF Old
      <3>2. container'[x.new] = "running"
            /\ \A d \in Deployments : d # x.new => container'[d] = container[d]
        BY DEF IInv, TypeOK
      <3>3. Placed(x) => Placed(y)'
        <4> SUFFICES ASSUME Placed(x) PROVE Placed(y)'
          OBVIOUS
        <4>1. /\ Active = Old(x) /\ x.new \notin Old(x)
              /\ \A o \in Old(x) : container[o] = "stopped"
              /\ \A d \in Deployments \ (Old(x) \cup {x.new}) : container[d] = "none"
          BY DEF Placed, Forward
        <4> HIDE <1>2
        <4> QED BY <3>1, <3>2, <4>1 DEF Placed, Idle, Forward
      <3>4. Healthy(x) => Healthy(y)'
        BY DEF Healthy, Idle
      <3>5. Registered(x) => Registered(y)'
        BY DEF Registered, Idle, ActiveIsRegistered
      <3> QED BY <3>3, <3>4, <3>5 DEF Becomes, Spared
    <2> QED BY <1>1, <1>2, <2>1, GoesTo DEF DeploySteps, Forward
  <1>3. CASE Catch(q) /\ UNCHANGED container
    BY <1>1, <1>3, Catches DEF BuildNew, Forward
  <1> QED BY <1>2, <1>3 DEF BuildNew

(* The manifest that is served, and its registration. *)
LEMMA ServeOrderly ==
    ASSUME IInv, AInv, Orderly, NEW q \in Requests, CheckServed(q)
    PROVE  Orderly'
  <1>1. /\ Deploying(q, "serve") /\ UNCHANGED <<manifestOf, project, dep, app, container>>
        /\ ManifestsStay /\ Active' = Active
    BY DEF CheckServed, world, records, ManifestsStay, Active
  <1>2. CASE Goto(q, "register") /\ UNCHANGED past
    <2>1. ASSUME NEW x \in DeployRequest, NEW y \in DeployRequest,
                 Onward(x, y, "serve", "register"),
                 y.stopped = x.stopped
          PROVE  Becomes(x, y)
      <3> USE <1>1, <1>2, <2>1 DEF Onward
      <3>1. Old(y) = Old(x)
        BY DEF Old
      <3>2. Placed(x) => Placed(y)'
        BY <3>1 DEF Placed, Idle, Forward
      <3>3. Healthy(x) => Healthy(y)'
        BY DEF Healthy, Idle
      <3>4. Registered(x) => Registered(y)'
        BY DEF Registered, Idle, ActiveIsRegistered
      <3> QED BY <3>2, <3>3, <3>4 DEF Becomes, Spared
    <2> QED BY <1>1, <1>2, <2>1, GoesTo DEF DeploySteps, Forward
  <1>3. CASE Catch(q)
    BY <1>1, <1>3, Catches DEF CheckServed, Forward
  <1> QED BY <1>2, <1>3 DEF CheckServed

LEMMA RegisterOrderly ==
    ASSUME IInv, AInv, Orderly, NEW q \in Requests, Register(q)
    PROVE  Orderly'
  <1>1. /\ Deploying(q, "register") /\ UNCHANGED <<manifestOf, project, dep, container, past>>
        /\ ManifestsStay /\ Active' = Active /\ Goto(q, "runtime")
    BY DEF Register, world, ManifestsStay, Active
  <1>2. ASSUME NEW x \in DeployRequest, NEW y \in DeployRequest,
               Onward(x, y, "register", "runtime"),
               y.stopped = x.stopped, x = req[q]
        PROVE  Becomes(x, y)
    <2> USE <1>1, <1>2 DEF Onward
    <2>1. Old(y) = Old(x)
      BY DEF Old
    <2>2. Placed(x) => Placed(y)'
      BY <2>1 DEF Placed, Idle, Forward
    <2>3. Healthy(x) => Healthy(y)'
      BY DEF Healthy, Idle
    <2>4. app'.manifest = y.selected
      BY DEF Register, IInv, TypeOK
    <2>5. Registered(y)'
      BY <2>4 DEF Registered, Idle
    <2> QED BY <2>2, <2>3, <2>5 DEF Becomes, Spared
  <1> QED BY <1>1, <1>2, GoesTo DEF DeploySteps, Forward

LEMMA RuntimeOrderly ==
    ASSUME IInv, AInv, Orderly, NEW q \in Requests, RegisterRuntime(q)
    PROVE  Orderly'
  <1>1. PICK t \in {"switch", "commit"} : Goto(q, t)
    BY DEF RegisterRuntime
  <1>2. /\ Deploying(q, "runtime") /\ UNCHANGED <<manifestOf, project, dep, container, past>>
        /\ ManifestsStay /\ Active' = Active
    BY DEF RegisterRuntime, world, ManifestsStay, Active
  <1>3. ASSUME NEW x \in DeployRequest, NEW y \in DeployRequest, Onward(x, y, "runtime", t),
               y.stopped = x.stopped, x = req[q]
        PROVE  Becomes(x, y)
    <2> USE <1>1, <1>2, <1>3 DEF Onward
    <2>1. Old(y) = Old(x)
      BY DEF Old
    <2>2. Placed(x) => Placed(y)'
      BY <2>1 DEF Placed, Idle, Forward
    <2>3. Healthy(x) => Healthy(y)'
      BY DEF Healthy, Idle
    <2>4. app'.manifest = app.manifest /\ app' = [manifest |-> app.manifest, runtime |-> y.new]
      BY DEF RegisterRuntime, IInv, TypeOK
    <2>5. Registered(x) => Registered(y)'
      BY <2>4 DEF Registered, Idle
    <2> QED BY <2>2, <2>3, <2>5 DEF Becomes, Spared
  <1> QED BY <1>1, <1>2, <1>3, GoesTo DEF DeploySteps, Forward

LEMMA SwitchOrderly ==
    ASSUME IInv, AInv, Orderly, NEW q \in Requests, SwitchInstall(q)
    PROVE  Orderly'
  <1>1. /\ Deploying(q, "switch") /\ UNCHANGED <<manifestOf, project, dep, app, container, past>>
        /\ ManifestsStay /\ Active' = Active
    BY DEF SwitchInstall, world, records, ManifestsStay, Active
  <1>2. PICK x : x = req[q]
    OBVIOUS
  <1>3. x \in DeployRequest /\ Sound(x, project, dep) /\ x # None /\ x.step = "switch"
        /\ x.kind \in {"install", "rollback"}
    BY <1>1, <1>2, KindTells DEF Deploying, IInv, TypeOK, Held
  <1>4. PICK y : y = [x EXCEPT !.step = "commit", !.saw = Active]
    OBVIOUS
  <1>5. Active \in SUBSET Deployments /\ \A d \in Active : dep[d] # None
    BY DEF Active
  <1>6. y \in Request /\ y # None
    BY <1>3, <1>4, <1>5, SnapshotStep, KindTells DEF Request
  <1>7. Onward(x, y, "switch", "commit") /\ y.stopped = x.stopped
    BY <1>3, <1>4, <1>6 DEF Onward, Idle, DeployRequest, Sound
  <1>8. req' = [req EXCEPT ![q] = y]
    BY <1>2, <1>4 DEF SwitchInstall, IInv, TypeOK
  <1>9. Becomes(x, y)
    <2> USE <1>1, <1>7 DEF Onward
    <2>1. Old(y) = Old(x)
      BY DEF Old
    <2>2. Placed(x) => Placed(y)'
      BY <2>1 DEF Placed, Idle, Forward
    <2>3. Healthy(x) => Healthy(y)'
      BY DEF Healthy, Idle
    <2>4. Registered(x) => Registered(y)'
      BY DEF Registered, Idle
    <2> QED BY <2>2, <2>3, <2>4 DEF Becomes, Spared
  <1> QED BY <1>1, <1>2, <1>7, <1>8, <1>9, Goes DEF Forward

(* A request that ends: what it leaves is fit for rest. *)
LEMMA Rests ==
    ASSUME IInv, AInv, Orderly, NEW q \in Requests, req[q] # None, End(q), past \subseteq past',
           project'.selected = project.selected, project'.validated = project.validated,
           UNCHANGED manifestOf,
           NEW x, x = req[q],
           "abandoned" \notin past' /\ Placed(x) => Placed(None)',
           Spared({"abandoned", "half"})' /\ Placed(x) /\ Healthy(x) => ReportedRuns',
           past' = {} /\ Registered(x) => ActiveIsRegistered'
    PROVE  Orderly'
  <1>1. Selected(x) => Selected(None)'
    BY DEF Selected, Idle
  <1>2. ReportedRuns' => Healthy(None)'
    BY DEF Healthy, Idle
  <1>3. ActiveIsRegistered' => Registered(None)'
    BY DEF Registered, Idle
  <1> QED BY <1>1, <1>2, <1>3, Proceeds DEF End

(* The deployment that is active from here on has the manifest that was    *)
(* registered.                                                             *)
LEMMA CommitOrderly ==
    ASSUME IInv, AInv, Orderly, NEW q \in Requests, Deploying(q, "commit"), Goto(q, "remove"),
           Active' = {req[q].new}, ManifestsStay, UNCHANGED <<app, container, past>>
    PROVE  Orderly'
  <1>1. ASSUME NEW x \in DeployRequest, NEW y \in DeployRequest, Onward(x, y, "commit", "remove"),
               y.stopped = x.stopped, x = req[q]
        PROVE  Becomes(x, y)
    <2> USE <1>1 DEF Onward
    <2>1. Old(y) = Old(x) /\ Active' = {y.new}
      BY DEF Old
    <2>2. Placed(x) => Placed(y)'
      BY <2>1 DEF Placed, Idle, Forward
    <2>3. Healthy(x) => Healthy(y)'
      BY DEF Healthy, Idle
    <2>4. Selected(x) /\ Registered(x) => Registered(y)'
      <3> SUFFICES ASSUME Selected(x), Registered(x) PROVE ActiveIsRegistered'
        BY DEF Registered, Idle
      <3>1. dep'[x.new].manifest = x.selected
        BY DEF Selected, ManifestsStay, Forward
      <3>2. app' = [manifest |-> x.selected, runtime |-> x.new]
        BY DEF Registered
      <3> QED BY <2>1, <3>1, <3>2 DEF ActiveIsRegistered
    <2> QED BY <2>2, <2>3, <2>4 DEF Becomes, Spared
  <1> QED BY <1>1, GoesTo DEF DeploySteps, Forward

LEMMA RemoveOrderly ==
    ASSUME IInv, AInv, Orderly, NEW q \in Requests, RemoveOld(q)
    PROVE  Orderly'
  <1>1. /\ Deploying(q, "remove") /\ UNCHANGED <<manifestOf, project, dep, app>>
        /\ ManifestsStay /\ Active' = Active /\ Goto(q, "log") /\ past \subseteq past'
    BY DEF RemoveOld, world, records, ManifestsStay, Active, Mishap
  <1>2. ASSUME NEW x \in DeployRequest, NEW y \in DeployRequest, Onward(x, y, "remove", "log"),
               y.stopped = x.stopped, x = req[q]
        PROVE  Becomes(x, y)
    <2> USE <1>1, <1>2 DEF Onward
    <2>1. Old(y) = Old(x) /\ Old(x) \subseteq Deployments
      BY DEF Old
    <2>2. "abandoned" \notin past' /\ Placed(x) => Placed(y)'
      <3> SUFFICES ASSUME "abandoned" \notin past', Placed(x) PROVE Placed(y)'
        OBVIOUS
      <3>1. /\ \A o \in Old(x) : container'[o] = "none"
            /\ \A d \in Deployments \ Old(x) : container'[d] = container[d]
        BY DEF RemoveOld, Old, IInv, TypeOK, Mishap
      <3>2. /\ Active = {x.new} /\ x.new \notin Old(x) /\ container[x.new] = "running"
            /\ \A d \in Deployments \ (Old(x) \cup {x.new}) : container[d] = "none"
        BY DEF Placed
      <3> QED BY <2>1, <3>1, <3>2 DEF Placed, Idle, Forward
    <2>3. Healthy(x) => Healthy(y)'
      BY DEF Healthy, Idle
    <2>4. Registered(x) => Registered(y)'
      BY DEF Registered, Idle, ActiveIsRegistered
    <2> QED BY <2>2, <2>3, <2>4 DEF Becomes, Spared
  <1> QED BY <1>1, <1>2, GoesTo DEF DeploySteps, Forward

LEMMA LogOrderly ==
    ASSUME IInv, AInv, Orderly, NEW q \in Requests, WriteLog(q)
    PROVE  Orderly'
  <1>1. /\ Deploying(q, "log") /\ UNCHANGED <<manifestOf, project, dep, app, container>>
        /\ ManifestsStay /\ Active' = Active /\ Running' = Running
    BY DEF WriteLog, world, records, ManifestsStay, Active, Running
  <1>2. CASE End(q) /\ UNCHANGED past
    <2>1. PICK x : x = req[q]
      OBVIOUS
    <2>2. ~Idle(x) /\ x.step = "log" /\ x # None /\ x.new \in Deployments
          /\ Old(x) \subseteq Deployments
      BY <1>1, <2>1, KindTells DEF Deploying, Idle, IInv, TypeOK, DeployRequest, Old
    <2>3. Placed(x) => Active = {x.new} /\ container[x.new] = "running"
      BY <2>2 DEF Placed
    <2>4. Placed(x) => \A d \in Deployments \ {x.new} : container[d] = "none"
      BY <2>2 DEF Placed
    <2>5. Placed(x) => Placed(None)'
      BY <1>1, <2>2, <2>3, <2>4 DEF Placed, Idle
    <2>6. Placed(x) => ReportedRuns'
      BY <1>1, <2>2, <2>3 DEF ReportedRuns, Running
    <2>7. Registered(x) => ActiveIsRegistered'
      BY <1>1, <2>2 DEF Registered, ActiveIsRegistered
    <2> QED BY <1>1, <1>2, <2>1, <2>2, <2>5, <2>6, <2>7, Rests
  <1>3. CASE Mishap("half") /\ Goto(q, "undo")
    <2>1. ASSUME NEW x \in DeployRequest, NEW y \in DeployRequest, Onward(x, y, "log", "undo")
          PROVE  Becomes(x, y)
      <3> USE <1>1, <2>1 DEF Onward
      <3>1. Old(y) = Old(x)
        BY DEF Old
      <3>2. Placed(x) => Placed(y)'
        BY <3>1 DEF Placed, Idle, Forward
      <3>3. "half" \in past'
        BY <1>3 DEF Mishap
      <3> QED BY <3>2, <3>3 DEF Becomes, Spared
    <2> QED BY <1>1, <1>3, <2>1, GoesTo DEF DeploySteps, Forward, Mishap
  <1> QED BY <1>2, <1>3 DEF WriteLog

(* The catch block of a deployment. *)
LEMMA UndoOrderly ==
    ASSUME IInv, AInv, Orderly, NEW q \in Requests, UndoNew(q)
    PROVE  Orderly'
  <1>1. /\ Deploying(q, "undo") /\ UNCHANGED <<manifestOf, project, dep, app>>
        /\ ManifestsStay /\ Active' = Active /\ Goto(q, "restore") /\ past \subseteq past'
    BY DEF UndoNew, world, records, ManifestsStay, Active, Mishap
  <1>2. ASSUME NEW x \in DeployRequest, NEW y \in DeployRequest, Onward(x, y, "undo", "restore"),
               y.stopped = x.stopped, x = req[q]
        PROVE  Becomes(x, y)
    <2> USE <1>1, <1>2 DEF Onward
    <2>1. Old(y) = Old(x) /\ Old(x) \subseteq Deployments
      BY DEF Old
    <2>2. "abandoned" \notin past'
            => /\ container'[x.new] = "none"
               /\ \A d \in Deployments \ {x.new} : container'[d] = container[d]
      BY DEF UndoNew, IInv, TypeOK, Mishap
    <2>3. "abandoned" \notin past' /\ Placed(x) => Placed(y)'
      <3> SUFFICES ASSUME "abandoned" \notin past', Placed(x) PROVE Placed(y)'
        OBVIOUS
      <3>1. /\ x.new \notin Old(x)
            /\ \A d \in Deployments \ (Old(x) \cup {x.new}) : container[d] = "none"
            /\ \/ Active = Old(x)
               \/ Active = {x.new} /\ \A o \in Old(x) : container[o] = "none"
        BY DEF Placed
      <3>2. /\ y.new \notin Old(y) /\ container'[y.new] = "none"
            /\ \A d \in Deployments \ (Old(y) \cup {y.new}) : container'[d] = "none"
            /\ \/ Active' = Old(y)
               \/ Active' = {y.new} /\ \A o \in Old(y) : container'[o] = "none"
        BY <2>1, <2>2, <3>1
      <3> QED BY <3>2 DEF Placed, Idle, Forward
    <2>4. "abandoned" \notin past' /\ Placed(x) /\ Healthy(x) => Healthy(y)'
      <3> SUFFICES ASSUME "abandoned" \notin past', Placed(x), Healthy(x) PROVE Healthy(y)'
        OBVIOUS
      <3>1. x.new \notin Old(x) /\ Active = Old(x) /\ (x.stopped => x.old # None)
        BY DEF Placed, Healthy
      <3>2. IF x.stopped THEN container[x.old] = "stopped" ELSE ReportedRuns
        BY DEF Healthy
      <3>3. IF x.stopped THEN container'[x.old] = "stopped" ELSE ReportedRuns'
        BY <2>1, <2>2, <3>1, <3>2 DEF Old, ReportedRuns, Running
      <3> QED BY <2>1, <3>1, <3>3 DEF Healthy, Idle
    <2>5. Registered(x) => Registered(y)'
      BY DEF Registered, Idle, ActiveIsRegistered
    <2> QED BY <2>3, <2>4, <2>5 DEF Becomes, Spared
  <1> QED BY <1>1, <1>2, GoesTo DEF DeploySteps, Forward

(* What was stopped runs again; at the end of a rollback that was undone   *)
(* nothing else has a container.                                           *)
LEMMA RestoreOrderly ==
    ASSUME IInv, AInv, Orderly, NEW q \in Requests, RestoreOld(q)
    PROVE  Orderly'
  <1>1. /\ Deploying(q, "restore") /\ UNCHANGED <<manifestOf, project, dep, app>>
        /\ ManifestsStay /\ Active' = Active /\ past \subseteq past'
    BY DEF RestoreOld, world, records, ManifestsStay, Active, Mishap
  <1>2. PICK x : x = req[q]
    OBVIOUS
  <1>3. /\ ~Idle(x) /\ x.step = "restore" /\ x # None /\ x.new \in Deployments
        /\ x.old \in Deployments \cup {None} /\ Old(x) \subseteq Deployments
    BY <1>1, <1>2, KindTells DEF Deploying, Idle, IInv, TypeOK, DeployRequest, Old
  <1>4. "abandoned" \notin past' =>
          \A d \in Deployments :
            container'[d] = IF x.stopped /\ d = x.old /\ container[d] # "none" THEN "running"
                            ELSE container[d]
    BY <1>2, <1>3 DEF RestoreOld, IInv, TypeOK, Mishap
  <1>5. Placed(x) => /\ x.new \notin Old(x) /\ container[x.new] = "none"
                     /\ \A d \in Deployments \ Old(x) : container[d] = "none"
                     /\ \/ Active = Old(x)
                        \/ Active = {x.new} /\ \A o \in Old(x) : container[o] = "none"
    BY <1>3 DEF Placed
  <1>6. "abandoned" \notin past' /\ Placed(x)
          => /\ x.new \notin Old(x) /\ container'[x.new] = "none"
             /\ \A d \in Deployments \ Old(x) : container'[d] = "none"
             /\ \/ Active' = Old(x)
                \/ Active' = {x.new} /\ \A o \in Old(x) : container'[o] = "none"
    BY <1>1, <1>3, <1>4, <1>5 DEF Old
  <1>7. "abandoned" \notin past' /\ Healthy(x) => Active' = Old(x) /\ ReportedRuns'
    <2> SUFFICES ASSUME "abandoned" \notin past', Healthy(x)
                 PROVE  Active' = Old(x) /\ ReportedRuns'
      OBVIOUS
    <2>1. Active = Old(x) /\ (x.stopped => x.old # None)
      BY <1>3 DEF Healthy
    <2>2. CASE x.stopped
      <3>1. container[x.old] = "stopped" /\ x.old \in Deployments
        BY <1>3, <2>1, <2>2 DEF Healthy
      <3> QED BY <1>1, <1>4, <2>1, <2>2, <3>1 DEF ReportedRuns, Running, Old
    <2>3. CASE ~x.stopped
      <3>1. ReportedRuns /\ \A d \in Deployments : container'[d] = container[d]
        BY <1>3, <1>4, <2>3 DEF Healthy
      <3> QED BY <1>1, <2>1, <3>1 DEF ReportedRuns, Running
    <2> QED BY <2>2, <2>3
  <1>8. Registered(x) => ActiveIsRegistered'
    BY <1>1, <1>3 DEF Registered, ActiveIsRegistered
  <1>9. CASE Goto(q, "mark")
    <2>1. ASSUME NEW z \in DeployRequest, NEW y \in DeployRequest,
                 Onward(z, y, "restore", "mark"),
                 y.stopped = z.stopped, z = req[q]
          PROVE  Becomes(z, y)
      <3> USE <1>1, <1>2, <2>1 DEF Onward
      <3>1. z = x /\ Old(y) = Old(x)
        BY DEF Old
      <3>2. "abandoned" \notin past' /\ Placed(z) => Placed(y)'
        BY <3>1, <1>6 DEF Placed, Idle, Forward
      <3>3. "abandoned" \notin past' /\ Healthy(z) => Healthy(y)'
        BY <3>1, <1>7 DEF Healthy, Idle
      <3>4. Registered(z) => Registered(y)'
        BY <3>1, <1>8 DEF Registered, Idle
      <3> QED BY <3>2, <3>3, <3>4 DEF Becomes, Spared
    <2> QED BY <1>1, <1>9, <2>1, GoesTo DEF DeploySteps, Forward
  <1>10. CASE End(q)
    <2>1. "abandoned" \notin past' /\ Placed(x) => Placed(None)'
      BY <1>6 DEF Placed, Idle
    <2> QED BY <1>1, <1>2, <1>3, <1>7, <1>8, <1>10, <2>1, Rests DEF Spared
  <1> QED BY <1>9, <1>10 DEF RestoreOld

LEMMA MarkOrderly ==
    ASSUME IInv, AInv, Orderly, NEW q \in Requests, MarkFailed(q)
    PROVE  Orderly'
  <1>1. /\ Deploying(q, "mark") /\ End(q) /\ UNCHANGED <<manifestOf, app, container, past>>
        /\ Active' = Active /\ Running' = Running
        /\ project'.selected = project.selected /\ project'.validated = project.validated
    BY MarkWrites DEF MarkFailed, world, Running
  <1>2. project'.runtime = project.runtime
    BY DEF MarkFailed, IInv, TypeOK, Project
  <1>3. \A d \in Deployments : dep[d] # None => dep'[d].manifest = dep[d].manifest
    <2>1. \A d \in Deployments : dep[d] # None => dep[d] \in Deployment
      BY DEF IInv, TypeOK
    <2> QED BY <2>1 DEF MarkFailed, IInv, TypeOK, Deployment
  <1>4. PICK x : x = req[q]
    OBVIOUS
  <1>5. ~Idle(x) /\ x.step = "mark" /\ x # None
    BY <1>1, <1>4, KindTells DEF Deploying, Idle, IInv, TypeOK
  <1>6. Placed(x) => Placed(None)'
    BY <1>1, <1>5 DEF Placed, Idle
  <1>7. Healthy(x) => ReportedRuns'
    BY <1>1, <1>2, <1>5 DEF Healthy, ReportedRuns
  <1>8. Registered(x) => ActiveIsRegistered'
    BY <1>1, <1>3, <1>5 DEF Registered, ActiveIsRegistered, Active
  <1> QED BY <1>1, <1>4, <1>5, <1>6, <1>7, <1>8, Rests

(* A request that begins while none is under way. *)
LEMMA BeginsOrderly ==
    ASSUME IInv, AInv, Orderly, NEW q \in Requests, NEW y, Begin(q, y),
           UNCHANGED <<world, records, container, accepted>>,
           Selected(None) => Selected(y),
           Placed(None) => Placed(y),
           Placed(None) /\ Healthy(None) => Healthy(y),
           Registered(None) => Registered(y)
    PROVE  Orderly'
  <1>1. req[q] = None /\ req' = [req EXCEPT ![q] = y] /\ past \subseteq past'
    BY DEF Begin, Mishap
  <1>2. Solo' => AtRest
    BY DEF Begin, Mishap, Solo, AtRest
  <1>3. UNCHANGED <<manifestOf, project, dep, container, app>> /\ Active' = Active
        /\ Running' = Running
    BY DEF world, records, Active, Running
  <1>4. Selected(y) => Selected(y)'
    BY <1>3 DEF Selected, Idle
  <1>5. Placed(y) => Placed(y)'
    BY <1>3 DEF Placed, Idle, Old
  <1>6. Healthy(y) => Healthy(y)'
    BY <1>3 DEF Healthy, Idle, Old, ReportedRuns
  <1>7. Registered(y) => Registered(y)'
    BY <1>3 DEF Registered, Idle, ActiveIsRegistered
  <1> QED BY <1>1, <1>2, <1>4, <1>5, <1>6, <1>7, Proceeds

LEMMA StartOrderly ==
    ASSUME IInv, AInv, Orderly, PreviousOther, NEW q \in Requests, Start(q)
    PROVE  Orderly'
  <1>1. ASSUME NEW y, y.kind \in {"sync", "approve"}, Begin(q, y),
               UNCHANGED <<world, records, container, accepted>>
        PROVE  Orderly'
    <2>1. Idle(y) /\ y.kind \notin {"validate", "prepare", "action"}
      BY <1>1 DEF Idle
    <2>2. Selected(None) => Selected(y)
      BY <2>1 DEF Selected
    <2>3. (Placed(None) => Placed(y)) /\ (Healthy(None) => Healthy(y))
          /\ (Registered(None) => Registered(y))
      BY <2>1 DEF Placed, Healthy, Registered, Idle
    <2> QED BY <1>1, <2>2, <2>3, BeginsOrderly
  <1>2. CASE StartSync(q)
    BY <1>1, <1>2 DEF StartSync
  <1>3. CASE StartApprove(q)
    BY <1>1, <1>3 DEF StartApprove
  <1>4. CASE StartValidate(q)
    <2> DEFINE m == IF project.revision = None THEN None ELSE manifestOf[project.revision]
               y == [kind |-> "validate", manifest |-> m]
    <2>1. Begin(q, y) /\ UNCHANGED <<world, records, container, accepted>>
      BY <1>4 DEF StartValidate
    <2>2. y.kind = "validate" /\ y.manifest \in {None, manifestOf[project.revision]}
      OBVIOUS
    <2> HIDE DEF y
    <2>3. Selected(None) => Selected(y)
      BY <2>2 DEF Selected, Idle
    <2>4. (Placed(None) => Placed(y)) /\ (Healthy(None) => Healthy(y))
          /\ (Registered(None) => Registered(y))
      BY <2>2 DEF Placed, Healthy, Registered, Idle
    <2> QED BY <2>1, <2>3, <2>4, BeginsOrderly
  <1>5. CASE StartInstall(q)
    <2> DEFINE y == [kind |-> "prepare", rev |-> project.validated,
                     manifest |-> project.manifest, selected |-> project.selected]
    <2>1. Begin(q, y) /\ UNCHANGED <<world, records, container, accepted>>
          /\ project.selected # None
      BY <1>5 DEF StartInstall
    <2>2. y.kind = "prepare" /\ y.rev = project.validated /\ y.selected = project.selected
      OBVIOUS
    <2> HIDE DEF y
    <2>3. Selected(None) => Selected(y)
      BY <2>1, <2>2 DEF Selected, Idle
    <2>4. (Placed(None) => Placed(y)) /\ (Healthy(None) => Healthy(y))
          /\ (Registered(None) => Registered(y))
      BY <2>2 DEF Placed, Healthy, Registered, Idle
    <2> QED BY <2>1, <2>3, <2>4, BeginsOrderly
  <1>6. ASSUME NEW d \in Deployments, StartRollback(q, d) PROVE Orderly'
    <2>1. PICK target : target = dep[d].previous
      OBVIOUS
    <2>2. PICK y : y = [kind |-> "rollback", rev |-> dep[target].rev,
                        manifest |-> dep[target].manifest, selected |-> dep[target].manifest,
                        step |-> "stop", new |-> target, old |-> d, stopped |-> FALSE, saw |-> {}]
      OBVIOUS
    <2>3. Begin(q, y) /\ UNCHANGED <<world, records, container, accepted>>
      BY <1>6, <2>1, <2>2 DEF StartRollback
    <2>4. /\ y.kind = "rollback" /\ y.step = "stop" /\ y.new = target /\ y.old = d
          /\ y.stopped = FALSE /\ y.manifest = dep[target].manifest
          /\ y.selected = dep[target].manifest
      BY <2>2
    <2>5. target \in Deployments /\ target # d /\ d # None /\ dep[target] # None
      BY <1>6, <2>1 DEF StartRollback, Active, IInv, TypeOK, Deployment, PreviousExists,
                         PreviousOther
    <2>6. Active = {d}
      BY <1>6 DEF StartRollback, IInv, Unique
    <2>7. y # None
      <3>1. dep[target].rev \in Revs /\ dep[target].manifest \in Manifests
        BY <2>5 DEF IInv, TypeOK, Deployment
      <3>2. y \in DeployRequest
        BY <2>2, <2>5, <3>1 DEF DeployRequest, Forward
      <3> QED BY <3>2, KindTells DEF Request
    <2>8. ~Idle(y) /\ Old(y) = {d}
      BY <2>4, <2>5, <2>7 DEF Idle, Old
    <2>9. Selected(None) => Selected(y)
      BY <2>4, <2>8 DEF Selected, Idle
    <2>10. Placed(None) => Placed(y)
      BY <2>4, <2>5, <2>6, <2>8 DEF Placed, Idle
    <2>11. Healthy(None) => Healthy(y)
      BY <2>4, <2>5, <2>8 DEF Healthy, Idle
    <2>12. Registered(None) => Registered(y)
      BY <2>4, <2>8 DEF Registered, Idle
    <2> QED BY <2>3, <2>9, <2>10, <2>11, <2>12, BeginsOrderly
  <1>7. ASSUME NEW d \in Deployments, NEW a \in {"start", "stop", "rebuild"}, StartAction(q, d, a)
        PROVE  Orderly'
    <2>1. PICK y : y = [kind |-> "action", action |-> a, of |-> d, step |-> "perform"]
      OBVIOUS
    <2>2. /\ Begin(q, y) /\ UNCHANGED <<world, records, container, accepted>>
          /\ d \in Active
      BY <1>7, <2>1 DEF StartAction
    <2>3. y.kind = "action" /\ y.of = d /\ y.step = "perform"
      BY <2>1
    <2>4. Selected(None) => Selected(y)
      BY <2>3 DEF Selected, Idle
    <2>5. (Placed(None) => Placed(y)) /\ (Healthy(None) => Healthy(y))
          /\ (Registered(None) => Registered(y))
      BY <2>2, <2>3 DEF Placed, Healthy, Registered, Idle
    <2> QED BY <2>2, <2>4, <2>5, BeginsOrderly
  <1> QED BY <1>2, <1>3, <1>4, <1>5, <1>6, <1>7 DEF Start

(* Synchronization, approval and validation write the row and end. *)
LEMMA RowStepsOrderly ==
    ASSUME IInv, AInv, Orderly, NEW q \in Requests,
           WriteSync(q) \/ WriteApproval(q) \/ WriteValidation(q)
    PROVE  Orderly'
  <1>1. PICK x : x = req[q]
    OBVIOUS
  <1>2. /\ x # None /\ x.kind \in {"sync", "approve", "validate"} /\ End(q) /\ past' = past
        /\ UNCHANGED <<manifestOf, dep, container, app>> /\ Active' = Active
        /\ Running' = Running
    BY <1>1 DEF WriteSync, WriteApproval, WriteValidation, Doing, world, Active, Running
  <1>3. project'.runtime = project.runtime
    BY DEF WriteSync, WriteApproval, WriteValidation, IInv, TypeOK, Project
  <1>4. Selected(x) => Selected(None)'
    <2>1. CASE WriteSync(q) \/ WriteApproval(q)
      <3>1. project'.selected = project.selected /\ project'.validated = project.validated
        BY <2>1 DEF WriteSync, WriteApproval, IInv, TypeOK, Project
      <3> QED BY <1>2, <3>1 DEF Selected, Idle
    <2>2. CASE WriteValidation(q)
      <3>1. x.kind = "validate"
        BY <1>1, <2>2 DEF WriteValidation, Doing
      <3>2. project'.selected = x.manifest /\ project'.validated = project.revision
        BY <1>1, <2>2 DEF WriteValidation, IInv, TypeOK, Project
      <3> QED BY <1>2, <3>1, <3>2 DEF Selected, Idle
    <2> QED BY <2>1, <2>2
  <1>5. Placed(x) => Placed(None)'
    BY <1>2 DEF Placed, Idle
  <1>6. Healthy(x) => Healthy(None)'
    BY <1>2, <1>3 DEF Healthy, Idle, ReportedRuns
  <1>7. Registered(x) => Registered(None)'
    BY <1>2 DEF Registered, Idle, ActiveIsRegistered
  <1>8. req' = [req EXCEPT ![q] = None]
    BY <1>2 DEF End
  <1> QED BY <1>1, <1>2, <1>4, <1>5, <1>6, <1>7, <1>8, Proceeds

(* The new deployment has no container yet and replaces the active one. *)
LEMMA InsertOrderly ==
    ASSUME IInv, AInv, Orderly, NEW q \in Requests, InsertDeployment(q)
    PROVE  Orderly'
  <1>1. PICK x : x = req[q]
    OBVIOUS
  <1>2. PICK d \in Deployments, old \in IF Active = {} THEN {None} ELSE Active :
         /\ dep[d] = None
         /\ dep' = [dep EXCEPT ![d] = [rev |-> x.rev, manifest |-> x.manifest,
                      active |-> FALSE, status |-> "pending", previous |-> old]]
         /\ req' = [req EXCEPT ![q] = [kind |-> "install", rev |-> x.rev,
                      manifest |-> x.manifest, selected |-> x.selected,
                      step |-> "stage", new |-> d, old |-> old, stopped |-> FALSE, saw |-> {}]]
    BY <1>1 DEF InsertDeployment
  <1>3. PICK y : y = [kind |-> "install", rev |-> x.rev, manifest |-> x.manifest,
                      selected |-> x.selected, step |-> "stage", new |-> d, old |-> old,
                      stopped |-> FALSE, saw |-> {}]
    OBVIOUS
  <1>4. x # None /\ x.kind = "prepare" /\ past' = past
        /\ UNCHANGED <<manifestOf, project, container, app>>
    BY <1>1 DEF InsertDeployment, Doing, world
  <1>5. /\ y.kind = "install" /\ y.rev = x.rev /\ y.manifest = x.manifest
        /\ y.selected = x.selected /\ y.step = "stage" /\ y.new = d /\ y.old = old
        /\ y.stopped = FALSE
    BY <1>3
  <1>6. /\ Active' = Active /\ Running' = Running
        /\ \A e \in Deployments : dep[e] # None => dep'[e] = dep[e]
    BY <1>4, InsertKeeps DEF Running
  <1>7. dep'[d].manifest = y.manifest
    BY <1>2, <1>5 DEF IInv, TypeOK
  <1>8. Active = Old(y) /\ d \notin Active /\ Old(y) \subseteq Deployments
    <2>1. \A a \in Active : a \in Deployments /\ a # None /\ dep[a] # None
      BY DEF Active
    <2>2. CASE Active = {}
      BY <1>2, <1>5, <2>2 DEF Old
    <2>3. CASE Active # {}
      <3>1. old \in Active /\ Active = {old}
        BY <1>2, <2>3 DEF IInv, Unique
      <3> QED BY <1>2, <1>5, <2>1, <3>1 DEF Old
    <2> QED BY <2>2, <2>3
  <1>9. y # None
    <2>1. x \in PrepareRequest
      BY <1>1, <1>4, KindTells DEF IInv, TypeOK
    <2>2. old \in Deployments \cup {None}
      BY DEF Active
    <2>3. y \in DeployRequest
      BY <1>3, <2>1, <2>2 DEF PrepareRequest, DeployRequest, Forward
    <2> QED BY <2>3, KindTells DEF Request
  <1>10. ~Idle(y) /\ Idle(x)
    BY <1>4, <1>5, <1>9 DEF Idle
  <1>11. Selected(x) => Selected(y)'
    BY <1>4, <1>5, <1>7, <1>10 DEF Selected, Idle, Forward
  <1>12. Placed(x) => Placed(y)'
    <2> SUFFICES ASSUME Placed(x) PROVE Placed(y)'
      OBVIOUS
    <2>1. \A e \in Deployments \ Active : container[e] = "none"
      BY <1>10 DEF Placed
    <2> QED BY <1>4, <1>5, <1>6, <1>8, <1>10, <2>1 DEF Placed, Idle
  <1>13. Healthy(x) => Healthy(y)'
    <2>1. Healthy(x) => ReportedRuns'
      BY <1>4, <1>6, <1>10 DEF Healthy, ReportedRuns
    <2> QED BY <1>5, <1>10, <2>1 DEF Healthy, Idle
  <1>14. Registered(x) => Registered(y)'
    <2>1. \A a \in Active : a \in Deployments /\ dep[a] # None
      BY DEF Active
    <2>2. Registered(x) => ActiveIsRegistered'
      BY <1>4, <1>6, <1>10, <2>1 DEF Registered, ActiveIsRegistered
    <2> QED BY <1>5, <1>10, <2>2 DEF Registered, Idle
  <1>15. req' = [req EXCEPT ![q] = y]
    BY <1>2, <1>3
  <1> QED BY <1>1, <1>4, <1>11, <1>12, <1>13, <1>14, <1>15, Proceeds

(* The transactions keep the manifests of the deployments. *)
LEMMA InstallManifests ==
    ASSUME IInv, NEW new \in Deployments, NEW saw, dep' = Switched(new, saw)
    PROVE  \A d \in Deployments : dep[d] # None => dep'[d].manifest = dep[d].manifest
  <1> SUFFICES ASSUME NEW d \in Deployments, dep[d] # None
               PROVE  dep'[d].manifest = dep[d].manifest
    OBVIOUS
  <1>1. dep[d] \in Deployment
    BY DEF IInv, TypeOK
  <1>2. \/ dep'[d] = dep[d]
        \/ dep'[d] = [dep[d] EXCEPT !.active = FALSE]
        \/ dep'[d] = [dep[d] EXCEPT !.active = TRUE, !.status = "running"]
    BY DEF Switched
  <1> QED BY <1>1, <1>2 DEF Deployment

LEMMA RollbackManifests ==
    ASSUME IInv, NEW old \in Deployments, NEW new \in Deployments,
           dep[old] # None, dep[new] # None,
           dep' = [dep EXCEPT ![old].active = FALSE, ![old].status = "rolled_back",
                             ![new].active = TRUE, ![new].status = "running"]
    PROVE  \A d \in Deployments : dep[d] # None => dep'[d].manifest = dep[d].manifest
  <1>1. dep \in [Deployments -> Deployment \cup {None}]
        /\ dep[old] \in Deployment /\ dep[new] \in Deployment
    BY DEF IInv, TypeOK
  <1>2. PICK r : r = [dep[old] EXCEPT !.active = FALSE, !.status = "rolled_back"]
    OBVIOUS
  <1>3. r.manifest = dep[old].manifest /\ r \in Deployment
    BY <1>1, <1>2 DEF Deployment
  <1>4. PICK off : off = [dep EXCEPT ![old] = r]
    OBVIOUS
  <1>5. dep' = [off EXCEPT ![new].active = TRUE, ![new].status = "running"]
    BY <1>1, <1>2, <1>4
  <1>6. off[new] \in Deployment /\ off[new].manifest = dep[new].manifest
        /\ \A d \in Deployments : d # old => off[d] = dep[d]
    BY <1>1, <1>3, <1>4
  <1>7. off[old] = r
    BY <1>1, <1>4
  <1>8. PICK n : n = [off[new] EXCEPT !.active = TRUE, !.status = "running"]
    OBVIOUS
  <1>9. n.manifest = dep[new].manifest
    BY <1>6, <1>8 DEF Deployment
  <1>10. off \in [Deployments -> Deployment \cup {None}]
    BY <1>1, <1>3, <1>4
  <1>11. dep' = [off EXCEPT ![new] = n]
    BY <1>5, <1>8, <1>10
  <1> QED BY <1>3, <1>6, <1>7, <1>9, <1>10, <1>11

LEMMA CommitsOrderly ==
    ASSUME IInv, AInv, Orderly, NEW q \in Requests, CommitInstall(q) \/ CommitRollback(q)
    PROVE  Orderly'
  <1>1. CASE CommitInstall(q)
    <2>1. CASE Active \subseteq req[q].saw
      <3>1. /\ req[q] \in DeployRequest /\ Active' = {req[q].new}
            /\ project'.selected = project.selected /\ project'.validated = project.validated
            /\ Goto(q, "remove") /\ UNCHANGED <<world, app, container, past>>
        BY <1>1, <2>1, InstallSwitches
      <3>2. req[q].new \in Deployments
        BY <3>1 DEF DeployRequest
      <3>3. ManifestsStay
        BY <1>1, <2>1, <3>1, <3>2, InstallManifests DEF CommitInstall, ManifestsStay, world
      <3> QED BY <1>1, <3>1, <3>3, CommitOrderly DEF CommitInstall
    <2>2. CASE ~(Active \subseteq req[q].saw)
      BY <1>1, <2>2, Catches DEF CommitInstall, records, Forward
    <2> QED BY <2>1, <2>2
  <1>2. CASE CommitRollback(q)
    <2>1. CASE Active \subseteq {req[q].old, req[q].new}
      <3>1. /\ req[q] \in DeployRequest /\ Sound(req[q], project, dep) /\ Active' = {req[q].new}
            /\ project'.selected = project.selected /\ project'.validated = project.validated
            /\ Goto(q, "remove") /\ UNCHANGED <<world, app, container, past>>
        BY <1>2, <2>1, RollbackSwitches
      <3>2. /\ req[q].new \in Deployments /\ dep[req[q].new] # None
            /\ req[q].old \in Deployments /\ dep[req[q].old] # None
        BY <1>2, <3>1 DEF DeployRequest, Sound, CommitRollback
      <3>3. ManifestsStay
        BY <1>2, <2>1, <3>1, <3>2, RollbackManifests DEF CommitRollback, ManifestsStay, world
      <3> QED BY <1>2, <3>1, <3>3, CommitOrderly DEF CommitRollback
    <2>2. CASE ~(Active \subseteq {req[q].old, req[q].new})
      BY <1>2, <2>2, Catches DEF CommitRollback, records, Forward
    <2> QED BY <2>1, <2>2
  <1> QED BY <1>1, <1>2

(* An action on the container of the active deployment. *)
LEMMA ActsOrderly ==
    ASSUME IInv, AInv, Orderly, NEW q \in Requests, Perform(q) \/ RunRebuilt(q)
    PROVE  Orderly'
  <1>1. PICK t \in {"run", "record"} : Goto(q, t)
    BY DEF Perform, RunRebuilt
  <1>2. PICK x : x = req[q]
    OBVIOUS
  <1>3. x \in ActionRequest /\ x.kind = "action" /\ x # None /\ x.of \in Deployments
    BY <1>2, KindTells DEF Perform, RunRebuilt, Acting, Doing, IInv, TypeOK, ActionRequest
  <1>4. PICK y : y = [x EXCEPT !.step = t]
    OBVIOUS
  <1>5. y.kind = "action" /\ y.of = x.of /\ y.action = x.action /\ y.step = t
        /\ y \in ActionRequest
    BY <1>3, <1>4 DEF ActionRequest
  <1>6. y # None
    BY <1>5, KindTells DEF Request
  <1>7. req' = [req EXCEPT ![q] = y]
    BY <1>1, <1>2, <1>4 DEF Goto, IInv, TypeOK
  <1>8. UNCHANGED <<manifestOf, project, dep, app, past>> /\ Active' = Active
    BY DEF Perform, RunRebuilt, world, records, Active
  <1>9. \A d \in Deployments : d # x.of => container'[d] = container[d]
    BY <1>2, <1>3 DEF Perform, RunRebuilt, IInv, TypeOK
  <1>10. t = "record" /\ x.action # "stop" => container'[x.of] = "running"
    <2>1. container'[x.of] = "running" \/ Goto(q, "run") \/ x.action = "stop"
      BY <1>2, <1>3 DEF Perform, RunRebuilt, IInv, TypeOK
    <2>2. Goto(q, "run") => t = "run"
      <3>1. Goto(q, "run") => req'[q] = [x EXCEPT !.step = "run"] /\ req'[q] = y
        BY <1>2, <1>7 DEF Goto, IInv, TypeOK
      <3> QED BY <1>3, <1>5, <3>1 DEF ActionRequest
    <2> QED BY <2>1, <2>2
  <1>11. Selected(x) => Selected(y)'
    BY <1>3, <1>5, <1>6, <1>8 DEF Selected, Idle
  <1>12. Placed(x) => Placed(y)'
    BY <1>3, <1>5, <1>6, <1>8, <1>9 DEF Placed, Idle
  <1>13. Healthy(y)'
    BY <1>5, <1>6, <1>10 DEF Healthy, Idle
  <1>14. Registered(x) => Registered(y)'
    BY <1>3, <1>5, <1>6, <1>8 DEF Registered, Idle, ActiveIsRegistered
  <1> QED BY <1>2, <1>3, <1>7, <1>8, <1>11, <1>12, <1>13, <1>14, Proceeds

LEMMA RecordOrderly ==
    ASSUME IInv, AInv, Orderly, NEW q \in Requests, RecordAction(q)
    PROVE  Orderly'
  <1>1. PICK x : x = req[q]
    OBVIOUS
  <1>2. /\ x # None /\ x.kind = "action" /\ x.step = "record" /\ End(q)
        /\ UNCHANGED <<manifestOf, dep, app, container, past>> /\ Active' = Active
        /\ Running' = Running
    BY <1>1 DEF RecordAction, Acting, Doing, world, Active, Running
  <1>3. /\ project'.selected = project.selected /\ project'.validated = project.validated
        /\ project'.runtime = IF x.action = "stop" THEN "stopped" ELSE "healthy"
    BY <1>1 DEF RecordAction, IInv, TypeOK, Project
  <1>4. Placed(x) => Placed(None)'
    BY <1>2 DEF Placed, Idle
  <1>5. Placed(x) /\ Healthy(x) => ReportedRuns'
    <2> SUFFICES ASSUME Placed(x), Healthy(x), x.action # "stop" PROVE Active' \subseteq Running'
      BY <1>3 DEF ReportedRuns
    <2>1. x.of \in Active /\ container[x.of] = "running"
      BY <1>2 DEF Placed, Healthy
    <2>2. \A d \in Active : d = x.of /\ d \in Deployments
      BY <2>1 DEF IInv, Unique, Active
    <2> QED BY <1>2, <2>1, <2>2 DEF Running
  <1>6. Registered(x) => ActiveIsRegistered'
    BY <1>2 DEF Registered, Idle, ActiveIsRegistered
  <1> QED BY <1>1, <1>2, <1>3, <1>4, <1>5, <1>6, Rests

LEMMA FailsOrderly ==
    ASSUME IInv, AInv, Orderly, NEW q \in Requests, Fails(q)
    PROVE  Orderly'
  <1>1. PICK x : x = req[q]
    OBVIOUS
  <1>2. x # None /\ UNCHANGED <<world, records, container>> /\ Active' = Active
        /\ Running' = Running /\ UNCHANGED <<manifestOf, project, dep, app>>
    BY <1>1 DEF Fails, world, records, Active, Running
  <1>3. CASE x.kind \in {"install", "rollback"} /\ x.step \in Forward /\ Catch(q)
    BY <1>1, <1>2, <1>3, Catches DEF Deploying
  <1>4. CASE /\ x.kind \in {"sync", "approve", "validate", "prepare"}
             /\ End(q) /\ UNCHANGED past
    <2>1. Placed(x) => Placed(None)'
      BY <1>2, <1>4 DEF Placed, Idle
    <2>2. Healthy(x) => ReportedRuns'
      BY <1>2, <1>4 DEF Healthy, Idle, ReportedRuns
    <2>3. Registered(x) => ActiveIsRegistered'
      BY <1>2, <1>4 DEF Registered, Idle, ActiveIsRegistered
    <2> QED BY <1>1, <1>2, <1>4, <2>1, <2>2, <2>3, Rests
  <1>5. CASE /\ x.kind = "install" /\ x.step \in {"stage", "mark"}
             /\ End(q) /\ UNCHANGED past
    <2>1. Placed(x) => Placed(None)'
      <3> SUFFICES ASSUME Placed(x) PROVE Placed(None)'
        OBVIOUS
      <3>1. /\ container[x.new] = "none"
            /\ \A d \in Deployments \ (Old(x) \cup {x.new}) : container[d] = "none"
            /\ \/ Active = Old(x)
               \/ Active = {x.new} /\ \A o \in Old(x) : container[o] = "none"
        BY <1>2, <1>5 DEF Placed, Idle, Forward
      <3> QED BY <1>2, <3>1 DEF Placed, Idle
    <2>2. Healthy(x) => ReportedRuns'
      BY <1>2, <1>5 DEF Healthy, Idle, ReportedRuns
    <2>3. Registered(x) => ActiveIsRegistered'
      BY <1>2, <1>5 DEF Registered, Idle, ActiveIsRegistered
    <2> QED BY <1>1, <1>2, <1>5, <2>1, <2>2, <2>3, Rests
  <1>6. CASE /\ x.kind = "action" /\ End(q)
             /\ (x.step = "perform" /\ UNCHANGED past) \/ Mishap("half")
    <2>1. past \subseteq past' /\ (x.step # "perform" => "half" \in past')
      BY <1>6 DEF Mishap
    <2>2. Placed(x) => Placed(None)'
      BY <1>2, <1>6 DEF Placed, Idle
    <2>3. x.step = "perform" /\ Healthy(x) => ReportedRuns'
      BY <1>2, <1>6 DEF Healthy, Idle, ReportedRuns
    <2>4. Registered(x) => ActiveIsRegistered'
      BY <1>2, <1>6 DEF Registered, Idle, ActiveIsRegistered
    <2> QED BY <1>1, <1>2, <1>6, <2>1, <2>2, <2>3, <2>4, Rests DEF Spared
  <1> QED BY <1>1, <1>3, <1>4, <1>5, <1>6 DEF Fails

(* What comes to be without a request. *)
LEMMA OthersOrderly ==
    ASSUME IInv, AInv, Orderly, RetestOrigin \/ MoveSource \/ UNCHANGED vars
    PROVE  Orderly'
  <1>1. /\ UNCHANGED <<manifestOf, dep, container, app, req, past>>
        /\ Active' = Active /\ Running' = Running
    BY DEF RetestOrigin, MoveSource, vars, world, records, Active, Running
  <1>2. /\ project'.selected = project.selected /\ project'.validated = project.validated
        /\ project'.revision = project.revision /\ project'.runtime = project.runtime
    BY DEF RetestOrigin, MoveSource, vars, records, IInv, TypeOK, Project
  <1>3. ASSUME NEW x, Good(x) PROVE Good(x)'
    <2>1. Selected(x) => Selected(x)'
      BY <1>1, <1>2 DEF Selected, Idle
    <2>2. Placed(x) => Placed(x)'
      BY <1>1 DEF Placed, Idle, Old
    <2>3. Healthy(x) => Healthy(x)'
      BY <1>1, <1>2 DEF Healthy, Idle, Old, ReportedRuns
    <2>4. Registered(x) => Registered(x)'
      BY <1>1 DEF Registered, Idle, ActiveIsRegistered
    <2> QED BY <1>1, <1>3, <2>1, <2>2, <2>3, <2>4 DEF Good, Spared
  <1>4. AtRest' => AtRest
    BY <1>1 DEF AtRest
  <1> QED BY <1>1, <1>3, <1>4 DEF Orderly, Solo

LEMMA RestartOrderly ==
    ASSUME IInv, AInv, Orderly, Restart
    PROVE  Orderly'
  <1>1. /\ UNCHANGED <<manifestOf, project>> /\ past \subseteq past' /\ "abandoned" \in past'
        /\ \A q \in Requests : req'[q] = None
    BY DEF Restart, Mishap, world, records
  <1>2. PICK q \in Requests : req[q] # None
    BY DEF Restart
  <1>3. PICK x : x = req[q]
    OBVIOUS
  <1>4. Solo' => Good(x)
    BY <1>1, <1>2, <1>3 DEF Orderly, Solo, IInv, TypeOK
  <1>5. Selected(x) => Selected(None)'
    BY <1>1 DEF Selected, Idle
  <1>6. Solo' => Good(None)'
    BY <1>1, <1>4, <1>5 DEF Good, Spared
  <1> QED BY <1>1, <1>6 DEF Orderly

LEMMA OtherKept ==
    ASSUME IInv, PreviousOther, [Next]_vars
    PROVE  PreviousOther'
  <1>1. CASE dep' = dep
    BY <1>1 DEF PreviousOther
  <1>2. CASE Rewritten
    BY <1>2 DEF PreviousOther, Rewritten
  <1>3. ASSUME NEW q \in Requests, InsertDeployment(q) PROVE PreviousOther'
    <2>1. \A d \in Active : dep[d] # None
      BY DEF Active
    <2> QED BY <1>3, <2>1, InsertKeeps DEF PreviousOther
  <1>4. ASSUME NEW q \in Requests, CommitInstall(q) \/ CommitRollback(q) \/ MarkFailed(q)
        PROVE  dep' = dep \/ Rewritten
    BY <1>4, InstallSwitches, RollbackSwitches, MarkWrites DEF CommitInstall, CommitRollback
  <1>5. ASSUME NEW q \in Requests, Start(q) \/ Step(q), ~InsertDeployment(q),
               ~CommitInstall(q), ~CommitRollback(q), ~MarkFailed(q)
        PROVE  dep' = dep
    BY <1>5 DEF Start, StartSync, StartApprove, StartValidate, StartInstall, StartRollback,
         StartAction, Step, WriteSync, WriteApproval, WriteValidation, Stage, StopOld, BuildNew,
         CheckServed, Register, RegisterRuntime, SwitchInstall, RemoveOld, WriteLog,
         UndoNew, RestoreOld, Perform, RunRebuilt, RecordAction, Fails, records
  <1>6. Restart \/ RetestOrigin \/ MoveSource \/ UNCHANGED vars => dep' = dep
    BY DEF Restart, RetestOrigin, MoveSource, vars, records
  <1> QED BY <1>1, <1>2, <1>3, <1>4, <1>5, <1>6 DEF Next

(* The third invariant: no deployment replaces itself, and the request     *)
(* under way is good.                                                      *)
DInv == PreviousOther /\ Orderly

LEMMA OrderInductive == IInv /\ AInv /\ DInv /\ [Next]_vars => DInv'
  <1> SUFFICES ASSUME IInv, AInv, DInv, [Next]_vars PROVE DInv'
    OBVIOUS
  <1>1. PreviousOther'
    BY OtherKept DEF DInv
  <1>2. ASSUME NEW q \in Requests, Start(q) PROVE Orderly'
    BY <1>2, StartOrderly DEF DInv
  <1>3. ASSUME NEW q \in Requests, Step(q) PROVE Orderly'
    BY <1>3, RowStepsOrderly, InsertOrderly, StageOrderly, StopOrderly, BuildOrderly,
       ServeOrderly, RegisterOrderly, RuntimeOrderly, SwitchOrderly, CommitsOrderly,
       RemoveOrderly, LogOrderly, UndoOrderly, RestoreOrderly, MarkOrderly, ActsOrderly,
       RecordOrderly, FailsOrderly DEF Step, DInv
  <1>4. Restart => Orderly'
    BY RestartOrderly DEF DInv
  <1>5. RetestOrigin \/ MoveSource \/ UNCHANGED vars => Orderly'
    BY OthersOrderly DEF DInv
  <1> QED BY <1>1, <1>2, <1>3, <1>4, <1>5 DEF Next, DInv

LEMMA OrderInitially == Init => DInv
  <1> SUFFICES ASSUME Init PROVE DInv
    OBVIOUS
  <1>1. Active = {} /\ \A d \in Deployments : container[d] = "none"
    BY DEF Init, Active
  <1>2. Selected(None) /\ Placed(None) /\ Healthy(None) /\ Registered(None)
    BY <1>1 DEF Init, Selected, Placed, Healthy, Registered, Idle, ReportedRuns,
                ActiveIsRegistered
  <1>3. \A q \in Requests : req[q] = None
    BY DEF Init
  <1>4. \A x \in Request : x # None
    OBVIOUS
  <1>5. Orderly
    BY <1>2, <1>3, <1>4 DEF Orderly, Good
  <1>6. PreviousOther
    BY DEF Init, PreviousOther
  <1> QED BY <1>5, <1>6 DEF DInv

(* Whatever request is under way alone, and whatever failed before, its    *)
(* step tells where the containers are and what is registered.             *)
THEOREM Order == Spec => [](IInv /\ AInv /\ DInv)
  <1>1. Init => AInv
    BY ApprovalInitially
  <1>2. Init => DInv
    BY OrderInitially
  <1>3. IInv /\ AInv /\ DInv /\ [Next]_vars => AInv' /\ DInv'
    BY ApprovalInductive, OrderInductive
  <1> QED BY <1>1, <1>2, <1>3, Invariance, PTL DEF Spec

(* What is good tells where containers run. *)
LEMMA OneRuns ==
    ASSUME IInv, DInv, Spared({"overlap", "abandoned"}), NEW d \in Running, NEW e \in Running
    PROVE  d = e
  <1>1. d \in Deployments /\ e \in Deployments /\ container[d] = "running"
        /\ container[e] = "running"
    BY DEF Running
  <1>2. ASSUME NEW x, Placed(x), Idle(x) PROVE d = e
    <2>1. d \in Active /\ e \in Active
      BY <1>1, <1>2 DEF Placed
    <2> QED BY <2>1 DEF IInv, Unique
  <1>3. ASSUME NEW x \in DeployRequest, Placed(x), ~Idle(x) PROVE d = e
    <2>1. d \in Old(x) \cup {x.new} /\ e \in Old(x) \cup {x.new}
      BY <1>1, <1>3 DEF Placed
    <2>2. container[x.new] # "running" \/ \A o \in Old(x) : container[o] # "running"
      <3>1. x.step \in DeploySteps
        BY DEF DeployRequest, DeploySteps
      <3> QED BY <1>3, <3>1 DEF Placed, DeploySteps, Forward
    <2> QED BY <1>1, <2>1, <2>2 DEF Old
  <1>4. Solo /\ "abandoned" \notin past
    BY DEF Spared, Solo
  <1>5. CASE AtRest
    <2>1. Placed(None) /\ Idle(None)
      BY <1>4, <1>5 DEF DInv, Orderly, Good, Idle
    <2> QED BY <1>2, <2>1
  <1>6. CASE ~AtRest
    <2>1. PICK q \in Requests : req[q] # None
      BY <1>6 DEF AtRest
    <2>2. PICK x : x = req[q]
      OBVIOUS
    <2>3. x \in Request /\ Placed(x)
      BY <1>4, <2>1, <2>2 DEF IInv, TypeOK, DInv, Orderly, Good
    <2>4. ~Idle(x) => x \in DeployRequest
      BY <2>3, KindTells DEF Idle
    <2> QED BY <1>2, <1>3, <2>3, <2>4
  <1> QED BY <1>5, <1>6

(* Unless two requests overlapped or a crash or a failed cleanup left      *)
(* containers behind, one container at most answers to the alias of the    *)
(* project, so a deployment is checked against its own manifest.           *)
THEOREM AnswersAlone == Spec => []OneAnswers
  <1>1. IInv /\ DInv => OneAnswers
    <2> SUFFICES ASSUME IInv, DInv, Spared({"overlap", "abandoned"})
                 PROVE  Cardinality(Running) <= 1
      BY DEF OneAnswers
    <2>1. CASE Running = {}
      BY <2>1, FS_EmptySet
    <2>2. CASE Running # {}
      <3>1. PICK d \in Running : TRUE
        BY <2>2
      <3>2. Running = {d}
        BY <3>1, OneRuns
      <3>3. Cardinality({d}) = 1
        BY FS_Singleton
      <3> QED BY <3>2, <3>3
    <2> QED BY <2>1, <2>2
  <1> QED BY <1>1, Order, PTL

(* With no request under way, a runtime reported healthy runs, though      *)
(* installs and rollbacks fail at any step: the previous container is put  *)
(* back.                                                                   *)
THEOREM ReportedHealthyRuns == Spec => []HealthyRuns
  <1>1. DInv => HealthyRuns
    BY DEF DInv, Orderly, Solo, Good, Healthy, Idle, Spared, ReportedRuns, HealthyRuns
  <1> QED BY <1>1, Order, PTL

(* As long as nothing went amiss, what is registered at rest is the        *)
(* manifest and the runtime of the active deployment, after installs and   *)
(* rollbacks alike.                                                        *)
THEOREM RegistersActive == Spec => []RegisteredIsActive
  <1>1. DInv => RegisteredIsActive
    BY DEF DInv, Orderly, Solo, Good, Registered, Idle, ActiveIsRegistered, RegisteredIsActive
  <1> QED BY <1>1, Order, PTL
=============================================================================
