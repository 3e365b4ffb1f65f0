------------------------ MODULE ComposeInstallProofs ------------------------
(***************************************************************************)
(* What an administrator did not approve never runs, for every set of      *)
(* applications, services, packages, offers and requests.  A container is  *)
(* started by ComposeUp alone, several steps after the approval; the       *)
(* invariant says of every request under way what it has established when  *)
(* it gets there: its entry is a confirmed one, the policy has passed its  *)
(* package, and its application's token file is there.  That survives the  *)
(* steps of all other requests because confirmations and token files only  *)
(* accumulate and the entry is the one that was read.  A second invariant, *)
(* of the requests that nothing overlaps (Undisturbed), shows that such an *)
(* installation ends with what its entry offered.                          *)
(***************************************************************************)
EXTENDS ComposeInstall, TLAPS

(* What a request has established when it reaches a step. *)
Sound(x) ==
    /\ x.step \in {"managed", "approve", "stage", "unpack", "policy", "token", "up", "row"}
         => x.kind = "compose"
    /\ x.step = "install" => x.kind \in {"compose", "external"}
    /\ x.kind = "external" => x.entry # None
    /\ x.kind = "compose" => /\ x.entry # None /\ x.entry.plan # None
                             /\ x.entry.plan.package # None
                             /\ <<x.app, x.entry>> \in confirmed
    /\ x.step \in {"token", "up"} => x.entry.plan.package \notin Refused
    /\ x.step = "up" => token[x.app] # "absent"

TasksSound == \A q \in Requests : task[q] # None => Sound(task[q])

(* What a request that nothing has overlapped finds when it reaches a step *)
(* at the end of an installation: what it has done is still there.         *)
Deployed(x) ==
    LET plan == x.entry.plan IN
    /\ x.kind = "compose" /\ x.step \in {"fetch", "install", "row", "end"}
         => container[plan.service] = [package |-> plan.package, running |-> TRUE]
    /\ x.kind = "compose" /\ x.step \in {"install", "row", "end"}
         => AppOf[plan.package] = x.app /\ ManifestOf[plan.package] = x.entry.manifest
    /\ x.step \in {"row", "end"} => installed[x.app] = x.entry.manifest
    /\ x.kind = "compose" /\ x.step = "end"
         => row[x.app] = [service |-> plan.service, package |-> plan.package]

Undisturbed ==
    \A q \in Requests : task[q] # None /\ task[q].alone =>
      Deployed(task[q]) /\ \A p \in Requests : p # q => task[p] = None

IInv == TypeOK /\ TasksSound /\ RuntimesWereApproved /\ Undisturbed

-----------------------------------------------------------------------------
(* Requests *)

LEMMA TaskFields ==
    ASSUME NoneIsNothing, NEW x \in Task
    PROVE  /\ x # None /\ x.step \in Steps /\ x.app \in Apps
           /\ x.kind \in {"compose", "external", "uninstall", "stop"}
           /\ x.entry \in Entry \cup {None} /\ x.row \in Row \cup {None}
  BY DEF Task, NoneIsNothing

LEMMA EntryFields ==
    ASSUME NoneIsNothing, NEW x \in Entry
    PROVE  /\ x # None /\ x.manifest \in Manifests /\ x.manifest # None
           /\ x.plan \in Plan \cup {None}
           /\ x.plan # None => /\ x.plan.service \in Services
                               /\ x.plan.package \in Packages \cup {None}
                               /\ x.plan = [service |-> x.plan.service,
                                            package |-> x.plan.package]
  BY DEF Entry, Plan, NoneIsNothing

(* A sound compose request's plan is of the kind that can be carried out. *)
LEMMA ComposePlan ==
    ASSUME NoneIsNothing, NEW x \in Task, Sound(x), x.kind = "compose"
    PROVE  /\ x.entry \in Entry /\ x.entry.plan.service \in Services
           /\ x.entry.plan.package \in Packages
           /\ x.entry.plan = [service |-> x.entry.plan.service,
                              package |-> x.entry.plan.package]
  BY TaskFields, EntryFields DEF Sound

(* A request whose task is untouched, or only found to be overlapped. *)
Kept(p) ==
    \/ task'[p] = None
    \/ /\ task[p] # None
       /\ task'[p].step = task[p].step /\ task'[p].kind = task[p].kind
       /\ task'[p].app = task[p].app /\ task'[p].entry = task[p].entry

LEMMA KeptSound ==
    ASSUME NEW p \in Requests, Kept(p), TasksSound, confirmed \subseteq confirmed',
           \A a \in Apps : token[a] # "absent" => token'[a] # "absent",
           task[p] # None => task[p].app \in Apps
    PROVE  task'[p] # None => Sound(task[p])'
  BY DEF Kept, TasksSound, Sound

LEMMA GotoTyped ==
    ASSUME NoneIsNothing, NEW q \in Requests, task[q] # None, NEW s \in Steps,
           task \in [Requests -> Task \cup {None}], Goto(q, s)
    PROVE  /\ task' \in [Requests -> Task \cup {None}]
           /\ task'[q].step = s /\ task'[q].kind = task[q].kind /\ task'[q].app = task[q].app
           /\ task'[q].entry = task[q].entry /\ task'[q].alone = task[q].alone
           /\ \A p \in Requests : p # q => task'[p] = task[p]
  <1>1. task[q] \in Task
    OBVIOUS
  <1>2. [task[q] EXCEPT !.step = s] \in Task
    BY <1>1 DEF Task
  <1>3. task'[q] = [task[q] EXCEPT !.step = s]
    BY DEF Goto
  <1> QED BY <1>1, <1>2, <1>3 DEF Goto, Task

LEMMA EndTyped ==
    ASSUME NEW q \in Requests, task \in [Requests -> Task \cup {None}], End(q)
    PROVE  /\ task' \in [Requests -> Task \cup {None}] /\ task'[q] = None
           /\ \A p \in Requests : p # q => task'[p] = task[p]
  BY DEF End

LEMMA BeginTyped ==
    ASSUME NoneIsNothing, TypeOK, NEW q \in Requests, NEW a \in Apps, NEW s \in Steps,
           NEW k \in {"compose", "external", "uninstall", "stop"}, Begin(q, k, s, a)
    PROVE  /\ task' \in [Requests -> Task \cup {None}]
           /\ task'[q].step = s /\ task'[q].kind = k /\ task'[q].app = a
           /\ task'[q].entry = entry[a]
           /\ \A p \in Requests : p # q => Kept(p)
  <1> USE DEF TypeOK
  <1> DEFINE new == [kind |-> k, step |-> s, app |-> a, entry |-> entry[a], row |-> row[a],
                     alone |-> \A o \in Requests : task[o] = None]
  <1>1. new \in Task
    <2>1. (\A o \in Requests : task[o] = None) \in BOOLEAN
      OBVIOUS
    <2>2. entry[a] \in Entry \cup {None} /\ row[a] \in Row \cup {None}
      OBVIOUS
    <2> QED BY <2>1, <2>2 DEF Task
  <1>2. task'[q] = new
    BY DEF Begin
  <1>3. ASSUME NEW p \in Requests, p # q
        PROVE  task'[p] \in Task \cup {None} /\ Kept(p)
    <2>1. CASE task[p] = None
      BY <1>3, <2>1 DEF Begin, Kept
    <2>2. CASE task[p] # None
      <3>1. task[p] \in Task /\ task'[p] = [task[p] EXCEPT !.alone = FALSE]
        BY <1>3, <2>2 DEF Begin
      <3> QED BY <2>2, <3>1 DEF Task, Kept
    <2> QED BY <2>1, <2>2
  <1>4. task' = [p \in Requests |-> task'[p]]
    BY DEF Begin
  <1>5. task' \in [Requests -> Task \cup {None}]
    <2>1. \A p \in Requests : task'[p] \in Task \cup {None}
      BY <1>1, <1>2, <1>3
    <2> QED BY <1>4, <2>1
  <1> QED BY <1>2, <1>3, <1>5

-----------------------------------------------------------------------------
(* What only grows *)

LEMMA ConfirmedGrows == ASSUME [Next]_vars PROVE confirmed \subseteq confirmed'
  BY DEF Next, vars, RequestVars, StoreEntry, ServeManifest, Review, ExpireToken, RotateToken,
         StartComposeInstall, StartRuntimeUpdate, StartCompose, StartExternalInstall, StartStop,
         StartUninstall, Begin, StagePackage, FindManagedRuntime, RecordApproval, UnpackPackage,
         ValidateComposePolicy, DeliverToken, ComposeUp, FetchFromRuntime, FetchFromBaseUrl,
         InstallFetchedApp, UpsertRuntimeInstallation, Answer, RequestFails, StopRuntime,
         RemoveRuntime, UninstallApp

LEMMA TokensStay ==
    ASSUME TypeOK, [Next]_vars
    PROVE  \A a \in Apps : token[a] # "absent" => token'[a] # "absent"
  <1>1. \/ UNCHANGED token
        \/ \E a \in Apps : ExpireToken(a) \/ RotateToken(a)
        \/ \E q \in Requests : DeliverToken(q)
    BY DEF Next, vars, RequestVars, StoreEntry, ServeManifest, Review,
         StartComposeInstall, StartRuntimeUpdate, StartCompose, StartExternalInstall, StartStop,
         StartUninstall, Begin, StagePackage, FindManagedRuntime, RecordApproval, UnpackPackage,
         ValidateComposePolicy, ComposeUp, FetchFromRuntime, FetchFromBaseUrl,
         InstallFetchedApp, UpsertRuntimeInstallation, Answer, RequestFails, StopRuntime,
         RemoveRuntime, UninstallApp
  <1> QED BY <1>1 DEF TypeOK, ExpireToken, RotateToken, DeliverToken

-----------------------------------------------------------------------------
(* Beginnings *)

(* Every beginning is of a request that is sound at its first step. *)
LEMMA BeginSound ==
    ASSUME NoneIsNothing, TypeOK, TasksSound, [Next]_vars, NEW q \in Requests, NEW a \in Apps,
           NEW s \in {"managed", "approve", "fetch", "stop", "delete", "remove"},
           NEW k \in {"compose", "external", "uninstall", "stop"}, Begin(q, k, s, a),
           s \in {"managed", "approve"} => k = "compose",
           k = "external" => entry[a] # None,
           k = "compose" => /\ entry[a] # None /\ entry[a].plan # None
                            /\ entry[a].plan.package # None /\ <<a, entry[a]>> \in confirmed
    PROVE  task' \in [Requests -> Task \cup {None}] /\ TasksSound'
  <1>1. s \in Steps
    BY DEF Steps
  <1>2. Sound(task[q])'
    BY <1>1, BeginTyped, ConfirmedGrows DEF Sound
  <1>3. ASSUME NEW p \in Requests, p # q PROVE task'[p] # None => Sound(task[p])'
    <2>1. task[p] # None => task[p].app \in Apps
      BY TaskFields DEF TypeOK
    <2> QED BY <1>1, <1>3, <2>1, BeginTyped, KeptSound, ConfirmedGrows, TokensStay
  <1> QED BY <1>1, <1>2, <1>3, BeginTyped DEF TasksSound

(* The entry that StartCompose reads is the confirmed one. *)
LEMMA StartSound ==
    ASSUME NoneIsNothing, TypeOK, TasksSound, [Next]_vars, NEW q \in Requests, NEW a \in Apps,
           \/ \E c \in confirmed :
                c[1] = a /\ (StartComposeInstall(q, a, c[2]) \/ StartRuntimeUpdate(q, a, c[2]))
           \/ StartExternalInstall(q, a) \/ StartStop(q, a) \/ StartUninstall(q, a)
    PROVE  /\ task' \in [Requests -> Task \cup {None}] /\ TasksSound'
           /\ UNCHANGED <<RequestVars, token, container, row, installed>>
           /\ changes' = changes + 1 /\ changes < MaxChanges
  <1>1. ASSUME NEW c \in confirmed, c[1] = a, NEW s \in {"managed", "approve"},
               StartCompose(q, a, c[2], s)
        PROVE  task' \in [Requests -> Task \cup {None}] /\ TasksSound'
    <2>1. c = <<a, entry[a]>>
      BY <1>1 DEF StartCompose, ApprovalIsCurrent, TypeOK
    <2>2. entry[a].plan.package # None
      BY <1>1 DEF StartCompose, ApprovalIsCurrent
    <2> QED BY <1>1, <2>1, <2>2, BeginSound DEF StartCompose
  <1>2. ASSUME StartExternalInstall(q, a)
        PROVE  task' \in [Requests -> Task \cup {None}] /\ TasksSound'
    BY <1>2, BeginSound DEF StartExternalInstall
  <1>3. ASSUME StartStop(q, a)
        PROVE  task' \in [Requests -> Task \cup {None}] /\ TasksSound'
    BY <1>3, BeginSound DEF StartStop
  <1>4. ASSUME StartUninstall(q, a)
        PROVE  task' \in [Requests -> Task \cup {None}] /\ TasksSound'
    BY <1>4, BeginSound DEF StartUninstall
  <1>5. /\ UNCHANGED <<RequestVars, token, container, row, installed>>
        /\ changes' = changes + 1 /\ changes < MaxChanges
    BY DEF StartComposeInstall, StartRuntimeUpdate, StartCompose, StartExternalInstall,
           StartStop, StartUninstall, Begin, Change
  <1> QED
    BY <1>1, <1>2, <1>3, <1>4, <1>5 DEF StartComposeInstall, StartRuntimeUpdate

-----------------------------------------------------------------------------
(* Steps *)

(* The steps of a request that is under way. *)
TaskStep(q) ==
    \/ \E p \in Packages : StagePackage(q, p)
    \/ FindManagedRuntime(q) \/ RecordApproval(q) \/ UnpackPackage(q)
    \/ ValidateComposePolicy(q) \/ DeliverToken(q) \/ ComposeUp(q)
    \/ FetchFromRuntime(q) \/ FetchFromBaseUrl(q) \/ InstallFetchedApp(q)
    \/ UpsertRuntimeInstallation(q) \/ Answer(q) \/ RequestFails(q)
    \/ StopRuntime(q) \/ RemoveRuntime(q) \/ UninstallApp(q)

(* A request goes on to a step that follows the one it is at, and has      *)
(* established what that one presupposes.                                  *)
LEMMA StepSound ==
    ASSUME NoneIsNothing, TypeOK, TasksSound, [Next]_vars, NEW q \in Requests, TaskStep(q)
    PROVE  task' \in [Requests -> Task \cup {None}] /\ TasksSound'
  <1> USE DEF TypeOK
  <1>0. task[q] # None /\ task[q] \in Task /\ task[q].app \in Apps /\ Sound(task[q])
    <2>1. task[q] # None
      BY DEF TaskStep, At, StagePackage, FindManagedRuntime, RecordApproval, UnpackPackage,
             ValidateComposePolicy, DeliverToken, ComposeUp, FetchFromRuntime, FetchFromBaseUrl,
             InstallFetchedApp, UpsertRuntimeInstallation, Answer, RequestFails, StopRuntime,
             RemoveRuntime, UninstallApp
    <2> QED BY <2>1, TaskFields DEF TasksSound
  <1>1. ASSUME \A p \in Requests : p # q => task'[p] = task[p]
        PROVE  \A p \in Requests : p # q => (task'[p] # None => Sound(task[p])')
    <2> SUFFICES ASSUME NEW p \in Requests, p # q PROVE task'[p] # None => Sound(task[p])'
      OBVIOUS
    <2>1. task[p] # None => task[p].app \in Apps
      BY TaskFields
    <2>2. Kept(p)
      BY <1>1 DEF Kept
    <2> QED BY <2>1, <2>2, KeptSound, ConfirmedGrows, TokensStay
  <1>2. CASE End(q)
    BY <1>1, <1>2, EndTyped DEF TasksSound
  <1>3. ASSUME NEW s \in Steps, Goto(q, s),
               s \in {"approve", "stage", "unpack", "policy", "token", "up", "row"}
                 => task[q].kind = "compose",
               s = "install" => task[q].kind \in {"compose", "external"},
               s # "managed",
               s = "token" => task[q].entry.plan.package \notin Refused,
               s = "up" => task[q].step = "token" /\ token'[task[q].app] # "absent"
        PROVE  task' \in [Requests -> Task \cup {None}] /\ TasksSound'
    <2>1. /\ task' \in [Requests -> Task \cup {None}]
          /\ \A p \in Requests : p # q => task'[p] = task[p]
      BY <1>0, <1>3, GotoTyped
    <2>2. /\ task'[q].step = s /\ task'[q].kind = task[q].kind /\ task'[q].app = task[q].app
          /\ task'[q].entry = task[q].entry
      BY <1>0, <1>3, GotoTyped
    <2>3. Sound(task[q])'
      BY <1>0, <1>3, <2>2, ConfirmedGrows DEF Sound
    <2> QED BY <1>1, <2>1, <2>3 DEF TasksSound
  <1>4. CASE StopRuntime(q) \/ Answer(q) \/ RequestFails(q) \/ UninstallApp(q)
    BY <1>2, <1>4 DEF StopRuntime, Answer, RequestFails, UninstallApp
  <1>5. CASE \E p \in Packages : StagePackage(q, p)
    BY <1>0, <1>3, <1>5 DEF StagePackage, At, Steps, Sound
  <1>6. CASE FindManagedRuntime(q)
    BY <1>0, <1>2, <1>3, <1>6 DEF FindManagedRuntime, At, Steps, Sound
  <1>7. CASE RecordApproval(q) \/ UnpackPackage(q)
    BY <1>0, <1>3, <1>7 DEF RecordApproval, UnpackPackage, At, Steps, Sound
  <1>8. CASE ValidateComposePolicy(q)
    BY <1>0, <1>2, <1>3, <1>8 DEF ValidateComposePolicy, At, Steps, Sound
  <1>9. CASE DeliverToken(q)
    <2>1. task[q].step = "token" /\ task[q].kind = "compose" /\ token'[task[q].app] = "valid"
      BY <1>0, <1>9 DEF DeliverToken, At, Sound
    <2> QED BY <1>3, <1>9, <2>1 DEF DeliverToken, Steps
  <1>10. CASE ComposeUp(q)
    BY <1>2, <1>3, <1>10 DEF ComposeUp, Steps
  <1>11. CASE FetchFromRuntime(q) \/ FetchFromBaseUrl(q)
    BY <1>2, <1>3, <1>11 DEF FetchFromRuntime, FetchFromBaseUrl, Steps
  <1>12. CASE InstallFetchedApp(q)
    BY <1>3, <1>12 DEF InstallFetchedApp, Steps
  <1>13. CASE UpsertRuntimeInstallation(q)
    BY <1>2, <1>3, <1>13 DEF UpsertRuntimeInstallation, Steps
  <1>14. CASE RemoveRuntime(q)
    BY <1>3, <1>14 DEF RemoveRuntime, Steps
  <1> QED
    BY <1>4, <1>5, <1>6, <1>7, <1>8, <1>9, <1>10, <1>11, <1>12, <1>13, <1>14 DEF TaskStep

LEMMA TaskChanges ==
    ASSUME NoneIsNothing, TypeOK, TasksSound, [Next]_vars
    PROVE  task' \in [Requests -> Task \cup {None}] /\ TasksSound'
  <1> DEFINE Goal == task' \in [Requests -> Task \cup {None}] /\ TasksSound'
  <1>1. ASSUME UNCHANGED task PROVE Goal
    <2>1. \A p \in Requests : task[p] # None => task[p].app \in Apps
      BY TaskFields DEF TypeOK
    <2>2. \A p \in Requests : Kept(p)
      BY <1>1 DEF Kept
    <2> QED BY <1>1, <2>1, <2>2, KeptSound, ConfirmedGrows, TokensStay DEF TypeOK, TasksSound
  <1>2. ASSUME NEW a \in Apps,
               \/ \E e \in Entry \cup {None} : StoreEntry(a, e)
               \/ \E m \in Manifests : ServeManifest(a, m)
               \/ Review(a) \/ ExpireToken(a) \/ RotateToken(a)
        PROVE  Goal
    BY <1>1, <1>2 DEF StoreEntry, ServeManifest, Review, ExpireToken, RotateToken, RequestVars
  <1> HIDE DEF Goal
  <1>3. ASSUME NEW q \in Requests, NEW a \in Apps,
               \/ \E c \in confirmed :
                    /\ c[1] = a
                    /\ StartComposeInstall(q, a, c[2]) \/ StartRuntimeUpdate(q, a, c[2])
               \/ StartExternalInstall(q, a) \/ StartStop(q, a) \/ StartUninstall(q, a)
        PROVE  Goal
    BY <1>3, StartSound DEF Goal
  <1>4. ASSUME NEW q \in Requests, TaskStep(q) PROVE Goal
    BY <1>4, StepSound DEF Goal
  <1>5. ASSUME UNCHANGED vars PROVE Goal
    BY <1>1, <1>5 DEF vars
  <1>6. ASSUME Next PROVE Goal
    BY <1>2, <1>3, <1>4, <1>6 DEF Next, TaskStep
  <1> QED BY <1>5, <1>6 DEF Goal

-----------------------------------------------------------------------------
(* Types *)

LEMMA TypeInit == NoneIsNothing /\ MaxChanges \in Nat /\ Init => TypeOK
  BY DEF Init, TypeOK

LEMMA TypeStep ==
    ASSUME NoneIsNothing, OffersAssumption, MaxChanges \in Nat, TypeOK, TasksSound, [Next]_vars
    PROVE  TypeOK'
  <1> USE DEF TypeOK
  <1>0. task' \in [Requests -> Task \cup {None}]
    BY TaskChanges
  <1>7. ASSUME NEW a \in Apps, NEW e \in Entry \cup {None}, StoreEntry(a, e) PROVE TypeOK'
    BY <1>0, <1>7 DEF StoreEntry, Change
  <1>8. ASSUME NEW a \in Apps, NEW m \in Manifests, ServeManifest(a, m) PROVE TypeOK'
    BY <1>0, <1>8 DEF ServeManifest, Change
  <1>2. ASSUME NEW a \in Apps, Review(a) PROVE TypeOK'
    BY <1>0, <1>2 DEF Review
  <1>3. ASSUME NEW a \in Apps, ExpireToken(a) \/ RotateToken(a) PROVE TypeOK'
    BY <1>0, <1>3 DEF ExpireToken, RotateToken, RequestVars, Change
  <1>4. ASSUME NEW q \in Requests, NEW a \in Apps,
               \/ \E c \in confirmed :
                    /\ c[1] = a
                    /\ StartComposeInstall(q, a, c[2]) \/ StartRuntimeUpdate(q, a, c[2])
               \/ StartExternalInstall(q, a) \/ StartStop(q, a) \/ StartUninstall(q, a)
        PROVE  TypeOK'
    BY <1>0, <1>4, StartSound DEF RequestVars
  <1>5. ASSUME NEW q \in Requests, TaskStep(q) PROVE TypeOK'
    <2>0. task[q] # None => task[q] \in Task /\ task[q].app \in Apps /\ Sound(task[q])
      BY TaskFields DEF TasksSound
    <2>1. CASE UNCHANGED <<RequestVars, token, container, row, installed, changes>>
      BY <1>0, <2>1 DEF RequestVars
    <2>2. CASE DeliverToken(q)
      BY <1>0, <2>2 DEF DeliverToken, RequestVars
    <2>3. CASE ComposeUp(q)
      <3>1. task[q].entry.plan.package \in Packages
        BY <2>0, <2>3, ComposePlan DEF ComposeUp, At, Sound
      <3> QED BY <1>0, <2>3, <3>1 DEF ComposeUp, Replaced, RequestVars, Container
    <2>4. CASE InstallFetchedApp(q)
      <3>1. task[q].entry.manifest \in Manifests /\ task[q].entry.manifest # None
        BY <2>0, <2>4, TaskFields, EntryFields DEF InstallFetchedApp, At, Sound
      <3> QED BY <1>0, <2>4, <3>1 DEF InstallFetchedApp, RequestVars
    <2>5. CASE UpsertRuntimeInstallation(q)
      <3>1. task[q].entry.plan.service \in Services /\ task[q].entry.plan.package \in Packages
        BY <2>0, <2>5, ComposePlan DEF UpsertRuntimeInstallation, At, Sound
      <3> QED BY <1>0, <2>5, <3>1 DEF UpsertRuntimeInstallation, RequestVars, Row
    <2>6. CASE StopRuntime(q)
      <3>1. ASSUME NEW c \in Container PROVE [c EXCEPT !.running = FALSE] \in Container
        BY <3>1 DEF Container
      <3>2. ASSUME NEW s \in Services PROVE container'[s] \in Container \cup {None}
        <4>1. container[s] \in Container \cup {None}
          OBVIOUS
        <4>2. \/ container'[s] \in {container[s], None}
              \/ container[s] # None /\ container'[s] = [container[s] EXCEPT !.running = FALSE]
          BY <2>6 DEF StopRuntime
        <4> QED BY <3>1, <4>1, <4>2
      <3>3. container' \in [Services -> Container \cup {None}]
        BY <2>6, <3>2 DEF StopRuntime
      <3> QED BY <1>0, <2>6, <3>3 DEF StopRuntime, RequestVars
    <2>7. CASE RemoveRuntime(q)
      BY <1>0, <2>7 DEF RemoveRuntime, RequestVars
    <2>8. CASE UninstallApp(q)
      BY <1>0, <2>8 DEF UninstallApp, RequestVars
    <2> QED
      BY <1>5, <2>1, <2>2, <2>3, <2>4, <2>5, <2>6, <2>7, <2>8
      DEF TaskStep, StagePackage, FindManagedRuntime, RecordApproval, UnpackPackage,
          ValidateComposePolicy, FetchFromRuntime, FetchFromBaseUrl, Answer, RequestFails
  <1>6. CASE UNCHANGED vars
    BY <1>6 DEF vars
  <1> QED BY <1>2, <1>3, <1>4, <1>5, <1>6, <1>7, <1>8 DEF Next, TaskStep

-----------------------------------------------------------------------------
(* Approvals *)

(* A request's plan was approved for its application. *)
LEMMA PlanApproved ==
    ASSUME NoneIsNothing, NEW x \in Task, Sound(x), x.kind = "compose"
    PROVE  Approved(x.app, x.entry.plan.service, x.entry.plan.package)
  <1>1. <<x.app, x.entry>> \in confirmed
    BY DEF Sound
  <1> QED BY <1>1, ComposePlan DEF Approved

LEMMA ContainerChanges ==
    ASSUME [Next]_vars
    PROVE  \/ UNCHANGED container
           \/ \E q \in Requests : ComposeUp(q) \/ StopRuntime(q) \/ RemoveRuntime(q)
  BY DEF Next, vars, RequestVars, StoreEntry, ServeManifest, Review, ExpireToken, RotateToken,
         StartComposeInstall, StartRuntimeUpdate, StartCompose, StartExternalInstall, StartStop,
         StartUninstall, Begin, StagePackage, FindManagedRuntime, RecordApproval, UnpackPackage,
         ValidateComposePolicy, DeliverToken, FetchFromRuntime, FetchFromBaseUrl,
         InstallFetchedApp, UpsertRuntimeInstallation, Answer, RequestFails, UninstallApp

LEMMA RowChanges ==
    ASSUME [Next]_vars
    PROVE  \/ UNCHANGED row
           \/ \E q \in Requests : UpsertRuntimeInstallation(q) \/ UninstallApp(q)
  BY DEF Next, vars, RequestVars, StoreEntry, ServeManifest, Review, ExpireToken, RotateToken,
         StartComposeInstall, StartRuntimeUpdate, StartCompose, StartExternalInstall, StartStop,
         StartUninstall, Begin, StagePackage, FindManagedRuntime, RecordApproval, UnpackPackage,
         ValidateComposePolicy, DeliverToken, ComposeUp, FetchFromRuntime, FetchFromBaseUrl,
         InstallFetchedApp, Answer, RequestFails, StopRuntime, RemoveRuntime

(* The approval that a container of package p at service s stands on. *)
Stands(s, p) ==
    p \notin Refused /\ \E a \in Apps : Approved(a, s, p) /\ token[a] # "absent"

LEMMA StandsStay ==
    ASSUME TypeOK, [Next]_vars, NEW s, NEW p, Stands(s, p)
    PROVE  Stands(s, p)'
  <1>1. PICK a \in Apps, c \in confirmed :
          token[a] # "absent" /\ c[1] = a /\ c[2].plan = [service |-> s, package |-> p]
    BY DEF Stands, Approved
  <1>2. token'[a] # "absent" /\ c \in confirmed'
    BY <1>1, TokensStay, ConfirmedGrows
  <1> QED BY <1>1, <1>2 DEF Stands, Approved

LEMMA ContainersStay ==
    ASSUME NoneIsNothing, TypeOK, TasksSound, RuntimesWereApproved, [Next]_vars,
           NEW s \in Services, container'[s] # None, NEW p, p = container'[s].package
    PROVE  Stands(s, p)'
  <1> USE DEF TypeOK
  <1>1. CASE container[s] # None /\ container[s].package = p
    <2>1. Stands(s, p)
      BY <1>1 DEF RuntimesWereApproved, Stands
    <2> QED BY <2>1, StandsStay
  <1>2. ASSUME NEW q \in Requests, ComposeUp(q), s = task[q].entry.plan.service
        PROVE  Stands(s, p)'
    <2>1. /\ task[q] # None /\ task[q] \in Task /\ Sound(task[q]) /\ task[q].step = "up"
          /\ task[q].app \in Apps
      BY <1>2, TaskFields DEF ComposeUp, At, TasksSound
    <2>2. task[q].kind = "compose" /\ token[task[q].app] # "absent"
      BY <2>1 DEF Sound
    <2>3. p = task[q].entry.plan.package
      BY <1>2 DEF ComposeUp, Replaced
    <2>4. Stands(s, p)
      BY <1>2, <2>1, <2>2, <2>3, PlanApproved DEF Stands, Sound
    <2> QED BY <2>4, StandsStay
  <1>3. ASSUME NEW q \in Requests, ComposeUp(q), s # task[q].entry.plan.service
        PROVE  container'[s] = container[s]
    BY <1>3 DEF ComposeUp, Replaced
  <1>4. ASSUME NEW q \in Requests, StopRuntime(q) \/ RemoveRuntime(q)
        PROVE  container[s] # None /\ container'[s].package = container[s].package
    <2>1. CASE RemoveRuntime(q)
      BY <2>1 DEF RemoveRuntime
    <2>2. CASE StopRuntime(q)
      <3>1. \/ container'[s] = container[s]
            \/ /\ container[s] \in Container
               /\ container'[s] = [container[s] EXCEPT !.running = FALSE]
        BY <2>2 DEF StopRuntime
      <3> QED BY <3>1 DEF Container, NoneIsNothing
    <2> QED BY <1>4, <2>1, <2>2
  <1> QED BY <1>1, <1>2, <1>3, <1>4, ContainerChanges

LEMMA RowsStay ==
    ASSUME NoneIsNothing, TypeOK, TasksSound, RuntimesWereApproved, [Next]_vars,
           NEW a \in Apps, NEW r, r = row'[a], r # None
    PROVE  Approved(a, r.service, r.package)'
  <1> USE DEF TypeOK
  <1>1. CASE r = row[a]
    <2>1. Approved(a, r.service, r.package)
      BY <1>1 DEF RuntimesWereApproved
    <2> QED BY <2>1, ConfirmedGrows DEF Approved
  <1>2. ASSUME NEW q \in Requests, UpsertRuntimeInstallation(q), r # row[a]
        PROVE  Approved(a, r.service, r.package)'
    <2>1. /\ task[q] # None /\ task[q] \in Task /\ Sound(task[q]) /\ task[q].kind = "compose"
      BY <1>2 DEF UpsertRuntimeInstallation, At, TasksSound, Sound
    <2>2. /\ task[q].app = a
          /\ r = [service |-> task[q].entry.plan.service, package |-> task[q].entry.plan.package]
      BY <1>2 DEF UpsertRuntimeInstallation
    <2>3. Approved(a, r.service, r.package)
      BY <2>1, <2>2, PlanApproved
    <2> QED BY <2>3, ConfirmedGrows DEF Approved
  <1>3. ASSUME NEW q \in Requests, UninstallApp(q) PROVE r = row[a]
    BY <1>3 DEF UninstallApp
  <1> QED BY <1>1, <1>2, <1>3, RowChanges

-----------------------------------------------------------------------------
(* Requests that nothing overlaps *)

(* A beginning ends the solitude of every request under way. *)
LEMMA BeginAlone ==
    ASSUME NoneIsNothing, TypeOK, NEW q \in Requests, NEW a \in Apps,
           NEW s \in {"managed", "approve", "fetch", "stop", "delete", "remove"},
           NEW k \in {"compose", "external", "uninstall", "stop"}, Begin(q, k, s, a),
           k = "compose" => s # "fetch"
    PROVE  Undisturbed'
  <1> SUFFICES ASSUME NEW p \in Requests, task'[p] # None, task'[p].alone
               PROVE  Deployed(task[p])' /\ \A o \in Requests : o # p => task'[o] = None
    BY DEF Undisturbed
  <1>1. p = q
    <2> SUFFICES ASSUME p # q PROVE FALSE
      OBVIOUS
    <2>1. task[p] # None /\ task[p] \in Task /\ task'[p] = [task[p] EXCEPT !.alone = FALSE]
      BY DEF Begin, TypeOK
    <2> QED BY <2>1 DEF Task
  <1>2. /\ task'[q].kind = k /\ task'[q].step = s
        /\ task'[q].alone = (\A o \in Requests : task[o] = None)
    BY DEF Begin
  <1>3. \A o \in Requests : o # q => task'[o] = None
    BY <1>1, <1>2 DEF Begin
  <1>4. Deployed(task[q])'
    BY <1>2 DEF Deployed
  <1> QED BY <1>1, <1>3, <1>4

LEMMA StepAlone ==
    ASSUME NoneIsNothing, TypeOK, TasksSound, Undisturbed, NEW q \in Requests, TaskStep(q)
    PROVE  Undisturbed'
  <1> USE DEF TypeOK
  <1>0. task[q] # None /\ task[q] \in Task /\ Sound(task[q]) /\ task[q].app \in Apps
    <2>1. task[q] # None
      BY DEF TaskStep, At, StagePackage, FindManagedRuntime, RecordApproval, UnpackPackage,
             ValidateComposePolicy, DeliverToken, ComposeUp, FetchFromRuntime, FetchFromBaseUrl,
             InstallFetchedApp, UpsertRuntimeInstallation, Answer, RequestFails, StopRuntime,
             RemoveRuntime, UninstallApp
    <2> QED BY <2>1, TaskFields DEF TasksSound
  <1>1. ASSUME End(q) PROVE Undisturbed'
    <2>1. \A p \in Requests : p # q => ~(task[p] # None /\ task[p].alone)
      BY <1>0 DEF Undisturbed
    <2> QED BY <1>1, <2>1, EndTyped DEF Undisturbed
  <1>x. PICK x \in Task : x = task[q]
    BY <1>0
  <1>2. ASSUME NEW s \in Steps, Goto(q, s),
               x.alone => Deployed([x EXCEPT !.step = s])'
        PROVE  Undisturbed'
    <2>1. /\ task'[q] = [task[q] EXCEPT !.step = s] /\ task'[q].alone = task[q].alone
          /\ \A p \in Requests : p # q => task'[p] = task[p]
      BY <1>0, <1>2, GotoTyped DEF Goto
    <2>2. \A p \in Requests : p # q => ~(task[p] # None /\ task[p].alone)
      BY <1>0 DEF Undisturbed
    <2>3. task[q].alone => Deployed(task[q])'
      BY <1>x, <1>2, <2>1 DEF Deployed
    <2>4. task[q].alone => \A p \in Requests : p # q => task[p] = None
      BY <1>0 DEF Undisturbed
    <2> QED BY <2>1, <2>2, <2>3, <2>4 DEF Undisturbed
  <1>3. ASSUME NEW s \in Steps
        PROVE  LET y == [x EXCEPT !.step = s] IN
               y.step = s /\ y.kind = x.kind /\ y.app = x.app /\ y.entry = x.entry
    BY DEF Task
  <1>4. x.alone => Deployed(x)
    BY <1>0, <1>x, <1>x DEF Undisturbed
  <1>5. CASE StopRuntime(q) \/ Answer(q) \/ RequestFails(q) \/ UninstallApp(q)
    BY <1>1, <1>5 DEF StopRuntime, Answer, RequestFails, UninstallApp
  <1>6. ASSUME NEW s \in {"approve", "stage", "unpack", "policy", "token", "up", "delete"},
               Goto(q, s)
        PROVE  Undisturbed'
    <2>1. s \in Steps
      BY DEF Steps
    <2>2. Deployed([x EXCEPT !.step = s])'
      BY <1>3, <2>1 DEF Deployed
    <2> QED BY <1>2, <1>6, <2>1, <2>2
  <1>7. CASE \/ \E p \in Packages : StagePackage(q, p)
             \/ FindManagedRuntime(q) \/ RecordApproval(q) \/ UnpackPackage(q)
             \/ ValidateComposePolicy(q) \/ DeliverToken(q) \/ RemoveRuntime(q)
    BY <1>1, <1>6, <1>7 DEF StagePackage, FindManagedRuntime, RecordApproval, UnpackPackage,
                            ValidateComposePolicy, DeliverToken, RemoveRuntime
  <1>8. CASE ComposeUp(q)
    <2>1. x.kind = "compose" /\ x.entry.plan.service \in Services
      BY <1>0, <1>x, <1>8, ComposePlan DEF ComposeUp, At, Sound
    <2>2. container'[x.entry.plan.service]
            = [package |-> x.entry.plan.package, running |-> TRUE]
      BY <1>x, <1>8, <2>1 DEF ComposeUp, Replaced
    <2>3. "fetch" \in Steps
      BY DEF Steps
    <2>4. Deployed([x EXCEPT !.step = "fetch"])'
      BY <1>3, <2>2, <2>3 DEF Deployed
    <2> QED BY <1>1, <1>2, <1>8, <2>3, <2>4 DEF ComposeUp
  <1>9. CASE FetchFromRuntime(q)
    <2>1. "install" \in Steps
      BY DEF Steps
    <2>2. /\ x.step = "fetch" /\ x.kind = "compose"
          /\ UNCHANGED <<container, row, installed>>
      BY <1>x, <1>9 DEF FetchFromRuntime, At
    <2>3. ASSUME Goto(q, "install"), x.alone
          PROVE  Deployed([x EXCEPT !.step = "install"])'
      <3>1. container[x.entry.plan.service]
              = [package |-> x.entry.plan.package, running |-> TRUE]
        BY <1>4, <2>2, <2>3 DEF Deployed
      <3>2. ~End(q)
        <4>1. task' \in [Requests -> Task \cup {None}] /\ task'[q].step = "install"
          BY <1>0, <2>1, <2>3, GotoTyped
        <4>2. task'[q] = [x EXCEPT !.step = "install"]
          BY <1>0, <1>x, <2>3 DEF Goto
        <4>3. [x EXCEPT !.step = "install"] \in Task
          BY <2>1 DEF Task
        <4>4. task'[q] # None
          BY <4>2, <4>3, TaskFields
        <4> QED BY <4>4, EndTyped
      <3>3. LET c == container[x.entry.plan.service] IN
            AppOf[c.package] = x.app /\ ManifestOf[c.package] = x.entry.manifest
        BY <1>x, <1>9, <3>2 DEF FetchFromRuntime
      <3> QED BY <1>3, <2>1, <2>2, <3>1, <3>3 DEF Deployed
    <2> QED BY <1>1, <1>2, <1>9, <2>1, <2>3 DEF FetchFromRuntime
  <1>10. CASE FetchFromBaseUrl(q)
    <2>1. "install" \in Steps
      BY DEF Steps
    <2>2. Deployed([x EXCEPT !.step = "install"])'
      BY <1>x, <1>3, <1>10, <2>1 DEF FetchFromBaseUrl, Deployed
    <2> QED BY <1>1, <1>2, <1>10, <2>1, <2>2 DEF FetchFromBaseUrl
  <1>11. CASE InstallFetchedApp(q)
    <2> DEFINE s == IF x.kind = "compose" THEN "row" ELSE "end"
    <2>1. s \in Steps
      BY DEF Steps
    <2>2. /\ x.step = "install" /\ Goto(q, s) /\ UNCHANGED <<container, row>>
          /\ installed'[x.app] = x.entry.manifest
      BY <1>0, <1>x, <1>11 DEF InstallFetchedApp, At
    <2>3. x.alone => Deployed([x EXCEPT !.step = s])'
      BY <1>3, <1>4, <2>1, <2>2 DEF Deployed
    <2> QED BY <1>2, <2>1, <2>2, <2>3
  <1>12. CASE UpsertRuntimeInstallation(q)
    <2>1. "end" \in Steps
      BY DEF Steps
    <2>2. ASSUME row' = [row EXCEPT ![x.app] = [service |-> x.entry.plan.service,
                                                      package |-> x.entry.plan.package]]
          PROVE  x.alone => Deployed([x EXCEPT !.step = "end"])'
      <3>1. /\ x.step = "row" /\ x.kind = "compose"
            /\ UNCHANGED <<container, installed>>
        BY <1>0, <1>x, <1>12 DEF UpsertRuntimeInstallation, At, Sound
      <3>2. row'[x.app] = [service |-> x.entry.plan.service,
                                 package |-> x.entry.plan.package]
        BY <1>0, <1>x, <2>2
      <3> QED BY <1>3, <1>4, <2>1, <3>1, <3>2 DEF Deployed
    <2> QED BY <1>x, <1>1, <1>2, <1>12, <2>1, <2>2 DEF UpsertRuntimeInstallation
  <1> QED BY <1>5, <1>7, <1>8, <1>9, <1>10, <1>11, <1>12 DEF TaskStep

LEMMA UndisturbedStep ==
    ASSUME NoneIsNothing, TypeOK, TasksSound, Undisturbed, [Next]_vars
    PROVE  Undisturbed'
  <1>1. ASSUME UNCHANGED <<task, container, row, installed>> PROVE Undisturbed'
    BY <1>1 DEF Undisturbed, Deployed
  <1>2. ASSUME NEW a \in Apps,
               \/ \E e \in Entry \cup {None} : StoreEntry(a, e)
               \/ \E m \in Manifests : ServeManifest(a, m)
               \/ Review(a) \/ ExpireToken(a) \/ RotateToken(a)
        PROVE  Undisturbed'
    BY <1>1, <1>2 DEF StoreEntry, ServeManifest, Review, ExpireToken, RotateToken, RequestVars
  <1>3. ASSUME NEW q \in Requests, NEW a \in Apps,
               \/ \E c \in confirmed :
                    /\ c[1] = a
                    /\ StartComposeInstall(q, a, c[2]) \/ StartRuntimeUpdate(q, a, c[2])
               \/ StartExternalInstall(q, a) \/ StartStop(q, a) \/ StartUninstall(q, a)
        PROVE  Undisturbed'
    BY <1>3, BeginAlone DEF StartComposeInstall, StartRuntimeUpdate, StartCompose,
                            StartExternalInstall, StartStop, StartUninstall
  <1>4. ASSUME NEW q \in Requests, TaskStep(q) PROVE Undisturbed'
    BY <1>4, StepAlone
  <1>5. CASE UNCHANGED vars
    BY <1>1, <1>5 DEF vars
  <1> QED BY <1>2, <1>3, <1>4, <1>5 DEF Next, TaskStep

-----------------------------------------------------------------------------
(* The theorems *)

Assumptions == NoneIsNothing /\ OffersAssumption /\ MaxChanges \in Nat

LEMMA IInvInit == ASSUME Assumptions, Init PROVE IInv
  BY TypeInit DEF Assumptions, IInv, Init, TasksSound, RuntimesWereApproved, Undisturbed

LEMMA IInvStep == ASSUME Assumptions, IInv, [Next]_vars PROVE IInv'
  <1>1. TypeOK' /\ TasksSound'
    BY TypeStep, TaskChanges DEF Assumptions, IInv
  <1>2. ASSUME NEW s \in Services, container'[s] # None, NEW p, p = container'[s].package
        PROVE  p \notin Refused /\ \E a \in Apps : Approved(a, s, p)' /\ token'[a] # "absent"
    BY <1>2, ContainersStay DEF Assumptions, IInv, Stands
  <1>3. ASSUME NEW a \in Apps, NEW r, r = row'[a], r # None
        PROVE  Approved(a, r.service, r.package)'
    BY <1>3, RowsStay DEF Assumptions, IInv
  <1>4. RuntimesWereApproved'
    BY <1>2, <1>3 DEF RuntimesWereApproved, Approved
  <1>5. Undisturbed'
    BY UndisturbedStep DEF Assumptions, IInv
  <1> QED BY <1>1, <1>4, <1>5 DEF IInv

LEMMA Inductive == ASSUME Assumptions PROVE Spec => []IInv
  <1>1. Init => IInv
    BY IInvInit
  <1>2. IInv /\ [Next]_vars => IInv'
    BY IInvStep
  <1> QED BY <1>1, <1>2, PTL DEF Spec

(* Entries, containers, runtimes and requests stay well-formed: what a     *)
(* request carries to its last step is still an entry with a plan.         *)
THEOREM TypeCorrect == ASSUME Assumptions PROVE Spec => []TypeOK
  BY Inductive, PTL DEF IInv

(* No container is ever started, and no runtime recorded, that was not     *)
(* approved with that package in that service: not by requests that        *)
(* overlap or fail anywhere, and not by entries that change meanwhile.     *)
THEOREM OnlyApprovedRuns == ASSUME Assumptions PROVE Spec => []RuntimesWereApproved
  BY Inductive, PTL DEF IInv

(* An installation that no other request overlapped ends with the manifest *)
(* its entry offered, and with the runtime, recorded and running, whose    *)
(* manifest it is.                                                         *)
THEOREM OfferedIsInstalled == ASSUME Assumptions PROVE Spec => []InstallsWhatWasOffered
  <1>1. IInv => InstallsWhatWasOffered
    <2> SUFFICES ASSUME IInv, NEW q \in Requests, At(q, "end"), task[q].alone
                 PROVE  /\ Deployed(task[q]) /\ task[q].step = "end"
                        /\ task[q] # None
      BY DEF InstallsWhatWasOffered, Deployed
    <2> QED BY DEF At, IInv, Undisturbed
  <1> QED BY <1>1, Inductive, PTL
=============================================================================
