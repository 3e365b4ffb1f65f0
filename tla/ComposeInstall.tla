---------------------------- MODULE ComposeInstall ----------------------------
(***************************************************************************)
(* Installing and updating an application from its catalog entry, and the  *)
(* runtime that Core manages for it (installFromCatalog in                 *)
(* web/routes/app-catalog.ts, stop, token rotation and removal in          *)
(* web/routes/apps-installed.ts, and the modules apps/app-runtime-*.ts).   *)
(* The entry is read once; an administrator has approved the plan made of  *)
(* it, naming the hashes and the deployment; then the package is           *)
(* downloaded, its container is started in place of the one its service    *)
(* has, the manifest is fetched from it, and the application is stored,    *)
(* in installed_apps and as a managed runtime.  Nothing of this is undone  *)
(* when a later step fails, and requests overlap as they come.             *)
(*                                                                         *)
(* A service is a Compose project and a service in it: a feed may give two *)
(* applications the same.  Staged files are named by their content, and    *)
(* what AppInstall does with a fetched manifest is one step.               *)
(***************************************************************************)
EXTENDS Naturals, FiniteSets

CONSTANTS
    Apps, Services, Packages, Manifests,
    AppOf, ManifestOf,  \* what the container of a package serves (external)
    Refused,            \* the packages whose Compose file the policy refuses
    Offers,             \* the entries that feeds and servers have, by application
    Requests,           \* slots for the administrators' requests
    None,
    MaxChanges          \* bound of the model: requests, entries stored, releases

Plan == [service : Services, package : Packages \cup {None}]    \* package_sha256
Entry == [manifest : Manifests, plan : Plan \cup {None}]        \* None: type external
Container == [package : Packages, running : BOOLEAN]
Row == [service : Services, package : Packages]
Steps == {"managed", "approve", "stage", "unpack", "policy", "token", "up", "fetch", "install", "row", "end",
          "remove", "delete", "stop"}
Task == [kind : {"compose", "external", "uninstall", "stop"}, step : Steps, app : Apps,
         entry : Entry \cup {None},         \* as it was read
         row : Row \cup {None},             \* the managed runtime, as it was read
         alone : BOOLEAN]       \* history: no other request was under way since it began

PackagesAssumption ==
    AppOf \in [Packages -> Apps] /\ ManifestOf \in [Packages -> Manifests]
OffersAssumption == Offers \subseteq Apps \X Entry
NoneIsNothing ==
    None \notin Manifests \cup Packages \cup Entry \cup Plan \cup Container \cup Row \cup Task

VARIABLES
    entry,      \* core.app_catalog_entries
    serves,     \* the manifest at each application's base_url (external)
    confirmed,  \* history: the entries administrators have reviewed and approved
    token,      \* the application's token file: absent, valid or expired
    container,  \* the container of each service (Docker)
    row,        \* core.app_runtime_installations
    installed,  \* core.installed_apps: the manifest
    task, changes

vars == <<entry, serves, confirmed, token, container, row, installed, task, changes>>

TypeOK ==
    /\ entry \in [Apps -> Entry \cup {None}]
    /\ serves \in [Apps -> Manifests]
    /\ confirmed \subseteq Apps \X Entry
    /\ token \in [Apps -> {"absent", "valid", "expired"}]
    /\ container \in [Services -> Container \cup {None}]
    /\ row \in [Apps -> Row \cup {None}]
    /\ installed \in [Apps -> Manifests \cup {None}]
    /\ \A a \in Apps : row[a] # None => installed[a] # None     \* on delete cascade
    /\ task \in [Requests -> Task \cup {None}]
    /\ changes \in 0..MaxChanges

Init ==
    /\ entry = [a \in Apps |-> None]
    /\ serves \in [Apps -> Manifests]
    /\ confirmed = {}
    /\ token = [a \in Apps |-> "absent"]
    /\ container = [s \in Services |-> None]
    /\ row = [a \in Apps |-> None]
    /\ installed = [a \in Apps |-> None]
    /\ task = [q \in Requests |-> None]
    /\ changes = 0

-----------------------------------------------------------------------------
(* Entries, servers and approvals *)

Change == changes < MaxChanges /\ changes' = changes + 1

(* AppCatalog stores, overwrites and deletes entries. *)
StoreEntry(a, new) ==
    /\ Change /\ new # entry[a] /\ (new = None \/ <<a, new>> \in Offers)
    /\ entry' = [entry EXCEPT ![a] = new]
    /\ UNCHANGED <<serves, confirmed, token, container, row, installed, task>>

ServeManifest(a, m) ==
    /\ Change /\ serves[a] # m
    /\ serves' = [serves EXCEPT ![a] = m]
    /\ UNCHANGED <<entry, confirmed, token, container, row, installed, task>>

(* An administrator reads an entry and its plan, and will confirm them.    *)
Review(a) ==
    /\ entry[a] # None /\ entry[a].plan # None /\ <<a, entry[a]>> \notin confirmed
    /\ confirmed' = confirmed \cup {<<a, entry[a]>>}
    /\ UNCHANGED <<entry, serves, token, container, row, installed, task, changes>>

-----------------------------------------------------------------------------
(* Requests *)

At(q, step) == task[q] # None /\ task[q].step = step
Goto(q, step) == task' = [task EXCEPT ![q].step = step]
End(q) == task' = [task EXCEPT ![q] = None]
RequestVars == <<entry, serves, confirmed>>

Begin(q, kind, step, a) ==
    /\ task[q] = None /\ Change
    /\ task' = [p \in Requests |->
         IF p = q THEN [kind |-> kind, step |-> step, app |-> a, entry |-> entry[a], row |-> row[a],
                        alone |-> \A o \in Requests : task[o] = None]
         ELSE IF task[p] = None THEN None ELSE [task[p] EXCEPT !.alone = FALSE]]
    /\ UNCHANGED <<RequestVars, token, container, row, installed>>

(* Mutant: the approval of an earlier plan will do. *)
ApprovalIsThere(a, approved) == entry[a].plan.package # None

(* The approval names the manifest and the package by their hashes, and    *)
(* the deployment; one without a hash is never the current plan.           *)
ApprovalIsCurrent(a, approved) ==
    /\ approved = entry[a]
    /\ approved.plan.package # None

StartCompose(q, a, approved, step) ==
    /\ entry[a] # None /\ entry[a].plan # None
    /\ ApprovalIsCurrent(a, approved)
    /\ Begin(q, "compose", step, a)

(* POST /apps/catalog/entries/:app_id/install with mode "compose", and     *)
(* POST /apps/installed/:app_id/runtime/update, which looks for a managed  *)
(* runtime when it has read the entry.                                     *)
StartComposeInstall(q, a, approved) == StartCompose(q, a, approved, "approve")
StartRuntimeUpdate(q, a, approved) == StartCompose(q, a, approved, "managed")

FindManagedRuntime(q) ==
    LET a == task[q].app IN
    /\ At(q, "managed")
    /\ IF installed[a] # None /\ row[a] # None THEN Goto(q, "approve") ELSE End(q)
    /\ UNCHANGED <<RequestVars, token, container, row, installed, changes>>

RecordApproval(q) ==
    /\ At(q, "approve")
    /\ Goto(q, "stage")
    /\ UNCHANGED <<RequestVars, token, container, row, installed, changes>>

(* What package_url gives must have the hash of the plan. *)
StagePackage(q, downloaded) ==
    /\ At(q, "stage") /\ downloaded = task[q].entry.plan.package
    /\ Goto(q, "unpack")
    /\ UNCHANGED <<RequestVars, token, container, row, installed, changes>>

UnpackPackage(q) ==
    /\ At(q, "unpack")
    /\ Goto(q, "policy")
    /\ UNCHANGED <<RequestVars, token, container, row, installed, changes>>

ValidateComposePolicy(q) ==
    /\ At(q, "policy")
    /\ IF task[q].entry.plan.package \in Refused THEN End(q) ELSE Goto(q, "token")
    /\ UNCHANGED <<RequestVars, token, container, row, installed, changes>>

DeliverToken(q) ==
    /\ At(q, "token")
    /\ token' = [token EXCEPT ![task[q].app] = "valid"]
    /\ Goto(q, "up")
    /\ UNCHANGED <<RequestVars, container, row, installed, changes>>

(* Mutant: a container that is there is started as it is. *)
StartedAgain(s, p) ==
    container' = [container EXCEPT ![s] =
      [package |-> IF @ = None THEN p ELSE @.package, running |-> TRUE]]

(* docker compose up -d --build: the service's container is replaced. *)
Replaced(s, p) == container' = [container EXCEPT ![s] = [package |-> p, running |-> TRUE]]

ComposeUp(q) ==
    LET plan == task[q].entry.plan IN
    /\ At(q, "up")
    /\ Replaced(plan.service, plan.package) /\ (Goto(q, "fetch") \/ End(q))
    /\ UNCHANGED <<RequestVars, token, row, installed, changes>>

(* The manifest of whatever the service's container serves now.            *)
FetchFromRuntime(q) ==
    LET e == task[q].entry
        c == container[e.plan.service] IN
    /\ At(q, "fetch") /\ task[q].kind = "compose"
    /\ IF /\ c # None /\ c.running
          /\ AppOf[c.package] = task[q].app /\ ManifestOf[c.package] = e.manifest
       THEN Goto(q, "install") ELSE End(q)
    /\ UNCHANGED <<RequestVars, token, container, row, installed, changes>>

(* The default mode: the manifest at base_url. *)
StartExternalInstall(q, a) == entry[a] # None /\ Begin(q, "external", "fetch", a)

FetchFromBaseUrl(q) ==
    /\ At(q, "fetch") /\ task[q].kind = "external"
    /\ IF serves[task[q].app] = task[q].entry.manifest THEN Goto(q, "install") ELSE End(q)
    /\ UNCHANGED <<RequestVars, token, container, row, installed, changes>>

InstallFetchedApp(q) ==
    /\ At(q, "install")
    /\ installed' = [installed EXCEPT ![task[q].app] = task[q].entry.manifest]
    /\ Goto(q, IF task[q].kind = "compose" THEN "row" ELSE "end")
    /\ UNCHANGED <<RequestVars, token, container, row, changes>>

(* Mutant: the row refers to nothing. *)
UpsertUnreferenced(q) ==
    LET a == task[q].app
        plan == task[q].entry.plan IN
    /\ At(q, "row")
    /\ row' = [row EXCEPT ![a] = [service |-> plan.service, package |-> plan.package]]
    /\ Goto(q, "end")
    /\ UNCHANGED <<RequestVars, token, container, installed, changes>>

(* The row refers to the application: without it the insert fails.         *)
UpsertRuntimeInstallation(q) ==
    LET a == task[q].app
        plan == task[q].entry.plan IN
    /\ At(q, "row")
    /\ IF installed[a] = None THEN End(q) /\ UNCHANGED row
       ELSE /\ row' = [row EXCEPT ![a] = [service |-> plan.service, package |-> plan.package]]
            /\ Goto(q, "end")
    /\ UNCHANGED <<RequestVars, token, container, installed, changes>>

(* The update's audit entry, and the answer. *)
Answer(q) ==
    /\ At(q, "end")
    /\ End(q)
    /\ UNCHANGED <<RequestVars, token, container, row, installed, changes>>

(* Any step before the last may fail; what was done stays. *)
RequestFails(q) ==
    /\ task[q] # None /\ task[q].step # "end"
    /\ End(q)
    /\ UNCHANGED <<RequestVars, token, container, row, installed, changes>>

-----------------------------------------------------------------------------
(* The managed runtime *)

StartStop(q, a) == row[a] # None /\ Begin(q, "stop", "stop", a)

StopRuntime(q) ==
    /\ At(q, "stop")
    /\ container' = [container EXCEPT ![task[q].row.service] =
         IF @ = None THEN None ELSE [@ EXCEPT !.running = FALSE]]
    /\ End(q)
    /\ UNCHANGED <<RequestVars, token, row, installed, changes>>

ExpireToken(a) ==
    /\ token[a] = "valid"
    /\ token' = [token EXCEPT ![a] = "expired"]
    /\ UNCHANGED <<RequestVars, container, row, installed, task, changes>>

(* Rows are read and the file is written with little between them. *)
RotateToken(a) ==
    /\ row[a] # None /\ token[a] # "valid" /\ Change
    /\ token' = [token EXCEPT ![a] = "valid"]
    /\ UNCHANGED <<RequestVars, container, row, installed, task>>

(* Uninstalling removes the containers of the runtime it has read, then    *)
(* the application, whose runtime's row goes with it.                      *)
StartUninstall(q, a) ==
    /\ installed[a] # None
    /\ Begin(q, "uninstall", IF row[a] = None THEN "delete" ELSE "remove", a)

RemoveRuntime(q) ==
    /\ At(q, "remove")
    /\ container' = [container EXCEPT ![task[q].row.service] = None]
    /\ Goto(q, "delete")
    /\ UNCHANGED <<RequestVars, token, row, installed, changes>>

UninstallApp(q) ==
    LET a == task[q].app IN
    /\ At(q, "delete")
    /\ installed' = [installed EXCEPT ![a] = None]
    /\ row' = [row EXCEPT ![a] = None]
    /\ End(q)
    /\ UNCHANGED <<RequestVars, token, container, changes>>

-----------------------------------------------------------------------------

Next ==
    \/ \E a \in Apps :
         \/ \E e \in Entry \cup {None} : StoreEntry(a, e)
         \/ \E m \in Manifests : ServeManifest(a, m)
         \/ Review(a) \/ ExpireToken(a) \/ RotateToken(a)
    \/ \E q \in Requests, a \in Apps :
         \/ \E c \in confirmed :
              c[1] = a /\ (StartComposeInstall(q, a, c[2]) \/ StartRuntimeUpdate(q, a, c[2]))
         \/ StartExternalInstall(q, a) \/ StartStop(q, a) \/ StartUninstall(q, a)
    \/ \E q \in Requests :
         \/ \E p \in Packages : StagePackage(q, p)
         \/ FindManagedRuntime(q) \/ RecordApproval(q) \/ UnpackPackage(q)
         \/ ValidateComposePolicy(q) \/ DeliverToken(q) \/ ComposeUp(q)
         \/ FetchFromRuntime(q) \/ FetchFromBaseUrl(q) \/ InstallFetchedApp(q)
         \/ UpsertRuntimeInstallation(q) \/ Answer(q) \/ RequestFails(q)
         \/ StopRuntime(q) \/ RemoveRuntime(q) \/ UninstallApp(q)

Spec == Init /\ [][Next]_vars

-----------------------------------------------------------------------------
(* Whatever overlaps and fails: a container that Core has started, and a   *)
(* runtime it records, is of a package and a service that an administrator *)
(* approved together, the policy allows the package, and the application's *)
(* token was delivered before.                                             *)
Approved(a, s, p) == \E c \in confirmed : c[1] = a /\ c[2].plan = [service |-> s, package |-> p]

RuntimesWereApproved ==
    /\ \A s \in Services : container[s] # None =>
         /\ container[s].package \notin Refused
         /\ \E a \in Apps : Approved(a, s, container[s].package) /\ token[a] # "absent"
    /\ \A a \in Apps : row[a] # None => Approved(a, row[a].service, row[a].package)

(* An installation that no other request overlapped ends with what its     *)
(* entry offered: that manifest, and with a managed runtime that package   *)
(* in the service's container, recorded, with a manifest of its own that   *)
(* is the installed one.                                                   *)
InstallsWhatWasOffered ==
    \A q \in Requests :
      LET e == task[q].entry
          a == task[q].app IN
      At(q, "end") /\ task[q].alone =>
        /\ installed[a] = e.manifest
        /\ task[q].kind = "compose" =>
             /\ container[e.plan.service] = [package |-> e.plan.package, running |-> TRUE]
             /\ row[a] = [service |-> e.plan.service, package |-> e.plan.package]
             /\ AppOf[e.plan.package] = a /\ ManifestOf[e.plan.package] = installed[a]
=============================================================================
