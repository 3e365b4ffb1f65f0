# Verification of hekatoncheiros-core

TLA+ models of the core service of Hekatoncheiros (`src/src`), the TLC runs that
check them on small instances, and TLAPS proofs of their main properties for
every value of the constants. Paths below are relative to the repository; the
program itself is under its directory `src/`.

## The system

Core is one Node process (Fastify) in front of one PostgreSQL database. It
serves a multi-tenant platform: applications run as services of their own, Core
installs them, serves their UI bundles, proxies requests to them, decides what a
tenant is licensed to use and what a user may do, and lets developers deploy
applications from source.

Concurrency in Core has a single shape. JavaScript runs to completion between
two `await`s, and at every `await` (a query, an HTTP fetch, a file operation,
`docker`) any other request, timer or callback may run. Hardly any handler uses
a transaction or a lock over more than one statement. So every model is built
the same way: a request is a *slot* holding a program counter and what it has
read so far, an action is the code between two awaits, and requests interleave
freely. A failing query or fetch is an action of its own; a restart forgets the
slots and keeps the tables. PostgreSQL runs at read committed: a statement sees
what was committed when it began, and its constraints see what is committed when
it ends.

### Inventory

| Component | Code | State | Operations | What is hard | What makes it correct | Status |
|---|---|---|---|---|---|---|
| Tenant licenses | `licensing/license-service.ts`, `web/routes/licensing.ts`, `authors.ts` | licenses, selections, revocations, trust snapshots | import, validate, sync issuer or registry, refresh all, select, clear, gate | verdicts computed from data that changes before they are written; a refresh of many rows that fails half way | a status is true of the data it was computed from; revocations take effect; a verdict stays with the license it is of | **LicenseStore**, safety proved |
| Runtime health | `apps/app-runtime-health.ts`, `app-diagnostics.ts`, `web/routes/app-proxy.ts` | states map, result table, timer | tick, check, persist, stop, diagnose, load | checks overwrite one another; results persisted out of order; the tick's rejection ends the process | counts are real; the proxy follows the application; the monitor goes on | **RuntimeHealth**, safety proved |
| Tenant access | `web/routes/identity.ts`, `identity/tenant-rbac.ts` | tenants, memberships, roles, assignments, grants, audit | create, join, patch, delete, assign, remove, edit, replace | reads and writes in separate statements; transactions at read committed | base role kept; assignments sound; privileges are those of the roles; audit exact | **TenantAccess**, proved |
| Application installation | `apps/app-installer.ts`, `apps/app-installation-store.ts`, `apps/ui-artifact-storage.ts`, `web/routes/apps-installed.ts` | rows, update signals, bundle files | install, refresh, uninstall, report | two fetches with a release in between; the file written before the row; overlaps | names unique; bundle there and not outdated; a signal is cleared by what it announced | **AppInstall**, proved |
| Developer deployments | `web/routes/developer-projects.ts`, `developer-project-sync.ts`, `developer-operations.ts`, `developer/deployment-*.ts` | project row, deployments, containers, installed application | sync, approve, validate, install, rollback, runtime action | a long sequence with compensation at each step; one alias for all containers | one active deployment, the reported one; failure restores; replacing takes an approval | **DeveloperDeployments**, proved |
| Tenant enablement | `apps/app-registry-service.ts`, `web/routes/apps.ts` | installations, tenant apps, application schemas, roles, the pool's connections | enable, disable | transactions through a pool; steps that fail one by one | what is enabled was announced to its service; what is ready is migrated | **TenantApps**, proved |
| Events | `events/event-service.ts`, `web/routes/events.ts` | events, consumption | publish, consume, acknowledge | redelivery, two workers, late acknowledgements, a limited answer | nothing lost, nothing redelivered after its acknowledgement | **EventLog** implements **EventDelivery**, proved |
| License OAuth | `licensing/license-service.ts` (from line 540) | flows in memory, connections | start, callback | restart in between, two registrations, two callbacks | a flow imports once; a code goes to the client it was asked for | **LicenseOAuth**, proved |
| Catalog | `apps/app-catalog-*.ts`, `web/routes/app-catalog.ts` | sources, entries, signals, a timer | synchronize, automatic refresh, refresh from installed, publish | overlapping synchronizations, trust that changes during one | entries were listed by their source and catch up with it; the timer stores trusted releases only | **AppCatalog**, safety proved |
| Compose runtimes | `apps/app-runtime-*.ts`, `web/routes/app-catalog.ts`, `apps-installed.ts` | token files, containers, runtime rows | approve, stage, unpack, check, start, record, stop, uninstall | entries that change under a request; two applications with one service; no compensation | what runs was approved and allowed; an installation alone does what its entry said | **ComposeInstall**, proved |
| Sessions, identifiers | `web/routes/auth.ts`, `web/plugins`, `identity/generated-id.ts` | refresh tokens, identifiers | login, refresh, delegate, generate | identifiers that collide | identifiers unique and stable | planned |
| Author onboarding | `web/routes/author-portal.ts`, `authors.ts`, `authors/` | requests, profiles, onboardings, signing keys | create, edit, submit, review, register, onboard, rotate, revoke | status checked at one statement and written at another; an approval is five steps at two services | an approved request has its author, of what was submitted; Core keeps certified keys | **AuthorOnboarding**, proved |
| Entitlements, availability | `licensing/entitlement-service.ts`, `apps/app-availability.ts` | none (pure) | resolve | many overlapping sources | equal to a reference definition | planned, as operators |
| Developer connections, manifests, trusted origins, configuration, accounts, privilege catalog, audit log, pool and migrations, web server | see `PROJECT.json` | single rows or none | single statements, stateless checks | little | - | not modelled, with the reason in `PROJECT.json` |

How they interact. *Installation* is called by the catalog, by developer
deployments (`installFetchedApp`) and by its own routes; uninstalling clears the
*license selection* of the calling tenant and removes the *health* row by foreign
key; installing from the *catalog* starts a *Compose runtime* first and hands its
manifest to installation. *License OAuth* ends in an import and a selection of
*licenses*. The *proxy* asks runtime health, then the license gate. *Licenses* are
refreshed by the revocation routes and by the author registry's route.
*Deployments* register their application through installation. *Access* is read
by every route through `requireUserAuth`. There are no callbacks or queues other
than the health monitor's timer and the catalog's.

The hazards of this code, at their lines, are listed in `PROJECT.json` with the
properties that cover them, or the reason why none does.

## Modules

Each component has a module with its state and actions. Three modules put
components side by side:

| Module | Composes |
|---|---|
| `Applications` | what is done to an application: AppInstall, TenantApps, ComposeInstall |
| `Services` | EventLog (with its promise EventDelivery), LicenseOAuth, AppCatalog |
| `Operations` | what operators look after: AuthorOnboarding, RuntimeHealth |

No step of one component reads what another one of the three keeps, so a
behaviour of the composition uses one of them and leaves the others as they
began: TLC explores the sum of the state spaces instead of their product, and
every property speaks of one component. The compositions are modules with
parameters and assumptions like any other, and the theorems are about them too;
the `MC` modules only say which sets TLC takes for an instance. `MCTenantAccess`
limits TenantAccess to three parts in turn (`RolesOnly`, `MemberOnly`,
`GrantsOnly`), for the reason its comment gives; the theorems are about all of
it.

The theorems about a composition and its components are in a `Proofs` module of
the same name. `TenantAppsProofs` and `ComposeInstallProofs` prove theirs about
the component alone, and `ApplicationsProofs` takes them over by `INSTANCE`.

### LicenseStore

One action per database round trip of `license-service.ts`. A license and its
author's certificate are one record (*material*) of the claims the verdict
depends on; signatures are what the record says they are. `lic`, `status`,
`selection`, `local`, `trust`, `snapshot` are tables; `registry`, `published`
and `now` belong to the world outside. `req[r]` is a request, and because
`refreshStoredLicenseStatuses` validates all rows in one `Promise.all`,
`task[r][j]` is its validation of row `j`: `ReadStored`, `LoadTrust`,
`CheckLocal`, `CheckIssuers`, then `WriteImport` or `WriteStatus`. `QueryFails`
and `RequestFails` are the error paths: within a validation a failing query
becomes the verdict `invalid`, outside of it the request fails while the other
validations go on. `settled` is history: rows validated since any revocation
data changed.

- `SettledStatusTrue`: such a row has a status true of that data. It is what is
  left of "statuses are true" when verdicts may be computed from older data.
- `VerdictsStayHome`: an import upserts on the `jti`, so the row of one tenant's
  license may become another tenant's under a validation of it; no status is
  written there from the former owner's material. The update's condition on
  the tenant the validation was asked for is what ensures it. That the gate of a
  tenant opens only by a license of its own is not stated: such an import takes
  the row a selection names, and the gate joins by `jti` alone.
- `SyncSettlesAll`, `RevocationTakesEffect` (one request at a time): when a
  synchronization answers, no active license is revoked by its documents; a
  revocation that reached the database deactivates the license in the end.
- `ViewMatchesGate` is violated: see *Findings*.

### RuntimeHealth

`mem` is the `states` map, `row` the table, `mon` the place of the monitor's
`tick()`, `task[c][a]` the check (or stop) of application `a` by checker `c`: the
monitor, a diagnosis or a stop. `CompleteFetch` writes the state computed from
the one captured *before* the fetch, as `checkAppRuntime` does; `Persist` runs
later, and fails on its foreign key after an uninstall. A rejection in the
monitor ends the process (`void tick()` has no handler), `Restart` is systemd's,
`LoadRows` the load on start.

- `CountsAreReal`: with the monitor the only checker, an application never has
  more failures counted than checks failed in a row, and is unreachable only
  from the threshold on.
- `DeadNotForwarded`, `AliveForwarded`: the proxy's decision follows an
  application whose answers have become stable, whatever raced before.
- `RowCatchesUp`: the table agrees with memory in the end.
- `MonitorKeepsTicking`: nothing stops the monitor for good.

### TenantAccess

Tables as functions of row identifiers (`memb`, `role`) and sets of pairs
(`holds`, `rolePriv`), grants as rows with a serial number. A transaction is a
step that reads and a step that commits or rolls back; a handler with two
statements has a step for each. Identifiers are never reused.

- `AssignmentsSound`, and the theorems `BaseRolesKept` and `MembershipsUnique`:
  the shape of memberships under joins, removals and deletions.
- `MembersGetTheirRoles`: someone with system roles only has exactly what those
  roles grant, and nothing while inactive.
- `AuditExact`: the row an audit entry says was replaced is the one that was,
  unless the client sent a version ahead of the row that was read and the
  versions of the entry show the gap. The route takes any positive version, and
  reading the row and replacing it are separate statements, so a client that
  guesses the next version gets its update through after somebody else's, with
  the older row in the audit entry. A client that sends a version it has read
  never does.
- `ReplaceExact`: a replacement not overlapped by another leaves what it asked
  for. That no grant is stored twice, whatever overlaps, is the theorem
  `GrantsAreDistinct`.

### AppInstall

`served` is what each application's service offers (external, it moves on by
itself), `row`, `signal`, `file` what Core keeps. A request fetches the manifest,
then the bundle, opens the file (truncating it), writes it, checks the slug,
upserts the row and, for a refresh, clears the signal, in the order of
`installFetchedApp`. Bundles are pairs of service and release.

- `BundleNotOlder` and `RefreshesStayHome` hold under any overlap, and so do
  `NamesUnique` and `InstalledHasFile` (theorems); `StoresServeTheirUi` and
  `ClearsFollowInstalls` of a request that no other overlaps.
  `UninstalledStaysGone` is violated.

### TenantApps

`schema` is what has been committed in each application's schema, `tx` the open
transaction of each pool connection, `role` the database roles, `state` and
`enabled` the tables `app_installations` and `tenant_apps`. An enable request is
a sequence of queries: the state `installing`, then for every migration `begin`,
`set local search_path`, its text and `commit`, then the role, its grants, the
call to the application's service, and the two rows. Each query is given a
connection by the pool: the one used last when nothing else asks, any one
otherwise (`Given`). Hence a transaction may be begun on one connection and ended
on another, and the text of a migration may run in whatever transaction and
schema its connection is in (`Transaction`). What was applied is recorded
nowhere, so every enabling runs all of it again. Each step may fail.

- `EnabledWasInformed`: under any overlap, what is enabled was accepted by the
  application's service.
- `ReadyIsMigrated`: a request that nothing overlapped and that reports `ready`
  has every migration committed in the application's own schema, the role, and
  no transaction open. With overlaps this is not so; that is the hazard at
  `app-registry-service.ts:84`.

### EventLog and EventDelivery

`EventDelivery` is the promise to the applications: an event is offered to each
consuming application of its tenant until one of its workers has acknowledged
it, and never again after. `EventLog` is the code: an insert whose `created_at`
precedes its visibility, a consume that answers the oldest `Max` events without a
consumption row and claims nothing, an acknowledgement (of events its worker
holds: the route does not check it) that is one insert per event, in any order,
and may stop midway; workers that end, answers and
acknowledgements that are lost.

- `DeliversAtLeastOnce`: `EventLog` implements `EventDelivery` under the mapping
  `log <- Published`, `acked <- consumed`, `held <- Held`.
- `EventsSettle`: every published event is acknowledged in the end, provided
  fewer than `Max` events cannot be handled. As many as that would fill every
  answer, which is the hazard at `event-service.ts:30`.

### LicenseOAuth

`flow` is the map of states in memory (a restart forgets it), with what a start
has reached; `conn` the row of each tenant and issuer, `owner` what the issuer
(external) has registered, `callback` the requests with which browsers return,
perhaps twice. Looking up a client and registering one are separate steps, and
the client is looked up again at the callback.

- `OneImportPerFlow`: however often the browser returns, one license is imported.
- `CodesGoHome`: a code is exchanged with the client it was asked for, unless
  another start of the tenant stored a client meanwhile.

### AppCatalog

`source`, `entry` and `signed` are the tables of sources, entries and signed
update signals; `feed` and `serves` what feeds and application servers offer
(external). An item may carry a signal of its author, which expires: `left`
counts the days before that, `NextDay` takes one from every item the feeds list,
and an author may sign again (`RenewSignal`). An item whose signal has expired,
or does not verify, fails like one whose application, version or hash is not the
manifest's. A synchronization, by an administrator or the timer, holds the source
it read in its task and fetches the feed, then for each item the manifest, each a
step that may fail, and stores with the trust of the source it read. At its turn
an item is as it was listed, or a day older. `todo` is
the list of a tick, which goes through the eligible sources it read at its start.

- `FeedEntriesWereListed`: an entry naming a source has a release that this
  source's feed listed, whatever changes between the two fetches. The two ways
  the code has around it are in the comment of the property.
- `TimerTrustsSource`: what the timer stores has the status of a trusted source,
  although `createFeedSource` keeps the automatic flag of a source it demotes.
- `EntriesCatchUp`: when feed and server agree for good, the entry follows,
  although an older synchronization may be stored last, and although days pass:
  an item with a signal must be signed again each time before its last day. A
  signal that is left to expire fails at every later synchronization, and one
  renewed on its last day may fail at each, as it may expire between the fetch of
  the feed and the item's turn.

### ComposeInstall

`entry` is the catalog's row, `token` the file, `container` what runs in each
service, `row` the managed runtime and `installed` the application. A request
reads its entry once and goes through `managed, approve, stage, unpack, policy,
token, up, fetch, install, row`; each step may fail and nothing is undone. Feeds
may give two applications one service, so that one replaces the other's
container.

- `RuntimesWereApproved`: under any overlap, whatever Core has started or
  recorded was approved with that package in that service, the policy allows it,
  and the token was there before.
- `InstallsWhatWasOffered`: an installation alone ends with what its entry
  offered.

### AuthorOnboarding

`content`, `status` and `author` are the columns of a request, reduced to what
the code decides by: the operating mode, the key, the acceptance of the terms.
`profile`, `signing` and `onboarded` are the tables of authors, `registry` what
the registry (external) has of each. A submission or a review reads the row,
checks the transition and later writes the status without a condition. An
approval goes through `register, keys, activate, certificate` at the registry,
`profile` (the transaction) and `update`; onboarding by an operator and rotation
of keys share the middle of it. Each step may fail and nothing is undone. What
operators of the registry do (suspend, revoke, restore, delete) passes through
Core without a trace, so a key or certificate of the registry is kept as history.

- `ApprovedHasAuthor`: under any overlap and failure, an approved request names
  an author that was registered and whose profile was made for it.
- `ApprovedAsSubmitted`: the author accepted the terms and the profile is of what
  the request says. Stated for requests of which no two changes of the status,
  and no submission and edit, were under way at once (`raced`): an edit between
  the read and the write of a submission is submitted unchecked, and a review
  that overlaps an approval may send the request back after its author is made.
- `LocalWasCertified`: what Core keeps as an author's key was in a certificate
  that the registry issued, or was revoked there.

### DeveloperDeployments

One project whose staged source is built from a Dockerfile. `project` is its row,
reduced to the columns that handlers read and without the JSON around them,
`dep` the deployments, `container` what docker keeps for each, `app` what is
registered. A request carries what it read at its start; an install goes through
`stage, stop, build, serve, register, runtime, switch, commit, remove, log`, and
its catch block through `undo, restore, mark`. The transaction is two steps, its
snapshot and its commit, with the unique index of active deployments checked at
the commit. `source` and `manifestOf` are the repository the project is built
from (external); `accepted`, `past` and the fields `compared` and `checked` are
history.

- `OneActive`, `DeployedIsActive` hold under any overlap, failure and crash.
- `OneAnswers`: one container at most answers to the alias, so it is the new
  one's manifest that is checked.
- `HealthyRuns`: at rest, a runtime reported healthy runs.
- `RegisteredIsActive`: at rest, what is registered is the active deployment.
- `ReplacedOnlyWithApproval`: a revision that replaces another was approved or
  deployed before.

The last four are stated for behaviours in which certain things have not
happened (`past`): requests that overlap, crashes and failed cleanups, half
performed actions, and deployments that fail after their registration. Each
exclusion is a fact about the code (it has no lock per project, no recovery at
startup, and no compensation of a registration) and is listed as a hazard.

## Runs

| Run | Question | Bounds |
|---|---|---|
| `license_concurrent` | Are statuses true, and of the license whose row they are in, while two requests of any kind overlap, with a failing query or a restart and an expiring clock? | three licenses of one `jti`: one that expires, its renewal under another key, and one of another tenant; 2 requests; one failing query or restart; time 0..1, skew 1; the first key may be revoked. Two overlapping writers of one row, with old and new material or with two tenants' material, is the smallest case in which a stale or a foreign verdict can win. |
| `license_serial` | Does a synchronization settle everything, does a revocation take effect? | two tenants with a license each, one request at a time, every kind of revocation, root rotation. Two rows are needed for a refresh that settles one only. |
| `license_view` | Does the list agree with the gate? (violated) | as above |
| `health_monitor` (`Operations`) | Are failure counts real? What does an approval of an author that is overlapped, or fails half way, leave? | two applications, one stop request, one uninstall, threshold 2, failures counted up to the cap. AuthorOnboarding: one request of three possible contents, two authors at the registry (an approval that is asked for again registers a second one), two tasks, and 3 changes (decisions of reviewers, edits, operators' actions): sent back, edited and approved. |
| `health_races` | Do proxy, table and monitor recover from races? (liveness) | one application, a diagnosis, a stop, one failing query, one uninstall |
| `access` | Joins, removals, role edits and deletions in any order; overlapping updates of one membership; overlapping replacements of one user's grants | two tenants, one user, two memberships, one custom role, one join and one removal, two updates and two replacements in flight; versions and serials up to 3. Two of each are what a race needs. |
| `applications` | Installing, enabling and deploying an application, each with every overlap and failure | AppInstall: 2 applications that may want one slug and one of 2 services, 2 releases, 2 requests. TenantApps: 2 tenants, 2 applications, 2 requests, 2 connections, 1 migration: two requests on two connections is where transactions begin to mix. ComposeInstall: 2 applications in one service, 4 packages (one refused, two of one release), 2 requests, 4 changes: an approval, an entry that changes, and two installations. |
| `install_uninstalled` | Does an uninstalled application stay away? (violated) | 1 of each |
| `services` | Are events delivered, does an OAuth flow import once, do entries follow their feeds? (safety and liveness) | EventLog: two workers of one application, 3 events of which one cannot be handled, answers of 2, one fault. LicenseOAuth: 2 flows, 2 callbacks, 2 clients, any number of restarts. AppCatalog: one source and application, an administrator and the timer, 2 releases, 3 requests, one outage, signals valid for 3 days. Three stand for the seven of the code: a day to be renewed on, one to be synchronized on, and the last, on which a signal may expire during a synchronization. |
| `deployment_lifecycle` | Everything above on deployments | 2 revisions with equal or different manifests, 2 deployments, 2 requests, one mishap of each behaviour. Two deployments are what an install and a rollback between them need; a second mishap would only be used by the properties that exclude the first. After an overlap or abandoned containers no runtime action is followed (`ActionsWhereTheyShow`): it writes only what the properties that remain do not read. |
| `deployment_failed` | Is a failed deployment inactive? (violated) | 1 request |
| `deployment_approval` | Does a new revision always take an approval? (violated) | 1 request |

Symmetry is used in runs of safety properties only, on sets whose members the
specification treats alike. Every constant named `Max...`, `...Revocable`,
`Reported`, `RegistryRootSets` or `CountCap` is a bound of the model. Deadlock
is checked except in `access`, where identifiers and versions run out, and in
`applications` and `services`, where requests, events and callbacks do.

**Fairness.** `LicenseStore!FairSpec` asks weak fairness of the steps of each
request: queries and fetches answer or fail (the code sets timeouts on fetches)
and the event loop runs what is ready. No request is assumed to arrive.
`RuntimeHealth!FairSpec` asks it of the checks, of the monitor's own steps (the
timer fires) and of the restart (`Restart=` in `deploy/systemd`). `EventLog!Fairness`
asks it of each worker's polling and handling, and of the inserts of an
acknowledgement that was not lost: the applications poll, and what has reached
Core is carried out. `AppCatalog!Fairness` asks it of the interval and of the
requests that have begun, whose fetches have timeouts: a synchronization of two
hundred items, the most a feed may have, at eight seconds each ends well within a
day, so that one day at most ends between the feed and an item's turn
(`FetchItemManifest`). Nothing is asked of
authors, who may or may not sign again. Nothing is asked of users,
applications, services or faults.

## Findings

- `web/routes/apps-installed.ts:194` reports an *active* license for any selected
  one, whatever its stored status; the proxy then answers 402 (`license_view`).
- `web/routes/apps-installed.ts:426`: a refresh that began before an uninstall
  stores the application again (`install_uninstalled`).
- `web/routes/developer-projects.ts:738`: the success log of an install is
  written inside the `try` block after the commit; if it fails, the catch block
  removes the active deployment's container and marks it failed
  (`deployment_failed`).
- `web/routes/developer-projects.ts:448`: a diff synchronized before the first
  deployment asks for no approval after it, so that a second revision replaces
  the first unapproved (`deployment_approval`).

## Proofs

All theorems hold for any number of tenants, applications, requests and so on,
from the `ASSUME`d properties of the constants, which TLC evaluates in every run,
or from assumptions the theorem itself states (`Assumptions`: the value `None` is
no row, request or transaction, and bounds are numbers), which the composing
module `ASSUME`s of its instance.

| Module | Proved |
|---|---|
| `LicenseStoreProofs` | `TypeOK`, `SettledStatusTrue`, the action property `VerdictsStayHome`; the action property `SyncSettlesAll` of requests that do not overlap, restart or fail (`Serial`) |
| `TenantAccessProofs` | `TypeOK`, `BaseRoleKept`, `AssignmentsSound`, `OneMembership`, `MembersGetTheirRoles`, `AuditExact`, `GrantsDistinct`, `ReplaceExact` |
| `ApplicationsProofs` | of AppInstall `TypeOK`, `NamesUnique`, `InstalledHasFile`, `BundleNotOlder` and the action properties `RefreshesStayHome`, `StoresServeTheirUi`, `ClearsFollowInstalls`; of the composition all of these, and `AllTypeOK`, `EnabledWasInformed`, `ReadyIsMigrated`, `RuntimesWereApproved`, `InstallsWhatWasOffered` |
| `TenantAppsProofs` | `TypeOK`, `EnabledWasInformed`, `ReadyIsMigrated` |
| `ComposeInstallProofs` | `TypeOK`, `RuntimesWereApproved`, `InstallsWhatWasOffered` |
| `ServicesProofs` | the refinement `Spec => Delivery!Spec` of EventLog (`DeliversAtLeastOnce`), `OneImportPerFlow`, `CodesGoHome`, `FeedEntriesWereListed`, the action property `TimerTrustsSource`; all of them, with `AllTypeOK`, of the composition |
| `OperationsProofs` | `ApprovedHasAuthor`, `ApprovedAsSubmitted`, `LocalWasCertified`, the types of both parts; `CountsAreReal` when `Diagnosers = {}`; all of them of the composition |
| `DeveloperDeploymentsProofs` | `TypeOK`, `OneActive`, `DeployedIsActive`, `OneAnswers`, `HealthyRuns`, `RegisteredIsActive`; the action property `ReplacedOnlyWithApproval` |

Each follows from an inductive invariant: it holds initially, every action keeps
it (a lemma per action, or per group of actions that do the same to it), and it
implies the property. TLC was asked about each one on a small instance before it
was proved. What they say beyond the types, and why it is needed:

- **LicenseStore** (`IInv`). Rows and carried material are filed under their jti;
  a validation carries material of the tenant it was asked for, whatever the row
  holds by now (`StatusTaskOwned`), so that the condition of the update keeps its
  verdict from the row of another tenant; and what a validation that has read no
  outdated data knows at each of its steps
  (`FreshTrue`). For `SyncSettlesAll` (`SerialInv`): only a synchronization
  carries a document (`Unsynchronised`), the documents stand still while it
  refreshes, and the validation of each row is of the material that row holds and
  ends *active* only if those documents trust it (`Refreshing`). That it settles
  every row rests on the absence of overlaps and faults: one rejected query of
  the `Promise.all`, or an import in between, leaves rows as they were.
- **RuntimeHealth**. No copy of a state, in memory, table or a check, is
  unreachable below the threshold, and the state a check started from counts no
  more than the failures in a row. False as soon as a diagnosis runs beside the
  monitor, which is why `Diagnosers = {}` is a hypothesis.
- **AuthorOnboarding**. What a task has established when it reaches a step
  (`Sound`): the key it certifies was posted, the certificate it stores was
  issued; two approvals under way are of different authors (`Apart`), so that the
  profile one writes is not the other's; a row with an author has its profile
  (`RowsSound`). `ApprovedAsSubmitted` needs a second invariant of requests that
  are not `raced`: what a task read is still what the row says.
- **TenantAccess**. What a join, a removal, an update and a replacement in flight
  may still rely on when they commit: an update that was applied replaced the row
  of the version its client sent, which is the row it read or a later one, and
  the row it read if the versions are equal (`Replaced`), whence `AuditExact`;
  system roles exist with their tenant and
  grant what they were provisioned with; identifiers in use were issued.
- **AppInstall**. What a request has fetched at each step (`Fetched`), and that
  no service serves an older release than a manifest fetched from it
  (`NotAhead`). A second invariant (`AInv`) for a request that is alone: the file
  still holds what it wrote, and the row what it stored.
- **TenantApps**. What a request has done at each step (`RequestsSound`), that
  the public schema exists, and, for a request that is alone, that its one
  connection carries its transaction and nobody else's, with the migrations
  before it committed (`Undisturbed`).
- **ComposeInstall**. What a request has established at each of its steps
  (`TasksSound`): the entry it carries has a plan and was approved, its package is
  allowed, its token is there. For `InstallsWhatWasOffered`, of a request that is
  alone (`Undisturbed`): from its `up` on its package is what runs in the service
  (`Deployed`), and what is served there is what the entry offers.
- **EventLog**. Nothing beyond the types, and that workers acknowledge only what
  they hold, which is the applications' part, as `/events/ack` checks neither
  identifiers nor consumer: each step of the log is a step of the
  promise or leaves its state as it was (an insert that is not committed
  publishes nothing; a redelivery is an offer).
- **LicenseOAuth**. A flow that is away is remembered, or taken by one callback,
  or spent (`Spent`): that is what deleting it before the exchange buys. For
  `CodesGoHome`: clients stay with their tenant although their rows move between
  applications (`Owned`); what a flow looked up is what a look-up would still
  find, unless another start of the tenant stored a client since (`Unpassed`);
  and the client found is the latest, which takes that births are bounded by the
  number stored and every set of clients has a last one (`Aged`). `ClientStored`,
  the largest lemma, is the upsert.
- **AppCatalog**. The items a synchronization carries were listed by the feed of
  its source, and the release it stores agrees with its item (`SyncSound`), which
  holds through every fetch and day in between because what was listed stays so; what
  feeds offer was listed (`FeedsListed`); sources are not deleted
  (`SourcesKnown`); the list of a tick, and what the timer works on, have the
  status of a trusted source (`TimerTrusts`).
- **DeveloperDeployments**. `IInv`: a diff is of a synchronized revision and what
  is valid has a manifest (`RowSound`); deployments never vanish
  (`PreviousExists`); what a request relies on between two steps (`Held`). `AInv`,
  without overlaps: the row still says what the request read, and the approval
  travels from the diff to the row, to the validation and to the install
  (`Licensed`). `DInv`, of a request under way alone, at any of its steps: which
  containers exist and which runs (`Placed`: the active one before it is stopped,
  none, then the new one, the old one again in the catch block), what a runtime
  reported healthy may rest on (`Healthy`), whose manifest is about to be
  registered or is (`Registered`). Each clause says what it needs not to have
  happened, so that the invariant weakens with each mishap instead of ending with
  the first: `HealthyRuns` survives deployments that failed at any step,
  `RegisteredIsActive` does not, as nothing takes a registration back.
- **The compositions**. A step of `AllNext` is a step or a stutter of each part
  (`StepsOfAll`, `StepsOfBoth`), so a behaviour of the composition is one of each
  part and inherits its theorems. Where a part is an instance, its operators are
  first shown to be those of the instance in the `Proofs` module
  (`SameEnabling`, `SameDeploying`).

Every invariant and action property of the passing runs is proved. Only
model-checked: the liveness properties (`RevocationTakesEffect`,
`DeadNotForwarded`, `AliveForwarded`, `RowCatchesUp`, `MonitorKeepsTicking`,
`EntriesCatchUp`, `EventsSettle`), as liveness under fairness and ENABLED are
outside of the prover's reach, and the violated properties, of which one
counterexample is enough. `TypeOK` of `LicenseStore`, `RuntimeHealth`,
`TenantAccess` and `DeveloperDeployments` is proved and not checked again by a
run. Induction over data and RECURSIVE operators are out of reach too; the models
use neither.

## Not modelled, and what else was noticed

Within the modelled components: activation requests and entitlement tables
(licenses); latencies and error classes (health); profile
data and platform-wide roles (access); the content of manifests beyond slug,
application and release (installation); what AppInstall does with the manifest of
a Compose runtime beyond storing it (one step of `ComposeInstall`); times
other than the expiry of signals, texts and shown errors (catalog); projects without a staged source,
compose projects, drafts and deletion (deployments); members, repository
connections, external issuers and applications of authors (author onboarding): an application that
was submitted stays so, as no route changes its status, so that the routes which
publish it can never be used. Whole components are listed
in the inventory and in `PROJECT.json` with their reasons.

Reading the code also showed the following, which no model covers: a user-owned
developer project has no tenant, so that updates and inserts that name one never
reach it; an import whose `jti` another tenant has already imported takes the row
that the other's selection may name, and that tenant's gate goes on answering by it
(`license-service.ts:387`, `:493`); changing a project's runtime type between
synchronization and install
changes what its approval was about; deleting a project leaves its container
running; `registerApp` ends with an error before it stores anything, because
`core.apps` has no column `manifest_json`; nothing reads `tenant_apps` or
`app_installations`, so that enabling has no effect on the proxy; refreshing a
catalog entry from the installed application keeps the feed item of the release
it replaces; an installation that fails after its container was started leaves
that container running with no row; `entitlement-service.ts` is called by
nothing; the revision of a local workspace is the hash of its manifest file
only, so other files may change under one revision; an approval that fails after
the registration leaves its author at the registry and asking again registers
another; a rejected request can be edited but never submitted again; a rotation
of keys leaves `author_profiles` and `author_signing_keys` as they were; a
suspension at the registry never reaches `author_profiles.registry_status`.

## Plan

Done, in the order of how much depends on them: 1 LicenseStore, 2 RuntimeHealth,
3 TenantAccess, 4 AppInstall, 5 DeveloperDeployments, 6 TenantApps, 7 EventLog
and EventDelivery, 8 LicenseOAuth, 9 AppCatalog, 10 ComposeInstall,
11 AuthorOnboarding.

What is left:

12. **AccessGate**: an abstract specification of the proxy (forward only what is
    installed, healthy and licensed), composed of RuntimeHealth, LicenseStore and
    AppInstall by instances.
13. Operators for entitlement resolution and availability against a reference.
14. Sessions and identifiers; members and applications of authors.
15. Proofs: that of AccessGate from the theorems of its parts; the refinement of
    abstract specifications of installation and of deployment (one active
    revision, replaced at once), for which the invariants above are the material;
    weaker hypotheses for `CountsAreReal` and `SyncSettlesAll`, naming the
    overlaps that do no harm.
